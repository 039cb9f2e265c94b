--------------------------- MODULE RecordCycleProofs ---------------------------
(***************************************************************************)
(* Theorems about the life of the records of a block.                      *)
(***************************************************************************)
EXTENDS RecordCycle, SequenceTheorems, TLAPS

-----------------------------------------------------------------------------
(* What is done to a record. *)

\* A record whose value is not the initial one is marked as dirty.
Marked(x) == x.value # x.initial => x.dirty

\* An edit that is neither saved nor reported as failed.
Unsaved(x) == ~x.failed /\ x.state \notin {"Delete", "Deleted"} /\ x.value # x.initial

\* A record of a row of the table has a value.
Whole(x) == x.initial # Null => x.value # Null

\* From x to y no record is taken for flushed that was not, and no new one for an old one.
Kept(x, y) ==
  /\ y.state \in {"Inserted", "Updated"} => x.state = y.state /\ y.initial = x.initial
  /\ x.state \in {"New", "Insert"} => y.state \in {"New", "Insert"}

\* A record that is taken for locked is not new, and statements find its row.
Anchored(i, x) ==
  x.locked => /\ x.state \notin {"New", "Insert"}
              /\ x.state \notin {"Delete", "Deleted"} => Found(x, Row(i))

LEMMA BlankFacts ==
  /\ Blank \in Contents /\ ~Blank.locked /\ Marked(Blank) /\ ~Unsaved(Blank) /\ Whole(Blank)
  /\ Blank.state = "New"
BY DEF Blank, Contents, States, Marked, Unsaved, Whole

LEMMA FetchedFacts ==
  ASSUME NEW v \in Values
  PROVE  /\ Fetched(v) \in Contents /\ ~Fetched(v).locked
         /\ Fetched(v).value = v /\ Fetched(v).initial = v
         /\ Fetched(v).state = "Consistent" /\ ~Fetched(v).failed
BY DEF Fetched, Blank, Contents, States

LEMMA SetValueFacts ==
  ASSUME NEW x \in Contents, NEW v \in Values
  PROVE  /\ SetValue(x, v) \in Contents
         /\ SetValue(x, v).locked = x.locked /\ SetValue(x, v).state = x.state
         /\ SetValue(x, v).failed = x.failed
         /\ SetValue(x, v).value = v /\ SetValue(x, v).initial = x.initial
         /\ ~Dates /\ v # x.value => Marked(SetValue(x, v))
         /\ Whole(SetValue(x, v))
BY RecordCycleAssumption DEF SetValue, Contents, Marked, Whole

LEMMA SetCleanFacts ==
  ASSUME NEW x \in Contents, NEW release \in BOOLEAN
  PROVE  /\ SetClean(x, release) \in Contents
         /\ SetClean(x, release).locked => x.locked /\ ~release
         /\ SetClean(x, release).state = x.state
         /\ SetClean(x, release).failed = x.failed
         /\ SetClean(x, release).value = x.value /\ SetClean(x, release).initial = x.value
BY DEF SetClean, Contents

LEMMA ReleasedFacts ==
  ASSUME NEW x \in Contents
  PROVE  /\ SetClean(x, TRUE) \in Contents /\ ~SetClean(x, TRUE).locked
         /\ SetClean(x, TRUE).value = SetClean(x, TRUE).initial
         /\ SetClean(x, TRUE).state = x.state
BY DEF SetClean, Contents

LEMMA RestoredFacts ==
  ASSUME NEW x \in Contents
  PROVE  /\ Restored(x) \in Contents
         /\ ~Restored(x).locked /\ Restored(x).state = x.state
         /\ Restored(x).failed = x.failed
         /\ Restored(x).value = x.initial /\ Restored(x).initial = x.initial
BY DEF Restored, Contents

LEMMA RefreshedFacts ==
  ASSUME current \in [Rows -> Values \cup {Gone}], NEW x \in Contents, NEW r \in Rows
  PROVE  /\ Refreshed(x, r) \in Contents
         /\ Refreshed(x, r).locked => x.locked
         /\ Refreshed(x, r).failed = x.failed
         /\ Marked(x) => Marked(Refreshed(x, r))
         /\ Whole(x) => Whole(Refreshed(x, r))
         /\ Refreshed(x, r).state \notin {"Delete", "Deleted"} =>
              Refreshed(x, r).value = Refreshed(x, r).initial
         /\ Kept(x, Refreshed(x, r))
         /\ Refreshed(x, r).locked => Refreshed(x, r) = x
<1>1. CASE x.state \in {"Delete", "Deleted"}
  <2>1. Refreshed(x, r) = x
    BY <1>1 DEF Refreshed
  <2> QED
    BY <1>1, <2>1 DEF Contents, Kept
<1>2. CASE x.state \in {"New", "Insert"}
  <2>1. Refreshed(x, r) = [Blank EXCEPT !.failed = x.failed]
    BY <1>2 DEF Refreshed
  <2> QED
    BY <1>2, <2>1 DEF Marked, Whole, Kept, Contents, Blank, States
<1>3. CASE x.state \notin {"Delete", "Deleted", "New", "Insert"} /\ Found(x, r)
  <2>1. Refreshed(x, r) = [Fetched(current[r]) EXCEPT !.failed = x.failed]
    BY <1>3 DEF Refreshed
  <2>2. current[r] \in Values
    BY <1>3 DEF Found
  <2> QED
    <3>1. /\ Refreshed(x, r) \in Contents
          /\ ~Refreshed(x, r).locked /\ Refreshed(x, r).failed = x.failed
          /\ Refreshed(x, r).value = current[r] /\ Refreshed(x, r).initial = current[r]
          /\ Refreshed(x, r).state = "Consistent"
      BY <2>1, <2>2 DEF Contents, Fetched, Blank, States
    <3> QED
      BY <1>3, <3>1, <2>2, RecordCycleAssumption DEF Marked, Whole, Kept
<1>4. CASE x.state \notin {"Delete", "Deleted", "New", "Insert"} /\ ~Found(x, r)
  <2>1. Refreshed(x, r) = [Restored(x) EXCEPT !.state = "Delete"]
    BY <1>4 DEF Refreshed
  <2> QED
    BY <1>4, <2>1 DEF Marked, Whole, Kept, Contents, Restored, States
<1> QED
  BY <1>1, <1>2, <1>3, <1>4

LEMMA FailedFacts ==
  ASSUME current \in [Rows -> Values \cup {Gone}], NEW x \in Contents, NEW r \in Rows, NEW a
  PROVE  /\ Failed(x, r, a) \in Contents
         /\ ~Failed(x, r, a).locked /\ Failed(x, r, a).failed
         /\ Marked(x) => Marked(Failed(x, r, a))
         /\ Whole(x) => Whole(Failed(x, r, a))
         /\ Kept(x, Failed(x, r, a))
<1>1. PICK y \in Contents : /\ Failed(x, r, a) = [y EXCEPT !.failed = TRUE, !.locked = FALSE]
                            /\ Marked(x) => Marked(y)
                            /\ Whole(x) => Whole(y)
                            /\ Kept(x, y)
  <2>1. CASE a \in {"changed", "busy"}
    BY <2>1, RefreshedFacts DEF Failed
  <2>2. CASE a \notin {"changed", "busy"}
    BY <2>2 DEF Failed, Kept
  <2> QED
    BY <2>1, <2>2
<1>2. /\ Failed(x, r, a) \in Contents /\ ~Failed(x, r, a).locked /\ Failed(x, r, a).failed
      /\ Failed(x, r, a).value = y.value /\ Failed(x, r, a).initial = y.initial
      /\ Failed(x, r, a).dirty = y.dirty /\ Failed(x, r, a).state = y.state
  BY <1>1 DEF Contents
<1>3. Kept(x, Failed(x, r, a))
  BY <1>1, <1>2 DEF Kept
<1> QED
  BY <1>1, <1>2, <1>3 DEF Marked, Whole

LEMMA FlushedFacts ==
  ASSUME NEW x \in Contents
  PROVE  /\ Flushed(x) \in Contents
         /\ Flushed(x).locked => x.locked
         /\ Flushed(x).value = x.value /\ Flushed(x).initial = x.value
         /\ Flushed(x).state \in {"Inserted", "Updated", "Deleted"}
         /\ Flushed(x).state # "Deleted" => x.state \notin {"Delete", "Deleted"}
<1> DEFINE s == CASE x.state \in {"Insert", "Inserted"} -> "Inserted"
                  [] x.state = "Update" -> "Updated"
                  [] OTHER -> "Deleted"
<1>1. /\ s \in States /\ s \in {"Inserted", "Updated", "Deleted"}
      /\ s # "Deleted" => x.state \notin {"Delete", "Deleted"}
  BY DEF States
<1>2. Flushed(x) = SetClean([x EXCEPT !.state = s], FALSE)
  BY DEF Flushed
<1> HIDE DEF s
<1>3. /\ [x EXCEPT !.state = s] \in Contents /\ [x EXCEPT !.state = s].locked = x.locked
      /\ [x EXCEPT !.state = s].value = x.value /\ [x EXCEPT !.state = s].state = s
  BY <1>1 DEF Contents
<1>4. PICK y \in Contents : y = [x EXCEPT !.state = s]
  BY <1>3
<1>5. Flushed(x) = SetClean(y, FALSE) /\ y.locked = x.locked /\ y.value = x.value /\ y.state = s
  BY <1>2, <1>3, <1>4
<1>6. PICK z \in Contents : z = Flushed(x) /\ z.value = y.value /\ z.initial = y.value
                            /\ z.state = y.state
  <2>1. FALSE \in BOOLEAN
    OBVIOUS
  <2> QED
    BY <2>1, <1>5, SetCleanFacts
<1>7. Flushed(x).locked => y.locked
  BY <1>5 DEF SetClean, Contents
<1> QED
  BY <1>1, <1>5, <1>6, <1>7

LEMMA ModifiedFacts ==
  ASSUME NEW x \in Contents
  PROVE  /\ Modified(x) \in Contents
         /\ Modified(x).locked = x.locked
         /\ Modified(x).value = x.value /\ Modified(x).initial = x.initial
         /\ Modified(x).dirty = x.dirty
         /\ Modified(x).state \in {"Delete", "Deleted"} <=> x.state \in {"Delete", "Deleted"}
         /\ Modified(x).state \in {"New", "Insert"} <=> x.state \in {"New", "Insert"}
         /\ Kept(x, Modified(x))
<1> DEFINE s == CASE ~x.dirty -> x.state
                  [] x.dirty /\ x.state = "New" -> "Insert"
                  [] x.dirty /\ x.state \in {"Update", "Updated", "Consistent"} -> "Update"
                  [] OTHER -> x.state
<1>1. /\ s \in States /\ (s \in {"Delete", "Deleted"} <=> x.state \in {"Delete", "Deleted"})
      /\ s \in {"New", "Insert"} <=> x.state \in {"New", "Insert"}
      /\ s \in {"Inserted", "Updated"} => x.state = s
  BY DEF States, Contents
<1>2. Modified(x) = [x EXCEPT !.failed = FALSE, !.state = s]
  BY DEF Modified, Contents
<1> HIDE DEF s
<1> QED
  BY <1>1, <1>2 DEF Contents, Kept

LEMMA FlagFacts ==
  ASSUME NEW x \in Contents
  PROVE  /\ [x EXCEPT !.locked = TRUE] \in Contents /\ [x EXCEPT !.failed = FALSE] \in Contents
         /\ [x EXCEPT !.locked = TRUE].value = x.value
         /\ [x EXCEPT !.locked = TRUE].initial = x.initial
         /\ [x EXCEPT !.locked = TRUE].dirty = x.dirty
         /\ [x EXCEPT !.locked = TRUE].state = x.state
         /\ [x EXCEPT !.failed = FALSE].value = x.value
         /\ [x EXCEPT !.failed = FALSE].initial = x.initial
         /\ [x EXCEPT !.failed = FALSE].dirty = x.dirty
         /\ [x EXCEPT !.failed = FALSE].state = x.state
         /\ [x EXCEPT !.failed = FALSE].locked = x.locked
BY DEF Contents

LEMMA DeletingFacts ==
  ASSUME NEW x \in Contents
  PROVE  Deleting(x) \in Contents /\ Deleting(x).locked = x.locked /\ Deleting(x).dirty
         /\ Deleting(x).value = x.value /\ Deleting(x).initial = x.initial
         /\ Deleting(x).state = x.state
BY DEF Deleting, Contents

-----------------------------------------------------------------------------
(* What is done to the list of records to flush, and to the records as a whole. *)

LEMMA EmptyRange == <<>> \in Seq(Record) /\ Range(<<>>) = {}
<1>1. <<>> \in Seq(Record) /\ Len(<<>>) = 0
  BY EmptySeq
<1>2. Range(<<>>) = {<<>>[i] : i \in 1..Len(<<>>)}
  BY <1>1, RangeEquality
<1> QED
  BY <1>1, <1>2

LEMMA QueueFacts ==
  ASSUME NEW P \in Seq(Record), NEW i \in Record
  PROVE  Queue(P, i) \in Seq(Record) /\ Range(Queue(P, i)) = Range(P) \cup {i}
<1>1. CASE i \in Range(P)
  BY <1>1 DEF Queue
<1>2. CASE i \notin Range(P)
  <2>1. Queue(P, i) = Append(P, i) /\ Append(P, i) \in Seq(Record)
    BY <1>2, AppendProperties DEF Queue
  <2>2. /\ Len(P) \in Nat /\ Len(Append(P, i)) = Len(P) + 1
        /\ \A n \in 1..Len(P) : Append(P, i)[n] = P[n]
        /\ Append(P, i)[Len(P) + 1] = i
    BY AppendProperties, LenProperties
  <2>3. /\ Range(P) = {P[n] : n \in 1..Len(P)}
        /\ Range(Append(P, i)) = {Append(P, i)[n] : n \in 1..Len(Append(P, i))}
    BY <2>1, RangeEquality
  <2>4. Range(Append(P, i)) \subseteq Range(P) \cup {i}
    BY <2>2, <2>3
  <2>5. Range(P) \subseteq Range(Append(P, i))
    BY <2>2, <2>3
  <2>6. i \in Range(Append(P, i))
    BY <2>2, <2>3
  <2> QED
    BY <2>1, <2>4, <2>5, <2>6
<1> QED
  BY <1>1, <1>2

LEMMA PendingRecords ==
  ASSUME NEW P \in Seq(Record)
  PROVE  Range(P) \subseteq Record
BY RangeOfSeq

LEMMA TidyFacts ==
  ASSUME NEW R \in [Record -> Contents], NEW C, NEW P
  PROVE  /\ Tidy(R, C, P) \in [Record -> Contents]
         /\ \A i \in Record : i \in C \/ i \in Range(P) => Tidy(R, C, P)[i] = R[i]
         /\ \A i \in Record : i \notin C /\ i \notin Range(P) => Tidy(R, C, P)[i] = Blank
BY BlankFacts DEF Tidy

LEMMA FreshFacts ==
  ASSUME current \in [Rows -> Values \cup {Gone}], \A r \in Rows : Free(r) # {}
  PROVE  /\ Fresh \subseteq Record
         /\ \A i \in Fresh : i \notin Range(pending) /\ Row(i) \in Rows
                             /\ current[Row(i)] \in Values
         /\ \A i, j \in Fresh : Row(i) = Row(j) => i = j
<1>1. ASSUME NEW r \in Rows
      PROVE  Object(r) \in Record /\ Row(Object(r)) = r /\ Object(r) \notin Range(pending)
  <2>1. Object(r) \in Free(r)
    BY DEF Object
  <2> QED
    BY <2>1 DEF Free, Record, Row
<1> QED
  BY <1>1 DEF Fresh

LEMMA ShownFacts ==
  ASSUME current \in [Rows -> Values \cup {Gone}], \A r \in Rows : Free(r) # {},
         NEW R \in [Record -> Contents], ShowQuery(R)
  PROVE  /\ cache' \subseteq Record /\ rec' \in [Record -> Contents]
         /\ \A i \in cache' : /\ i \notin Range(pending) /\ ~rec'[i].locked
                              /\ rec'[i].value = rec'[i].initial
                              /\ rec'[i].state = "Consistent"
         /\ \A i, j \in cache' : Row(i) = Row(j) => i = j
         /\ \A i \in Range(pending) \cap Record : i \notin cache' /\ rec'[i] = R[i]
<1>1. /\ cache' = Fresh
      /\ rec' = [i \in Record |-> IF i \in Fresh THEN Fetched(current[Row(i)])
                                  ELSE IF i \in Range(pending) THEN R[i] ELSE Blank]
  BY DEF ShowQuery
<1>2. \A i \in Fresh : i \in Record /\ rec'[i] = Fetched(current[Row(i)])
  BY <1>1, FreshFacts
<1>3. \A i \in Record : i \notin Fresh =>
        rec'[i] = IF i \in Range(pending) THEN R[i] ELSE Blank
  BY <1>1
<1>4. \A i \in Fresh : /\ rec'[i] \in Contents /\ ~rec'[i].locked
                       /\ rec'[i].value = rec'[i].initial /\ rec'[i].state = "Consistent"
  <2>1. SUFFICES ASSUME NEW i \in Fresh
                 PROVE  /\ rec'[i] \in Contents /\ ~rec'[i].locked
                        /\ rec'[i].value = rec'[i].initial /\ rec'[i].state = "Consistent"
    OBVIOUS
  <2>2. PICK v \in Values : v = current[Row(i)]
    BY FreshFacts
  <2>3. rec'[i] = Fetched(v)
    BY <1>2, <2>2
  <2> QED
    BY <2>3, FetchedFacts
<1>5. \A i \in Record : rec'[i] \in Contents
  BY <1>3, <1>4, BlankFacts
<1>6. rec' \in [Record -> Contents]
  BY <1>1, <1>5
<1> QED
  BY <1>1, <1>3, <1>4, <1>6, FreshFacts

\* A flush changes no record before its answer, except that a new one is now one to insert.
Alike(x, y) ==
  /\ y.value = x.value /\ y.initial = x.initial /\ y.locked = x.locked
  /\ y.failed = x.failed /\ y.dirty = x.dirty
  /\ y.state = x.state \/ (x.state = "New" /\ y.state = "Insert")

\* A flush either finds nothing to send, or waits for its batch.
LEMMA StartFlushFacts ==
  ASSUME NEW R \in [Record -> Contents], NEW C \in SUBSET Record, NEW P \in Seq(Record),
         NEW u \in C \cup {NoRecord}, NEW g, StartFlush(R, C, P, u, g)
  PROVE  /\ cache' = C /\ rec' \in [Record -> Contents]
         /\ pending' \in Seq(Record) /\ Range(pending') \subseteq Range(P)
         /\ \A i \in C \cup Range(pending') : Alike(R[i], rec'[i])
         /\ \/ /\ pending' = <<>> /\ batch' = {} /\ goal' = goal
               /\ \/ unvalidated' = u /\ phase' = "idle"
                  \/ unvalidated' = NoRecord /\ phase' = g
               /\ \A i \in C : i \in Range(P) => Statement(rec'[i]) = "none"
            \/ /\ pending' = P /\ phase' = "flush" /\ goal' = g /\ unvalidated' = u
               /\ batch' = {i \in Range(P) : Statement(rec'[i]) # "none"}
<1> DEFINE Q == [i \in Record |-> IF i \in C /\ R[i].state = "New"
                             THEN [R[i] EXCEPT !.state = "Insert"] ELSE R[i]]
           B == {i \in Range(P) : Statement(Q[i]) # "none"}
<1>0. Range(P) \subseteq Record
  BY PendingRecords
<1>1. \A i \in Record : Q[i] \in Contents /\ Alike(R[i], Q[i])
  BY DEF Contents, States, Alike
<1>2. Q \in [Record -> Contents]
  BY <1>1
<1>3. /\ cache' = C
      /\ batch' = B
      /\ \/ /\ B = {}
            /\ rec' = Tidy(Q, C, <<>>)
            /\ pending' = <<>>
            /\ unvalidated' = IF Stays(Q, u) THEN u ELSE NoRecord
            /\ phase' = IF Stays(Q, u) THEN "idle" ELSE g
            /\ UNCHANGED goal
         \/ /\ B # {}
            /\ rec' = Tidy(Q, C, P)
            /\ pending' = P
            /\ unvalidated' = u
            /\ phase' = "flush"
            /\ goal' = g
  BY DEF StartFlush
<1> HIDE DEF Q
<1>4. CASE B = {}
  <2>1. /\ rec' = Tidy(Q, C, <<>>) /\ pending' = <<>> /\ goal' = goal
        /\ unvalidated' = IF Stays(Q, u) THEN u ELSE NoRecord
        /\ phase' = IF Stays(Q, u) THEN "idle" ELSE g
    BY <1>3, <1>4
  <2>2. rec' \in [Record -> Contents] /\ \A i \in C : rec'[i] = Q[i]
    BY <2>1, <1>2, TidyFacts
  <2>3. pending' \in Seq(Record) /\ Range(pending') = {}
    BY <2>1, EmptyRange
  <2> QED
    BY <1>0, <1>1, <1>3, <1>4, <2>1, <2>2, <2>3
<1>5. CASE B # {}
  <2>1. /\ rec' = Tidy(Q, C, P) /\ pending' = P /\ goal' = g
        /\ unvalidated' = u /\ phase' = "flush"
    BY <1>3, <1>5
  <2>2. rec' \in [Record -> Contents] /\ \A i \in C \cup Range(P) : rec'[i] = Q[i]
    BY <2>1, <1>0, <1>2, TidyFacts
  <2> QED
    BY <1>0, <1>1, <1>3, <2>1, <2>2
<1> QED
  BY <1>4, <1>5

-----------------------------------------------------------------------------
(* The steps, by what they do to the block. *)

Goals == {"idle", "query", "commit"}

TTable ==
  /\ committed \in [Rows -> Values \cup {Gone}] /\ current \in [Rows -> Values \cup {Gone}]
  /\ held \subseteq Rows

TBlock ==
  /\ rec \in [Record -> Contents] /\ cache \subseteq Record /\ pending \in Seq(Record)
  /\ unvalidated \in cache \cup {NoRecord} /\ modified \in BOOLEAN

TFlow ==
  /\ batch \subseteq Range(pending) /\ transaction \in BOOLEAN
  /\ phase \in {"idle", "flush", "query", "commit", "sync", "undo"} /\ goal \in Goals
  /\ answer \in [Record -> {"none", "ok", "changed", "gone", "busy", "error"}]

LEMMA TypeParts ==
  TypeOK <=> rowlocking \in LockModes /\ strategy \in Strategies /\ TTable /\ TBlock /\ TFlow
BY DEF TypeOK, TTable, TBlock, TFlow, Goals

\* A row has an object for the next query, also when the record that the user is at
\* has to wait for a flush.
Spare ==
  /\ \A r \in Rows : Free(r) # {}
  /\ unvalidated # NoRecord => Bounded(unvalidated)

\* Locks are added, and known as a transaction.
Locks ==
  /\ held \subseteq held' /\ held' \subseteq Rows
  /\ held' # held => transaction'
  /\ transaction => transaction'
  /\ transaction' \in BOOLEAN

\* The record i is rewritten, and becomes y.
Changes(i, y) ==
  /\ phase = "idle" /\ i \in cache /\ unvalidated \in {NoRecord, i} /\ Bounded(i)
  /\ y \in Contents /\ rec' = [rec EXCEPT ![i] = y]
  /\ UNCHANGED <<settings, committed, current, cache, pending, phase, request>>
  /\ unvalidated' \in {unvalidated, i}
  /\ modified' \in BOOLEAN /\ (modified => modified') /\ Locks
  /\ y.locked => rec[i].locked \/ (Row(i) \in held' /\ modified')
  /\ ~Dates /\ Marked(rec[i]) => Marked(y)
  /\ Unsaved(y) => unvalidated' = i
  /\ Whole(rec[i]) => Whole(y)
  /\ Kept(rec[i], y) /\ (Anchored(i, rec[i]) => Anchored(i, y))

\* The records R, of which C are in the block, and the list P are what there is after the
\* record i was validated or taken out of the block.
Prepared(i, R, C, P, u) ==
  /\ phase = "idle" /\ unvalidated \in {NoRecord, i} /\ u \in {NoRecord, i} \cap (C \cup {NoRecord})
  /\ i # NoRecord => i \in cache /\ Bounded(i)
  /\ R \in [Record -> Contents] /\ \A j \in Record \ {i} : R[j] = rec[j]
  /\ C \in {cache, cache \ {i}}
  /\ P \in Seq(Record) /\ Range(pending) \subseteq Range(P) /\ Range(P) \subseteq Range(pending) \cup {i}
  /\ UNCHANGED <<settings, committed, current, answer>>
  /\ modified' \in BOOLEAN /\ (modified => modified') /\ Locks
  /\ Range(P) # Range(pending) => modified'
  /\ i # NoRecord /\ R[i].locked => rec[i].locked \/ (Row(i) \in held' /\ modified')
  /\ ~Dates /\ i \in C /\ Marked(rec[i]) =>
       Marked(R[i]) /\ (Unsaved(R[i]) => i \in Range(P))
  /\ i # NoRecord /\ Whole(rec[i]) => Whole(R[i])
  /\ i \in C => Kept(rec[i], R[i]) /\ (Anchored(i, rec[i]) => Anchored(i, R[i]))
  /\ P \in {pending, Queue(pending, i)}

\* The list is sent, or there was nothing to send, or it waits for a flush.
Sends(R, C, P, u, g) ==
  /\ cache' = C /\ rec' \in [Record -> Contents]
  /\ pending' \in Seq(Record) /\ Range(pending') \subseteq Range(P)
  /\ \A i \in C \cup Range(pending') : Alike(R[i], rec'[i])
  /\ \/ /\ pending' = <<>> /\ batch' = {} /\ goal' = goal
        /\ \/ unvalidated' = u /\ phase' = "idle"
           \/ unvalidated' = NoRecord /\ phase' = g
        /\ \A i \in C : i \in Range(P) => Statement(rec'[i]) = "none"
     \/ /\ pending' = P /\ phase' = "flush" /\ goal' = g /\ unvalidated' = u
        /\ batch' = {i \in Range(P) : Statement(rec'[i]) # "none"}
     \/ /\ pending' = P /\ unvalidated' = u
        /\ UNCHANGED <<phase, goal, batch>>

\* One step of a batch is executed.
Executes(i, a) ==
  /\ phase = "flush" /\ i \in batch /\ Turn(i)
  /\ a \in {"ok", "changed", "gone", "busy", "error"}
  /\ batch' = batch \ {i} /\ answer' = [answer EXCEPT ![i] = a]
  /\ held \subseteq held' /\ held' \subseteq held \cup {Row(i)}
  /\ current' \in [Rows -> Values \cup {Gone}]
  /\ \A r \in Rows \ {Row(i)} : current'[r] = current[r]
  /\ a # "ok" => current' = current
  /\ a = "ok" /\ rowlocking # "None" /\ Anchored(i, rec[i])
       /\ rec[i].state \notin {"Delete", "Deleted"}
     => current'[Row(i)] = rec[i].value /\ Row(i) \in held'
  /\ UNCHANGED <<settings, committed, block, transaction, phase, goal>>

LEMMA RowsOfRecords == \A i \in Record : Row(i) \in Rows
BY DEF Record, Row

LEMMA LockRowFacts ==
  ASSUME TTable, TBlock, TFlow, NEW i \in Record, NEW a, LockRow(i, a)
  PROVE  /\ AtRecord(i) /\ Locks /\ modified' = TRUE
         /\ a = "ok" => Row(i) \in held' /\ Found(rec[i], Row(i))
         /\ rec[i].state \notin {"New", "Insert"}
         /\ a \in {"ok", "changed", "gone", "error"}
<1>1. /\ AtRecord(i) /\ modified' = TRUE
      /\ held' = IF a \in {"ok", "changed"} THEN held \cup {Row(i)} ELSE held
      /\ transaction' = (transaction \/ Starts(a))
      /\ a = Assertion(rec[i], Row(i)) \/ a = "error"
  BY DEF LockRow
<1>2. a \in {"ok", "changed", "gone", "error"}
  BY <1>1 DEF Assertion
<1>3. Locks
  BY <1>1, RowsOfRecords DEF TTable, TFlow, Locks, Starts
<1>4. rec[i].state \notin {"New", "Insert"}
  BY DEF LockRow, Locked
<1>5. a = "ok" => Found(rec[i], Row(i))
  BY <1>1 DEF Assertion
<1> QED
  BY <1>1, <1>2, <1>3, <1>4, <1>5

LEMMA EditChanges ==
  ASSUME TTable, TBlock, TFlow, NEW i \in Record, Edit(i)
  PROVE  \E y : Changes(i, y)
<1>1. PICK v \in Values \ {rec[i].value} : rec' = [rec EXCEPT ![i] = SetValue(rec[i], v)]
  BY DEF Edit
<1>2. rec[i] \in Contents /\ v \in Values /\ v # rec[i].value
  BY <1>1 DEF TBlock
<1>3. Locks
  BY DEF Edit, table, Locks, TFlow, TTable
<1>4. PICK y \in Contents : /\ y = SetValue(rec[i], v) /\ (y.locked => rec[i].locked)
                            /\ (~Dates => Marked(y)) /\ Whole(y) /\ Kept(rec[i], y)
                            /\ (Anchored(i, rec[i]) => Anchored(i, y))
  BY <1>2, SetValueFacts DEF Kept, Anchored, Found
<1>5. /\ AtRecord(i) /\ modified' = TRUE /\ unvalidated' = i
      /\ UNCHANGED <<settings, committed, current, cache, pending, phase, request>>
  BY DEF Edit, table
<1>6. Changes(i, y)
  BY <1>1, <1>3, <1>4, <1>5 DEF AtRecord, Changes
<1> QED
  BY <1>6

LEMMA LockAndEditChanges ==
  ASSUME TTable, TBlock, TFlow, NEW i \in Record, LockAndEdit(i)
  PROVE  \E y : Changes(i, y)
<1>1. PICK a \in {"ok", "changed", "gone", "error"} :
        /\ LockRow(i, a)
        /\ \/ /\ a = "ok"
              /\ \E v \in Values \ {rec[i].value} :
                   rec' = [rec EXCEPT ![i] = SetValue([rec[i] EXCEPT !.locked = TRUE], v)]
              /\ unvalidated' = i
           \/ /\ a # "ok"
              /\ rec' = [rec EXCEPT ![i] = Refreshed(Failed(rec[i], Row(i), a), Row(i))]
              /\ UNCHANGED unvalidated
  BY DEF LockAndEdit
<1>2. /\ AtRecord(i) /\ Locks /\ modified' = TRUE /\ rec[i].state \notin {"New", "Insert"}
      /\ a = "ok" => Row(i) \in held' /\ Found(rec[i], Row(i))
      /\ UNCHANGED <<settings, committed, current, cache, pending, phase, request>>
      /\ rec[i] \in Contents /\ Row(i) \in Rows
  BY <1>1, LockRowFacts, RowsOfRecords DEF LockAndEdit, TBlock
<1>3. CASE a = "ok"
  <2>1. PICK v \in Values \ {rec[i].value} :
          rec' = [rec EXCEPT ![i] = SetValue([rec[i] EXCEPT !.locked = TRUE], v)]
    BY <1>1, <1>3
  <2>2. PICK x \in Contents : x = [rec[i] EXCEPT !.locked = TRUE] /\ x.value = rec[i].value
                            /\ x.initial = rec[i].initial /\ x.state = rec[i].state
    BY <1>2, FlagFacts
  <2>3. PICK y : /\ y = SetValue(x, v) /\ y \in Contents
                 /\ y.state = rec[i].state /\ y.initial = rec[i].initial
                 /\ ~Dates => Marked(y)
                 /\ Whole(y)
    <3>1. v \in Values /\ v # x.value
      BY <2>2
    <3>2. /\ SetValue(x, v) \in Contents
          /\ SetValue(x, v).state = x.state /\ SetValue(x, v).initial = x.initial
          /\ ~Dates => Marked(SetValue(x, v))
          /\ Whole(SetValue(x, v))
      BY <3>1, SetValueFacts
    <3> QED
      BY <2>2, <3>2
  <2>4. Kept(rec[i], y)
    BY <1>2, <2>3 DEF Kept
  <2>5. Anchored(i, y)
    BY <1>2, <1>3, <2>3 DEF Anchored, Found
  <2>6. unvalidated' = i /\ rec' = [rec EXCEPT ![i] = y]
    BY <1>1, <1>3, <2>1, <2>2, <2>3
  <2>7. Changes(i, y)
    BY <1>2, <1>3, <2>3, <2>4, <2>5, <2>6 DEF AtRecord, Changes
  <2> QED
    BY <2>7
<1>4. CASE a # "ok"
  <2>1. PICK x \in Contents : /\ x = Failed(rec[i], Row(i), a) /\ ~x.locked
                              /\ Marked(rec[i]) => Marked(x)
                              /\ Whole(rec[i]) => Whole(x)
                              /\ Kept(rec[i], x)
    BY <1>2, FailedFacts DEF TTable
  <2>2. PICK y \in Contents : /\ y = Refreshed(x, Row(i)) /\ ~y.locked /\ ~Unsaved(y)
                              /\ Marked(rec[i]) => Marked(y)
                              /\ Whole(rec[i]) => Whole(y)
                              /\ Kept(rec[i], y) /\ Anchored(i, y)
    BY <1>2, <2>1, RefreshedFacts DEF TTable, Unsaved, Kept, Anchored
  <2>3. rec' = [rec EXCEPT ![i] = y] /\ UNCHANGED unvalidated
    BY <1>1, <1>4, <2>1, <2>2
  <2>4. Changes(i, y)
    BY <1>2, <2>2, <2>3 DEF AtRecord, Changes
  <2> QED
    BY <2>4
<1> QED
  BY <1>1, <1>3, <1>4

LEMMA RefreshRecordChanges ==
  ASSUME TTable, TBlock, TFlow, NEW i \in Record, RefreshRecord(i)
  PROVE  \E y : Changes(i, y)
<1>1. rec[i] \in Contents /\ Row(i) \in Rows
  BY RowsOfRecords DEF TBlock
<1>2. PICK x \in Contents : /\ x = Refreshed(rec[i], Row(i)) /\ (x.locked => rec[i].locked)
                            /\ (Marked(rec[i]) => Marked(x))
                            /\ (Whole(rec[i]) => Whole(x))
                            /\ Kept(rec[i], x) /\ (x.locked => x = rec[i])
                            /\ x.state \notin {"Delete", "Deleted"} => x.value = x.initial
  BY <1>1, RefreshedFacts DEF TTable
<1>3. PICK y \in Contents : /\ y = [x EXCEPT !.failed = FALSE] /\ (y.locked => rec[i].locked)
                            /\ (Marked(rec[i]) => Marked(y)) /\ ~Unsaved(y)
                            /\ (Whole(rec[i]) => Whole(y)) /\ Kept(rec[i], y)
                            /\ (Anchored(i, rec[i]) => Anchored(i, y))
  <2>1. PICK y \in Contents : /\ y = [x EXCEPT !.failed = FALSE]
                              /\ y.value = x.value /\ y.initial = x.initial
                              /\ y.dirty = x.dirty /\ y.state = x.state /\ y.locked = x.locked
    BY FlagFacts
  <2>2. y.locked => rec[i].locked
    BY <1>2, <2>1
  <2>3. Marked(rec[i]) => Marked(y)
    BY <1>2, <2>1 DEF Marked
  <2>4. ~Unsaved(y)
    BY <1>2, <2>1 DEF Unsaved
  <2>5. Whole(rec[i]) => Whole(y)
    BY <1>2, <2>1 DEF Whole
  <2>6. Kept(rec[i], y)
    BY <1>2, <2>1 DEF Kept
  <2>7. Anchored(i, rec[i]) => Anchored(i, y)
    BY <1>2, <2>1 DEF Anchored, Found
  <2> QED
    BY <2>1, <2>2, <2>3, <2>4, <2>5, <2>6, <2>7
<1>4. rec' = [rec EXCEPT ![i] = y]
  BY <1>2, <1>3 DEF RefreshRecord
<1>5. Locks
  BY DEF RefreshRecord, table, Locks, TFlow, TTable
<1>6. Changes(i, y)
  BY <1>3, <1>4, <1>5 DEF AtRecord, Changes, RefreshRecord, table, TBlock
<1> QED
  BY <1>6

LEMMA LockAndDeleteSteps ==
  ASSUME TTable, TBlock, TFlow, NEW i \in Record, LockAndDelete(i)
  PROVE  \/ \E y : Changes(i, y)
         \/ /\ AtRecord(i) /\ Locks /\ modified' = TRUE /\ Row(i) \in held'
            /\ UNCHANGED <<settings, committed, current, answer>>
            /\ \E x \in Contents : DeleteFrom(i, x) /\ (Whole(rec[i]) => Whole(x))
<1>1. PICK a \in {"ok", "changed", "gone", "error"} :
        /\ LockRow(i, a)
        /\ \/ /\ a = "ok"
              /\ DeleteFrom(i, [Deleting(rec[i]) EXCEPT !.locked = TRUE])
           \/ /\ a # "ok"
              /\ rec' = [rec EXCEPT ![i] = Failed(Deleting(rec[i]), Row(i), a)]
              /\ UNCHANGED <<cache, pending, unvalidated, phase, goal, batch>>
  BY DEF LockAndDelete
<1>2. /\ AtRecord(i) /\ Locks /\ modified' = TRUE /\ (a = "ok" => Row(i) \in held')
      /\ UNCHANGED <<settings, committed, current, answer>>
      /\ rec[i] \in Contents /\ Row(i) \in Rows
  BY <1>1, LockRowFacts, RowsOfRecords DEF LockAndDelete, TBlock
<1>3. PICK w \in Contents : /\ w = Deleting(rec[i]) /\ w.dirty /\ Kept(rec[i], w)
                            /\ (Whole(rec[i]) => Whole(w))
  BY <1>2, DeletingFacts DEF Whole, Kept
<1>4. CASE a = "ok"
  <2>1. /\ [w EXCEPT !.locked = TRUE] \in Contents
        /\ Whole(w) => Whole([w EXCEPT !.locked = TRUE])
    BY FlagFacts DEF Whole
  <2> QED
    BY <1>1, <1>2, <1>3, <1>4, <2>1
<1>5. CASE a # "ok"
  <2>1. PICK y \in Contents : /\ y = Failed(w, Row(i), a) /\ ~y.locked /\ y.failed
                              /\ Marked(w) => Marked(y)
                              /\ Whole(w) => Whole(y)
                              /\ Kept(w, y)
    BY <1>2, FailedFacts DEF TTable
  <2>2. Marked(y) /\ ~Unsaved(y) /\ Kept(rec[i], y) /\ Anchored(i, y)
    BY <1>3, <2>1 DEF Marked, Unsaved, Kept, Anchored
  <2>3. rec' = [rec EXCEPT ![i] = y] /\ UNCHANGED <<cache, pending, unvalidated, phase, goal, batch>>
    BY <1>1, <1>3, <1>5, <2>1
  <2>4. Changes(i, y)
    BY <1>2, <1>3, <2>1, <2>2, <2>3 DEF AtRecord, Changes, request
  <2> QED
    BY <2>4
<1> QED
  BY <1>1, <1>4, <1>5

LEMMA StartFlushSends ==
  ASSUME NEW R \in [Record -> Contents], NEW C \in SUBSET Record, NEW P \in Seq(Record),
         NEW u \in C \cup {NoRecord}, NEW g, StartFlush(R, C, P, u, g)
  PROVE  Sends(R, C, P, u, g)
BY StartFlushFacts DEF Sends

LEMMA DeleteFromSends ==
  ASSUME TTable, TBlock, TFlow, NEW i \in cache, NEW x \in Contents, DeleteFrom(i, x)
  PROVE  \E R \in [Record -> Contents], P \in Seq(Record) :
           /\ \A j \in Record \ {i} : R[j] = rec[j]
           /\ R[i].locked = x.locked /\ R[i].value = x.value /\ R[i].initial = x.initial
           /\ Range(pending) \subseteq Range(P) /\ Range(P) \subseteq Range(pending) \cup {i}
           /\ P \in {pending, Queue(pending, i)}
           /\ Sends(R, cache \ {i}, P, NoRecord, "idle")
<1> DEFINE dropped == x.state \in {"New", "Insert"}
           y == [x EXCEPT !.state = IF dropped THEN "Deleted" ELSE "Delete"]
           R == [rec EXCEPT ![i] = y]
           C == cache \ {i}
           P == IF dropped THEN pending ELSE Queue(pending, i)
<1>1. /\ i \in Record /\ C \in SUBSET Record /\ NoRecord \in C \cup {NoRecord}
      /\ rec \in [Record -> Contents] /\ pending \in Seq(Record)
  BY DEF TBlock
<1>2. y \in Contents /\ y.locked = x.locked /\ y.value = x.value /\ y.initial = x.initial
  BY DEF Contents, States
<1>3. /\ R \in [Record -> Contents] /\ R[i] = y
      /\ \A j \in Record \ {i} : R[j] = rec[j]
  BY <1>1, <1>2
<1>4. /\ P \in Seq(Record) /\ P \in {pending, Queue(pending, i)}
      /\ Range(pending) \subseteq Range(P) /\ Range(P) \subseteq Range(pending) \cup {i}
  BY <1>1, QueueFacts
<1>5. IF strategy = "Row"
      THEN StartFlush(R, C, P, NoRecord, "idle")
      ELSE /\ cache' = C
           /\ pending' = P
           /\ rec' = Tidy(R, C, P)
           /\ unvalidated' = NoRecord
           /\ UNCHANGED <<phase, goal, batch>>
  BY DEF DeleteFrom
<1> HIDE DEF R, C, P, y, dropped
<1>6. Sends(R, C, P, NoRecord, "idle")
  <2>1. CASE strategy = "Row"
    BY <1>1, <1>3, <1>4, <1>5, <2>1, StartFlushSends
  <2>2. CASE strategy # "Row"
    <3>1. /\ cache' = C /\ pending' = P /\ rec' = Tidy(R, C, P) /\ unvalidated' = NoRecord
          /\ UNCHANGED <<phase, goal, batch>>
      BY <1>5, <2>2
    <3>2. /\ rec' \in [Record -> Contents]
          /\ \A j \in C \cup Range(P) : rec'[j] = R[j]
      BY <1>1, <1>3, <1>4, <3>1, TidyFacts, PendingRecords
    <3> QED
      BY <1>4, <3>1, <3>2 DEF Sends, Alike
  <2> QED
    BY <2>1, <2>2
<1>7. C = cache \ {i}
  BY DEF C
<1> QED
  BY <1>2, <1>3, <1>4, <1>6, <1>7

LEMMA DeleteSends ==
  ASSUME TTable, TBlock, TFlow, NEW i \in Record, NEW x \in Contents,
         AtRecord(i), Locks, modified' = TRUE, DeleteFrom(i, x),
         UNCHANGED <<settings, committed, current, answer>>,
         x.locked => rec[i].locked \/ Row(i) \in held',
         Whole(rec[i]) => Whole(x)
  PROVE  \E R, P : Prepared(i, R, cache \ {i}, P, NoRecord)
                   /\ Sends(R, cache \ {i}, P, NoRecord, "idle")
<1>1. i \in cache
  BY DEF AtRecord
<1>2. PICK R \in [Record -> Contents], P \in Seq(Record) :
           /\ \A j \in Record \ {i} : R[j] = rec[j]
           /\ R[i].locked = x.locked /\ R[i].value = x.value /\ R[i].initial = x.initial
           /\ Range(pending) \subseteq Range(P) /\ Range(P) \subseteq Range(pending) \cup {i}
           /\ P \in {pending, Queue(pending, i)}
           /\ Sends(R, cache \ {i}, P, NoRecord, "idle")
  BY <1>1, DeleteFromSends
<1>3. R[i].locked => rec[i].locked \/ Row(i) \in held'
  BY <1>2
<1>6. Whole(rec[i]) => Whole(R[i])
  BY <1>2 DEF Whole
<1>4. Prepared(i, R, cache \ {i}, P, NoRecord)
  BY <1>2, <1>3, <1>6 DEF Prepared, AtRecord
<1> QED
  BY <1>2, <1>4

LEMMA DeleteRecordSends ==
  ASSUME TTable, TBlock, TFlow, NEW i \in Record, DeleteRecord(i)
  PROVE  \E R, P : Prepared(i, R, cache \ {i}, P, NoRecord)
                   /\ Sends(R, cache \ {i}, P, NoRecord, "idle")
<1>1. PICK x \in Contents : /\ x = Deleting(rec[i]) /\ x.locked = rec[i].locked
                            /\ (Whole(rec[i]) => Whole(x))
  BY DeletingFacts DEF TBlock, Whole
<1>2. /\ AtRecord(i) /\ modified' = TRUE /\ DeleteFrom(i, x)
      /\ UNCHANGED <<settings, committed, current, answer>>
  BY <1>1 DEF DeleteRecord, table
<1>3. Locks
  BY DEF DeleteRecord, table, Locks, TFlow, TTable
<1> QED
  BY <1>1, <1>2, <1>3, DeleteSends

LEMMA ValidatedFacts ==
  ASSUME TBlock
  PROVE  /\ Validated \in [Record -> Contents]
         /\ \A j \in Record \ {unvalidated} : Validated[j] = rec[j]
         /\ unvalidated # NoRecord => Validated[unvalidated].locked = rec[unvalidated].locked
         /\ PendingValidated \in Seq(Record)
         /\ Range(pending) \subseteq Range(PendingValidated)
         /\ Range(PendingValidated) \subseteq Range(pending) \cup {unvalidated}
         /\ unvalidated # NoRecord /\ Marked(rec[unvalidated]) =>
              /\ Marked(Validated[unvalidated])
              /\ Unsaved(Validated[unvalidated]) => unvalidated \in Range(PendingValidated)
         /\ unvalidated # NoRecord =>
              /\ Kept(rec[unvalidated], Validated[unvalidated])
              /\ Anchored(unvalidated, rec[unvalidated]) =>
                   Anchored(unvalidated, Validated[unvalidated])
         /\ PendingValidated \in {pending, Queue(pending, unvalidated)}
         /\ unvalidated # NoRecord /\ Whole(rec[unvalidated]) => Whole(Validated[unvalidated])
<1>0. /\ rec \in [Record -> Contents] /\ cache \subseteq Record /\ pending \in Seq(Record)
      /\ unvalidated \in cache \cup {NoRecord}
  BY DEF TBlock
<1>1. CASE unvalidated = NoRecord
  <2>1. Validated = rec /\ PendingValidated = pending
    BY <1>1 DEF Validated, PendingValidated
  <2> QED
    BY <1>0, <1>1, <2>1
<1>2. CASE unvalidated # NoRecord
  <2>1. unvalidated \in Record
    BY <1>0, <1>2
  <2>2. PICK y \in Contents : /\ y = Modified(rec[unvalidated])
                              /\ y.locked = rec[unvalidated].locked
                              /\ y.value = rec[unvalidated].value
                              /\ y.initial = rec[unvalidated].initial
                              /\ y.dirty = rec[unvalidated].dirty
                              /\ y.state \in {"Delete", "Deleted"} <=>
                                   rec[unvalidated].state \in {"Delete", "Deleted"}
                              /\ y.state \in {"New", "Insert"} <=>
                                   rec[unvalidated].state \in {"New", "Insert"}
                              /\ Kept(rec[unvalidated], y)
    BY <1>0, <2>1, ModifiedFacts
  <2>3. /\ Validated = [rec EXCEPT ![unvalidated] = y]
        /\ PendingValidated = IF Queued(rec[unvalidated])
                              THEN Queue(pending, unvalidated) ELSE pending
    BY <1>2, <2>2 DEF Validated, PendingValidated
  <2>4. /\ Validated \in [Record -> Contents] /\ Validated[unvalidated] = y
        /\ \A j \in Record \ {unvalidated} : Validated[j] = rec[j]
    BY <1>0, <2>1, <2>3
  <2>5. /\ PendingValidated \in Seq(Record)
        /\ Range(pending) \subseteq Range(PendingValidated)
        /\ Range(PendingValidated) \subseteq Range(pending) \cup {unvalidated}
        /\ Queued(rec[unvalidated]) => unvalidated \in Range(PendingValidated)
        /\ PendingValidated \in {pending, Queue(pending, unvalidated)}
    BY <1>0, <2>1, <2>3, QueueFacts
  <2>6. Marked(rec[unvalidated]) => Marked(y) /\ (Unsaved(y) => Queued(rec[unvalidated]))
    BY <2>2 DEF Marked, Unsaved, Queued
  <2>7. Whole(rec[unvalidated]) => Whole(y)
    BY <2>2 DEF Whole
  <2>8. Anchored(unvalidated, rec[unvalidated]) => Anchored(unvalidated, y)
    BY <2>2 DEF Anchored, Found
  <2> QED
    BY <2>2, <2>4, <2>5, <2>6, <2>7, <2>8
<1> QED
  BY <1>1, <1>2

LEMMA ValidatedPrepared ==
  ASSUME TTable, TBlock, TFlow, Spare, phase = "idle",
         modified' = (modified \/ PendingValidated # pending),
         UNCHANGED <<settings, committed, current, held, transaction, answer>>,
         NEW u \in {NoRecord, unvalidated}
  PROVE  Prepared(unvalidated, Validated, cache, PendingValidated, u)
<1>1. /\ modified' \in BOOLEAN /\ (modified => modified')
      /\ Range(PendingValidated) # Range(pending) => modified'
  BY DEF TBlock
<1>2. Locks
  BY DEF Locks, TFlow, TTable
<1>3. NoRecord \notin cache
  BY RecordCycleAssumption DEF TBlock, Record
<1> QED
  BY <1>1, <1>2, <1>3, ValidatedFacts DEF Prepared, TBlock, Spare

LEMMA FlushSends ==
  ASSUME TTable, TBlock, TFlow, Spare, NEW g \in Goals, Flush(g)
  PROVE  \E i, R, P, u : Prepared(i, R, cache, P, u) /\ Sends(R, cache, P, u, g)
<1>1. /\ phase = "idle" /\ modified' = (modified \/ PendingValidated # pending)
      /\ UNCHANGED <<settings, committed, current, held, transaction, answer>>
      /\ StartFlush(Validated, cache, PendingValidated, unvalidated, g)
  BY DEF Flush, table
<1>2. Prepared(unvalidated, Validated, cache, PendingValidated, unvalidated)
  BY <1>1, ValidatedPrepared
<1>3. Sends(Validated, cache, PendingValidated, unvalidated, g)
  BY <1>1, ValidatedFacts, StartFlushSends DEF TBlock
<1> QED
  BY <1>2, <1>3

LEMMA LeaveRowSends ==
  ASSUME TTable, TBlock, TFlow, Spare, LeaveRow
  PROVE  \E i, R, P, u : Prepared(i, R, cache, P, u) /\ Sends(R, cache, P, u, "idle")
<1>1. /\ phase = "idle" /\ modified' = (modified \/ PendingValidated # pending)
      /\ UNCHANGED <<settings, committed, current, held, transaction, answer>>
      /\ rec' = Validated /\ pending' = PendingValidated /\ unvalidated' = NoRecord
      /\ UNCHANGED <<cache, phase, goal, batch>>
  BY DEF LeaveRow, table, request
<1>2. Prepared(unvalidated, Validated, cache, PendingValidated, NoRecord)
  BY <1>1, ValidatedPrepared
<1>3. Sends(Validated, cache, PendingValidated, NoRecord, "idle")
  BY <1>1, ValidatedFacts DEF Sends, Alike
<1> QED
  BY <1>2, <1>3

LEMMA ExecutesFacts ==
  ASSUME TTable, TBlock, TFlow, NEW i \in Record, Whole(rec[i]),
         AssertionFails(i) \/ RowIsBusy(i) \/ StatementFails(i) \/ StatementSucceeds(i)
  PROVE  \E a : Executes(i, a)
<1>1. ASSUME NEW a, Step(i, a), a \in {"ok", "changed", "gone", "busy", "error"},
             held \subseteq held', held' \subseteq held \cup {Row(i)},
             current' \in [Rows -> Values \cup {Gone}],
             \A r \in Rows \ {Row(i)} : current'[r] = current[r],
             a # "ok" => current' = current,
             a = "ok" /\ rowlocking # "None" /\ Anchored(i, rec[i])
               /\ rec[i].state \notin {"Delete", "Deleted"}
             => current'[Row(i)] = rec[i].value /\ Row(i) \in held'
      PROVE  Executes(i, a) 
  BY <1>1 DEF Step, Turn, Executes
<1>2. CASE AssertionFails(i)
  <2>1. Step(i, Assertion(rec[i], Row(i)))
        /\ held \subseteq held' /\ held' \subseteq held \cup {Row(i)}
        /\ current' = current
    BY <1>2 DEF AssertionFails
  <2>2. Assertion(rec[i], Row(i)) \in {"changed", "gone", "busy", "error"}
    BY <1>2 DEF Assertion, AssertionFails
  <2> QED
    BY <1>1, <2>1, <2>2 DEF TTable
<1>3. CASE RowIsBusy(i)
  BY <1>1, <1>3 DEF RowIsBusy, TTable
<1>4. CASE StatementFails(i)
  BY <1>1, <1>4 DEF StatementFails, TTable
<1>5. CASE StatementSucceeds(i)
  <2>1. /\ Step(i, "ok") /\ held \subseteq held' /\ held' \subseteq held \cup {Row(i)}
        /\ Statement(rec[i]) = "insert" => rec[i].value # Null
        /\ IF Statement(rec[i]) = "insert" \/ Found(rec[i], Row(i))
           THEN current' = [current EXCEPT ![Row(i)] =
                              IF Statement(rec[i]) = "delete" THEN Gone ELSE rec[i].value]
           ELSE current' = current
    BY <1>5 DEF StatementSucceeds
  <2>2. current' \in [Rows -> Values \cup {Gone}]
    <3>1. rec[i].value \in Values \cup {Null} /\ Row(i) \in Rows
      BY RowsOfRecords DEF TBlock, Contents
    <3>2. CASE Statement(rec[i]) = "insert" \/ Found(rec[i], Row(i))
      <4>1. rec[i].value \in Values
        BY <2>1, <3>1, <3>2 DEF Whole, Found
      <4> QED
        BY <2>1, <3>1, <3>2, <4>1 DEF TTable
    <3>3. CASE ~(Statement(rec[i]) = "insert" \/ Found(rec[i], Row(i)))
      BY <2>1, <3>3 DEF TTable
    <3> QED
      BY <3>2, <3>3
  <2>3. \A r \in Rows \ {Row(i)} : current'[r] = current[r]
    BY <2>1 DEF TTable
  <2>4. ASSUME rowlocking # "None", Anchored(i, rec[i]), rec[i].state \notin {"Delete", "Deleted"}
        PROVE  current'[Row(i)] = rec[i].value /\ Row(i) \in held'
    <3>1. rec[i].locked \in BOOLEAN /\ Row(i) \in Rows
      BY RowsOfRecords DEF TBlock, Contents
    <3>2. Statement(rec[i]) = "insert" \/ Found(rec[i], Row(i))
      <4>1. CASE rec[i].locked
        BY <2>4, <4>1 DEF Anchored
      <4>2. CASE ~rec[i].locked /\ Statement(rec[i]) # "insert"
        <5>1. Assertion(rec[i], Row(i)) = "ok"
          BY <1>5, <2>4, <4>2 DEF StatementSucceeds, Asserted
        <5> QED
          BY <5>1 DEF Assertion
      <4> QED
        BY <3>1, <4>1, <4>2
    <3>3. Statement(rec[i]) # "delete"
      BY <2>4 DEF Statement
    <3>4. current' = [current EXCEPT ![Row(i)] = rec[i].value]
      BY <2>1, <3>2, <3>3
    <3>5. Row(i) \in held'
      BY <1>5, <3>2 DEF StatementSucceeds
    <3> QED
      BY <3>1, <3>4, <3>5 DEF TTable
  <2> QED
    BY <1>1, <2>1, <2>2, <2>3, <2>4
<1> QED
  BY <1>2, <1>3, <1>4, <1>5

-----------------------------------------------------------------------------
(* The inductive invariant. *)

\* What the phases of the client mean for the row of the user, the list and the batch.
Phases ==
  /\ phase \in {"query", "commit", "sync"} => unvalidated = NoRecord
  /\ phase \in {"commit", "sync"} => pending = <<>>
  /\ phase # "flush" => batch = {} /\ answer = NoAnswer

\* Commit and rollback release every lock, also when the client knows of no transaction.
Transactions ==
  /\ held # {} => transaction \/ phase \in {"flush", "sync"}
  /\ phase = "sync" => held = {}
  /\ phase = "flush" /\ answer = NoAnswer /\ held # {} => transaction

\* A record that is taken for locked has its row held.
LocksHeld ==
  phase \notin {"sync", "undo"} =>
    \A i \in cache \cup Range(pending) : rec[i].locked => Row(i) \in held

\* While nothing is modified the records that wait for a flush are not locked: they were
\* left there by an undo.
Quiet == ~modified => \A i \in Range(pending) : ~rec[i].locked

Wholes == \A i \in cache \cup Range(pending) : Whole(rec[i])

\* No edit gets lost between the record, the list and the batch.
Edited == ~Dates => \A i \in cache : Marked(rec[i])

Listed == ~Dates => \A i \in cache :
  Unsaved(rec[i]) => i \in Range(pending) \/ (i = unvalidated /\ phase # "flush")

Batched ==
  phase = "flush" => \A i \in Range(pending) :
    Statement(rec[i]) # "none" => i \in batch \/ answer[i] # "none"

Inv ==
  /\ TypeOK /\ Spare /\ Phases /\ Transactions /\ LocksHeld /\ Quiet /\ Wholes
  /\ Edited /\ Listed /\ Batched

Types == TTable /\ TBlock /\ TFlow

LEMMA InvTypes == Inv => Types /\ Spare /\ Phases /\ Wholes
BY TypeParts DEF Inv, Types

LEMMA Steps ==
  ASSUME [Next]_vars
  PROVE
    \/ \E r \in Rows : OtherCommit(r)
    \/ \E r \in Rows : NewRecord(r)
    \/ \E i \in Record : Edit(i)
    \/ \E i \in Record : LockAndEdit(i)
    \/ \E i \in Record : DeleteRecord(i)
    \/ \E i \in Record : LockAndDelete(i)
    \/ \E i \in Record : RefreshRecord(i)
    \/ \E i \in Record : AssertionFails(i) \/ RowIsBusy(i) \/ StatementFails(i) \/ StatementSucceeds(i)
    \/ LeaveRow
    \/ \E g \in Goals : Flush(g)
    \/ Rollback \/ ReceiveBatch \/ RefuseBatch \/ ReceiveQuery
    \/ SendCommit \/ RefuseCommit \/ Synchronize \/ Undo
    \/ UNCHANGED vars
BY DEF Next, LeaveBlock, Query, Commit, Goals

\* The steps, by what they do.
LEMMA Effects ==
  ASSUME Inv, [Next]_vars
  PROVE
    \/ \E r \in Rows : OtherCommit(r)
    \/ \E r \in Rows : NewRecord(r)
    \/ \E i, y : i \in Record /\ Changes(i, y)
    \/ \E i, R, C, P, u : \E g \in Goals : Prepared(i, R, C, P, u) /\ Sends(R, C, P, u, g)
    \/ \E i, a : i \in Record /\ Executes(i, a)
    \/ Rollback \/ ReceiveBatch \/ RefuseBatch \/ ReceiveQuery
    \/ SendCommit \/ RefuseCommit \/ Synchronize \/ Undo
    \/ UNCHANGED vars
<1>0. TTable /\ TBlock /\ TFlow /\ Spare /\ Wholes
  BY InvTypes DEF Types
<1>1. CASE \E i \in Record : Edit(i)
  BY <1>0, <1>1, EditChanges
<1>2. CASE \E i \in Record : LockAndEdit(i)
  BY <1>0, <1>2, LockAndEditChanges
<1>3. CASE \E i \in Record : RefreshRecord(i)
  BY <1>0, <1>3, RefreshRecordChanges
<1>4. CASE \E i \in Record : DeleteRecord(i)
  <2>1. PICK i \in Record : DeleteRecord(i)
    BY <1>4
  <2>2. PICK R, P : Prepared(i, R, cache \ {i}, P, NoRecord) /\ Sends(R, cache \ {i}, P, NoRecord, "idle")
    BY <1>0, <2>1, DeleteRecordSends
  <2> QED
    BY <2>2 DEF Goals
<1>5. CASE \E i \in Record : LockAndDelete(i)
  <2>1. PICK i \in Record : LockAndDelete(i)
    BY <1>5
  <2>2. CASE \E y : Changes(i, y)
    BY <2>2
  <2>3. CASE ~\E y : Changes(i, y)
    <3>1. /\ AtRecord(i) /\ Locks /\ modified' = TRUE /\ Row(i) \in held'
          /\ UNCHANGED <<settings, committed, current, answer>>
          /\ \E x \in Contents : DeleteFrom(i, x) /\ (Whole(rec[i]) => Whole(x))
      BY <1>0, <2>1, <2>3, LockAndDeleteSteps
    <3>2. PICK x \in Contents : DeleteFrom(i, x) /\ (Whole(rec[i]) => Whole(x))
      BY <3>1
    <3>3. PICK R, P : Prepared(i, R, cache \ {i}, P, NoRecord) /\ Sends(R, cache \ {i}, P, NoRecord, "idle")
      BY <1>0, <3>1, <3>2, DeleteSends
    <3> QED
      BY <3>3 DEF Goals
  <2> QED
    BY <2>2, <2>3
<1>6. CASE \E i \in Record : AssertionFails(i) \/ RowIsBusy(i) \/ StatementFails(i) \/ StatementSucceeds(i)
  <2>1. PICK i \in Record : AssertionFails(i) \/ RowIsBusy(i) \/ StatementFails(i) \/ StatementSucceeds(i)
    BY <1>6
  <2>2. Step(i, "ok") \/ \E a : Step(i, a)
    BY <2>1 DEF AssertionFails, RowIsBusy, StatementFails, StatementSucceeds
  <2>3. i \in Range(pending)
    BY <1>0, <2>2 DEF Step, Turn, TFlow
  <2> QED
    BY <1>0, <2>1, <2>3, ExecutesFacts DEF Wholes
<1>7. CASE LeaveRow
  <2>1. PICK i, R, P, u : Prepared(i, R, cache, P, u) /\ Sends(R, cache, P, u, "idle")
    BY <1>0, <1>7, LeaveRowSends
  <2> QED
    BY <2>1 DEF Goals
<1>8. CASE \E g \in Goals : Flush(g)
  <2>1. PICK g \in Goals : Flush(g)
    BY <1>8
  <2>2. PICK i, R, P, u : Prepared(i, R, cache, P, u) /\ Sends(R, cache, P, u, g)
    BY <1>0, <2>1, FlushSends
  <2> QED
    BY <2>2
<1> QED
  BY Steps, <1>1, <1>2, <1>3, <1>4, <1>5, <1>6, <1>7, <1>8

-----------------------------------------------------------------------------
(* What the other steps do to the records. *)

LEMMA NewRecordFacts ==
  ASSUME Types, Spare, NEW r \in Rows, NewRecord(r)
  PROVE  \E i \in Record :
           /\ i \notin Range(pending) /\ Bounded(i) /\ unvalidated = NoRecord
           /\ \A j \in cache : Row(j) # Row(i)
           /\ cache' = cache \cup {i} /\ unvalidated' = i
           /\ rec' = [rec EXCEPT ![i] = Blank] /\ modified' = TRUE
<1>1. Object(r) \in Free(r)
  BY DEF Spare, Object
<1>2. Object(r) \in Record /\ Object(r) \notin Range(pending) /\ Row(Object(r)) = r
  BY <1>1 DEF Free, Record, Row
<1> QED
  BY <1>2 DEF NewRecord

LEMMA ReceiveBatchFacts ==
  ASSUME Types, Phases, ReceiveBatch
  PROVE  /\ rec' \in [Record -> Contents]
         /\ \A i \in cache :
              /\ rec'[i].locked => rec[i].locked
              /\ Marked(rec[i]) => Marked(rec'[i])
              /\ Whole(rec[i]) => Whole(rec'[i])
              /\ Unsaved(rec'[i]) => answer[i] = "none" /\ rec'[i] = rec[i]
              /\ IF answer[i] = "ok"
                 THEN rec'[i].state \in {"Inserted", "Updated"} =>
                        rec[i].state \notin {"Delete", "Deleted"} /\ rec'[i].initial = rec[i].value
                 ELSE Kept(rec[i], rec'[i])
              /\ Whole(rec[i]) /\ Anchored(i, rec[i]) => Anchored(i, rec'[i])
<1> DEFINE R == [i \in Record |->
              CASE answer[i] = "none" -> rec[i]
                [] answer[i] = "ok"   -> Flushed(rec[i])
                [] OTHER              -> Failed(rec[i], Row(i), answer[i])]
<1>1. ASSUME NEW i \in Record
      PROVE  /\ R[i] \in Contents
             /\ R[i].locked => rec[i].locked
             /\ Marked(rec[i]) => Marked(R[i])
             /\ Whole(rec[i]) => Whole(R[i])
             /\ Unsaved(R[i]) => answer[i] = "none" /\ R[i] = rec[i]
             /\ IF answer[i] = "ok"
                THEN R[i].state \in {"Inserted", "Updated"} =>
                       rec[i].state \notin {"Delete", "Deleted"} /\ R[i].initial = rec[i].value
                ELSE Kept(rec[i], R[i])
             /\ Whole(rec[i]) /\ Anchored(i, rec[i]) => Anchored(i, R[i])
  <2>0. rec[i] \in Contents /\ Row(i) \in Rows /\ current \in [Rows -> Values \cup {Gone}]
    BY RowsOfRecords DEF Types, TBlock, TTable
  <2>1. CASE answer[i] = "none"
    <3>1. R[i] = rec[i]
      BY <2>1
    <3> QED
      BY <2>0, <2>1, <3>1 DEF Kept
  <2>2. CASE answer[i] = "ok"
    <3>1. R[i] = Flushed(rec[i])
      BY <2>2
    <3>2. PICK y \in Contents :
            /\ y = R[i] /\ (y.locked => rec[i].locked)
            /\ y.value = rec[i].value /\ y.initial = rec[i].value
            /\ y.state \in {"Inserted", "Updated", "Deleted"}
            /\ y.state # "Deleted" => rec[i].state \notin {"Delete", "Deleted"}
      BY <2>0, <3>1, FlushedFacts
    <3>3. Whole(rec[i]) /\ Anchored(i, rec[i]) => Anchored(i, y)
      BY <3>2 DEF Anchored, Found, Whole
    <3> QED
      BY <2>2, <3>2, <3>3 DEF Marked, Whole, Unsaved
  <2>3. CASE answer[i] \notin {"none", "ok"}
    <3>1. R[i] = Failed(rec[i], Row(i), answer[i])
      BY <2>3
    <3> QED
      BY <2>0, <2>3, <3>1, FailedFacts DEF Unsaved, Anchored
  <2> QED
    BY <2>1, <2>2, <2>3
<1>2. R \in [Record -> Contents]
  BY <1>1
<1>3. rec' = Tidy(R, cache, <<>>)
  BY DEF ReceiveBatch
<1> HIDE DEF R
<1>4. rec' \in [Record -> Contents] /\ \A i \in cache : i \in Record /\ rec'[i] = R[i]
  BY <1>2, <1>3, TidyFacts DEF Types, TBlock
<1> QED
  BY <1>1, <1>4

LEMMA UndoFacts ==
  ASSUME Types, Spare, Quiet, Undo
  PROVE  /\ rec' \in [Record -> Contents] /\ cache' \subseteq Record
         /\ \A i \in cache' \cup Range(pending) :
              /\ ~rec'[i].locked
              /\ Whole(rec'[i]) \/ (i \notin cache' /\ rec'[i] = rec[i])
         /\ \A i \in cache' : rec'[i].value = rec'[i].initial
         /\ \/ \A i \in cache' : rec'[i].state = "Consistent"
            \/ ~modified /\ cache' = cache /\ \A i \in cache : rec'[i].state = rec[i].state
         /\ cache' = cache \/ \A i, j \in cache' : Row(i) = Row(j) => i = j
<1>0. /\ rec \in [Record -> Contents] /\ cache \subseteq Record /\ Range(pending) \subseteq Record
      /\ current \in [Rows -> Values \cup {Gone}] /\ \A r \in Rows : Free(r) # {}
  BY PendingRecords DEF Types, TBlock, TTable, Spare
<1>1. CASE modified /\ ShowQuery([i \in Record |-> Restored(rec[i])])
  <2> DEFINE R == [i \in Record |-> Restored(rec[i])]
  <2>0. \A i \in Record : /\ Restored(rec[i]) \in Contents /\ ~Restored(rec[i]).locked
                          /\ Whole(Restored(rec[i]))
    BY <1>0, RestoredFacts DEF Whole
  <2>1. R \in [Record -> Contents] /\ \A i \in Record : ~R[i].locked /\ Whole(R[i])
    BY <2>0
  <2>2. ShowQuery(R)
    BY <1>1
  <2> HIDE DEF R
  <2>3. /\ cache' \subseteq Record /\ rec' \in [Record -> Contents]
        /\ \A i \in cache' : /\ ~rec'[i].locked /\ rec'[i].value = rec'[i].initial
                             /\ rec'[i].state = "Consistent"
        /\ \A i, j \in cache' : Row(i) = Row(j) => i = j
        /\ \A i \in Range(pending) \cap Record : rec'[i] = R[i]
    BY <1>0, <2>1, <2>2, ShownFacts
  <2>4. \A i \in cache' : Whole(rec'[i])
    BY <2>3 DEF Whole
  <2>5. \A i \in Range(pending) : ~rec'[i].locked /\ Whole(rec'[i])
    <3>1. ASSUME NEW i \in Range(pending) PROVE ~rec'[i].locked /\ Whole(rec'[i])
      <4>1. i \in Record /\ rec'[i] = R[i]
        BY <1>0, <2>3
      <4>2. ~R[i].locked /\ Whole(R[i])
        BY <2>1, <4>1
      <4> QED
        BY <4>1, <4>2
    <3> QED
      BY <3>1
  <2> QED
    BY <2>3, <2>4, <2>5
<1>2. CASE /\ ~modified /\ UNCHANGED cache
           /\ rec' = [i \in Record |-> IF i \in cache THEN SetClean(rec[i], TRUE) ELSE rec[i]]
  <2>1. \A i \in Record : /\ SetClean(rec[i], TRUE) \in Contents /\ ~SetClean(rec[i], TRUE).locked
                          /\ SetClean(rec[i], TRUE).value = SetClean(rec[i], TRUE).initial
                          /\ SetClean(rec[i], TRUE).state = rec[i].state
    BY <1>0, ReleasedFacts
  <2>2. \A i \in cache : rec'[i] = SetClean(rec[i], TRUE)
    BY <1>0, <1>2
  <2>3. \A i \in Record \ cache : rec'[i] = rec[i]
    BY <1>0, <1>2
  <2>4. rec' \in [Record -> Contents]
    BY <1>0, <1>2, <2>1
  <2>5. \A i \in Range(pending) : ~rec[i].locked
    BY <1>2 DEF Quiet
  <2> QED
    BY <1>0, <1>2, <2>1, <2>2, <2>3, <2>4, <2>5 DEF Whole
<1> QED
  BY <1>1, <1>2 DEF Undo

LEMMA SynchronizeFacts ==
  ASSUME Types, Synchronize
  PROVE  /\ rec' \in [Record -> Contents]
         /\ \A i \in cache : /\ ~rec'[i].locked /\ rec'[i].value = rec'[i].initial
                             /\ rec'[i].state = "Consistent"
<1>0. rec \in [Record -> Contents] /\ cache \subseteq Record
  BY DEF Types, TBlock
<1> DEFINE Synced(i) == [SetClean(rec[i], TRUE) EXCEPT !.state = "Consistent"]
<1>1. \A i \in Record : /\ Synced(i) \in Contents
                        /\ ~Synced(i).locked
                        /\ Synced(i).value = Synced(i).initial
                        /\ Synced(i).state = "Consistent"
  <2>1. SUFFICES ASSUME NEW i \in Record
                 PROVE  /\ Synced(i) \in Contents
                        /\ ~Synced(i).locked
                        /\ Synced(i).value = Synced(i).initial
                        /\ Synced(i).state = "Consistent"
    OBVIOUS
  <2>3. PICK x \in Contents : x = SetClean(rec[i], TRUE) /\ ~x.locked /\ x.value = x.initial
    BY <1>0, ReleasedFacts
  <2>4. /\ [x EXCEPT !.state = "Consistent"] \in Contents
        /\ [x EXCEPT !.state = "Consistent"].locked = x.locked
        /\ [x EXCEPT !.state = "Consistent"].value = x.value
        /\ [x EXCEPT !.state = "Consistent"].initial = x.initial
        /\ [x EXCEPT !.state = "Consistent"].state = "Consistent"
    BY DEF Contents, States
  <2> QED
    BY <2>3, <2>4
<1>2. rec' = [i \in Record |-> IF i \in cache THEN Synced(i) ELSE rec[i]]
  BY DEF Synchronize
<1> HIDE DEF Synced
<1>3. \A i \in cache : rec'[i] = Synced(i)
  BY <1>0, <1>2
<1>4. rec' \in [Record -> Contents]
  BY <1>0, <1>1, <1>2
<1> QED
  BY <1>0, <1>1, <1>3, <1>4

-----------------------------------------------------------------------------
(* The invariant is inductive. *)

LEMMA TableStays ==
  ASSUME Inv, [Next]_vars
  PROVE  rowlocking' = rowlocking /\ strategy' = strategy /\ TTable'
<1>0. TTable /\ batch \subseteq Range(pending)
  BY InvTypes DEF Types, TFlow
<1>1. CASE \E r \in Rows : OtherCommit(r)
  <2>1. PICK r \in Rows : OtherCommit(r)
    BY <1>1
  <2> QED
    BY <2>1, <1>0 DEF OtherCommit, TTable, settings
<1>2. CASE \E r \in Rows : NewRecord(r)
  BY <1>0, <1>2 DEF NewRecord, TTable, settings, table
<1>3. CASE \E i, y : i \in Record /\ Changes(i, y)
  <2>1. PICK i, y : i \in Record /\ Changes(i, y)
    BY <1>3
  <2> QED
    BY <2>1, <1>0 DEF Changes, Locks, TTable, settings
<1>4. CASE \E i, R, C, P, u : \E g \in Goals : Prepared(i, R, C, P, u) /\ Sends(R, C, P, u, g)
  <2>1. PICK i, R, C, P, u : \E g \in Goals : Prepared(i, R, C, P, u) /\ Sends(R, C, P, u, g)
    BY <1>4
  <2> QED
    BY <2>1, <1>0 DEF Prepared, Locks, TTable, settings
<1>5. CASE \E i, a : i \in Record /\ Executes(i, a)
  <2>1. PICK i, a : i \in Record /\ Executes(i, a)
    BY <1>5
  <2> QED
    BY <2>1, <1>0, RowsOfRecords DEF Executes, TTable, settings
<1>6. CASE Rollback
  BY <1>0, <1>6 DEF Rollback, ReceiveBatch, RefuseBatch, ReceiveQuery, SendCommit, RefuseCommit,
     Synchronize, Undo, TTable, settings, table, vars
<1>7. CASE ReceiveBatch
  BY <1>0, <1>7 DEF Rollback, ReceiveBatch, RefuseBatch, ReceiveQuery, SendCommit, RefuseCommit,
     Synchronize, Undo, TTable, settings, table, vars
<1>8. CASE RefuseBatch
  BY <1>0, <1>8 DEF Rollback, ReceiveBatch, RefuseBatch, ReceiveQuery, SendCommit, RefuseCommit,
     Synchronize, Undo, TTable, settings, table, vars
<1>9. CASE ReceiveQuery
  BY <1>0, <1>9 DEF Rollback, ReceiveBatch, RefuseBatch, ReceiveQuery, SendCommit, RefuseCommit,
     Synchronize, Undo, TTable, settings, table, vars
<1>10. CASE SendCommit
  BY <1>0, <1>10 DEF Rollback, ReceiveBatch, RefuseBatch, ReceiveQuery, SendCommit, RefuseCommit,
     Synchronize, Undo, TTable, settings, table, vars
<1>11. CASE RefuseCommit
  BY <1>0, <1>11 DEF Rollback, ReceiveBatch, RefuseBatch, ReceiveQuery, SendCommit, RefuseCommit,
     Synchronize, Undo, TTable, settings, table, vars
<1>12. CASE Synchronize
  BY <1>0, <1>12 DEF Rollback, ReceiveBatch, RefuseBatch, ReceiveQuery, SendCommit, RefuseCommit,
     Synchronize, Undo, TTable, settings, table, vars
<1>13. CASE Undo
  BY <1>0, <1>13 DEF Rollback, ReceiveBatch, RefuseBatch, ReceiveQuery, SendCommit, RefuseCommit,
     Synchronize, Undo, TTable, settings, table, vars
<1>14. CASE UNCHANGED vars
  BY <1>0, <1>14 DEF Rollback, ReceiveBatch, RefuseBatch, ReceiveQuery, SendCommit, RefuseCommit,
     Synchronize, Undo, TTable, settings, table, vars
<1> QED
  BY Effects, <1>1, <1>2, <1>3, <1>4, <1>5, <1>6, <1>7, <1>8, <1>9, <1>10, <1>11,
     <1>12, <1>13, <1>14

LEMMA BlockStays ==
  ASSUME Inv, [Next]_vars
  PROVE  TBlock'
<1>0. Types /\ Spare /\ Phases /\ TBlock /\ TTable
  BY InvTypes DEF Types
<1>1. CASE \E r \in Rows : OtherCommit(r)
  BY <1>0, <1>1 DEF OtherCommit, TBlock, block
<1>2. CASE \E r \in Rows : NewRecord(r)
  <2>1. PICK i \in Record :
           /\ cache' = cache \cup {i} /\ unvalidated' = i
           /\ rec' = [rec EXCEPT ![i] = Blank] /\ modified' = TRUE
    BY <1>0, <1>2, NewRecordFacts
  <2>2. pending' = pending
    BY <1>2 DEF NewRecord
  <2> QED
    BY <2>1, <2>2, <1>0, BlankFacts DEF TBlock
<1>3. CASE \E i, y : i \in Record /\ Changes(i, y)
  <2>1. PICK i, y : i \in Record /\ Changes(i, y)
    BY <1>3
  <2>2. rec' \in [Record -> Contents]
    BY <2>1, <1>0 DEF Changes, TBlock
  <2> QED
    BY <2>1, <2>2, <1>0 DEF Changes, TBlock
<1>4. CASE \E i, R, C, P, u : \E g \in Goals : Prepared(i, R, C, P, u) /\ Sends(R, C, P, u, g)
  <2>1. PICK i, R, C, P, u : \E g \in Goals : Prepared(i, R, C, P, u) /\ Sends(R, C, P, u, g)
    BY <1>4
  <2>2. Prepared(i, R, C, P, u) /\ \E g \in Goals : Sends(R, C, P, u, g)
    BY <2>1
  <2>3. u \in C \cup {NoRecord} /\ C \subseteq cache /\ modified' \in BOOLEAN
    BY <2>2 DEF Prepared
  <2>4. /\ cache' = C /\ rec' \in [Record -> Contents] /\ pending' \in Seq(Record)
        /\ unvalidated' \in {u, NoRecord}
    BY <2>2 DEF Sends
  <2> QED
    BY <2>3, <2>4, <1>0 DEF TBlock
<1>5. CASE \E i, a : i \in Record /\ Executes(i, a)
  <2>1. PICK i, a : i \in Record /\ Executes(i, a)
    BY <1>5
  <2> QED
    BY <2>1, <1>0 DEF Executes, TBlock, block
<1>6. CASE Rollback
  BY <1>0, <1>6 DEF Rollback, RefuseBatch, SendCommit, RefuseCommit, TBlock, block, vars
<1>7. CASE ReceiveBatch
  <2>1. rec' \in [Record -> Contents]
    BY <1>0, <1>7, ReceiveBatchFacts
  <2>2. /\ pending' = <<>> /\ UNCHANGED <<cache, modified>>
        /\ unvalidated' \in {unvalidated, NoRecord}
    BY <1>7 DEF ReceiveBatch
  <2> QED
    BY <1>0, <2>1, <2>2, EmptyRange DEF TBlock
<1>8. CASE RefuseBatch
  BY <1>0, <1>8 DEF Rollback, RefuseBatch, SendCommit, RefuseCommit, TBlock, block, vars
<1>9. CASE ReceiveQuery
  <2>1. cache' \subseteq Record /\ rec' \in [Record -> Contents]
    BY <1>0, <1>9, ShownFacts DEF ReceiveQuery, TBlock, TTable, Spare
  <2>2. UNCHANGED <<pending, modified, unvalidated>> /\ unvalidated = NoRecord
    BY <1>0, <1>9 DEF ReceiveQuery, Phases
  <2> QED
    BY <1>0, <2>1, <2>2 DEF TBlock
<1>10. CASE SendCommit
  BY <1>0, <1>10 DEF Rollback, RefuseBatch, SendCommit, RefuseCommit, TBlock, block, vars
<1>11. CASE RefuseCommit
  BY <1>0, <1>11 DEF Rollback, RefuseBatch, SendCommit, RefuseCommit, TBlock, block, vars
<1>12. CASE Synchronize
  <2>1. rec' \in [Record -> Contents]
    BY <1>0, <1>12, SynchronizeFacts
  <2> QED
    BY <1>0, <1>12, <2>1 DEF Synchronize, TBlock
<1>13. CASE Undo
  <2>1. rec' \in [Record -> Contents] /\ cache' \subseteq Record
    BY <1>0, <1>13, UndoFacts DEF Inv
  <2> QED
    BY <1>0, <1>13, <2>1 DEF Undo, TBlock
<1>14. CASE UNCHANGED vars
  BY <1>0, <1>14 DEF Rollback, RefuseBatch, SendCommit, RefuseCommit, TBlock, block, vars
<1> QED
  BY Effects, <1>1, <1>2, <1>3, <1>4, <1>5, <1>6, <1>7, <1>8, <1>9, <1>10, <1>11,
     <1>12, <1>13, <1>14

LEMMA FlowStays ==
  ASSUME Inv, [Next]_vars
  PROVE  TFlow' /\ Phases'
<1>0. Types /\ Phases /\ TFlow /\ TBlock
  BY InvTypes DEF Types
<1>1. CASE \E r \in Rows : OtherCommit(r)
  BY <1>0, <1>1 DEF OtherCommit, TFlow, Phases, block, request
<1>2. CASE \E r \in Rows : NewRecord(r)
  BY <1>0, <1>2 DEF NewRecord, TFlow, Phases, request
<1>3. CASE \E i, y : i \in Record /\ Changes(i, y)
  <2>1. PICK i, y : i \in Record /\ Changes(i, y)
    BY <1>3
  <2> QED
    BY <2>1, <1>0 DEF Changes, Locks, TFlow, Phases, request
<1>4. CASE \E i, R, C, P, u : \E g \in Goals : Prepared(i, R, C, P, u) /\ Sends(R, C, P, u, g)
  <2>1. PICK i, R, C, P, u : \E g \in Goals : Prepared(i, R, C, P, u) /\ Sends(R, C, P, u, g)
    BY <1>4
  <2>2. PICK g \in Goals : Prepared(i, R, C, P, u) /\ Sends(R, C, P, u, g)
    BY <2>1
  <2>3. /\ phase = "idle" /\ transaction' \in BOOLEAN /\ answer' = answer /\ batch = {}
        /\ answer = NoAnswer /\ Range(pending) \subseteq Range(P)
    BY <2>2, <1>0 DEF Prepared, Locks, Phases
  <2>4. \/ /\ pending' = <<>> /\ batch' = {} /\ goal' = goal
           /\ \/ phase' = "idle"
              \/ unvalidated' = NoRecord /\ phase' = g
        \/ /\ pending' = P /\ phase' = "flush" /\ goal' = g /\ batch' \subseteq Range(P)
        \/ /\ pending' = P /\ UNCHANGED <<phase, goal, batch>>
    BY <2>2 DEF Sends
  <2> QED
    BY <2>3, <2>4, <1>0 DEF TFlow, Phases, Goals
<1>5. CASE \E i, a : i \in Record /\ Executes(i, a)
  <2>1. PICK i, a : i \in Record /\ Executes(i, a)
    BY <1>5
  <2>2. answer' \in [Record -> {"none", "ok", "changed", "gone", "busy", "error"}]
    BY <2>1, <1>0 DEF Executes, TFlow
  <2> QED
    BY <2>1, <2>2, <1>0 DEF Executes, TFlow, Phases, block
<1>6. CASE Rollback
  BY <1>0, <1>6 DEF Rollback, ReceiveQuery, RefuseCommit, Synchronize, Undo, TFlow, Phases, block, request, vars
<1>7. CASE ReceiveBatch
  <2>1. answer' \in [Record -> {"none", "ok", "changed", "gone", "busy", "error"}] /\ answer' = NoAnswer
    BY <1>7 DEF ReceiveBatch, NoAnswer
  <2>2. /\ pending' = <<>> /\ transaction' = TRUE /\ batch' = {} /\ goal' = "idle"
        /\ \/ phase' = "idle"
           \/ phase' = goal /\ unvalidated' = NoRecord
    BY <1>7 DEF ReceiveBatch
  <2> QED
    BY <1>0, <2>1, <2>2 DEF TFlow, Phases, Goals
<1>8. CASE RefuseBatch
  <2>1. /\ batch' = {} /\ goal' = "idle" /\ UNCHANGED <<pending, transaction, answer>> /\ answer = NoAnswer
        /\ phase' = "idle" \/ (phase' = "query" /\ unvalidated' = NoRecord)
    BY <1>8 DEF RefuseBatch
  <2> QED
    BY <1>0, <2>1 DEF TFlow, Phases, Goals
<1>9. CASE ReceiveQuery
  BY <1>0, <1>9 DEF Rollback, ReceiveQuery, RefuseCommit, Synchronize, Undo, TFlow, Phases, block, request, vars
<1>10. CASE SendCommit
  BY <1>0, <1>10 DEF SendCommit, TFlow, Phases, block, request
<1>11. CASE RefuseCommit
  BY <1>0, <1>11 DEF Rollback, ReceiveQuery, RefuseCommit, Synchronize, Undo, TFlow, Phases, block, request, vars
<1>12. CASE Synchronize
  BY <1>0, <1>12 DEF Rollback, ReceiveQuery, RefuseCommit, Synchronize, Undo, TFlow, Phases, block, request, vars
<1>13. CASE Undo
  BY <1>0, <1>13 DEF Rollback, ReceiveQuery, RefuseCommit, Synchronize, Undo, TFlow, Phases, block, request, vars
<1>14. CASE UNCHANGED vars
  BY <1>0, <1>14 DEF Rollback, ReceiveQuery, RefuseCommit, Synchronize, Undo, TFlow, Phases, block, request, vars
<1> QED
  BY Effects, <1>1, <1>2, <1>3, <1>4, <1>5, <1>6, <1>7, <1>8, <1>9, <1>10, <1>11,
     <1>12, <1>13, <1>14

LEMMA SpareKept ==
  ASSUME Spare, NEW i, Range(pending') \subseteq Range(pending) \cup {i},
         i # NoRecord => i \in Record /\ Bounded(i),
         unvalidated' \in {unvalidated, NoRecord, i},
         unvalidated' # i /\ unvalidated' # NoRecord => Range(pending') \subseteq Range(pending)
  PROVE  Spare'
<1>1. \A r \in Rows : Free(r) \ {i} \subseteq Free(r)'
  BY DEF Free
<1>2. \A r \in Rows : Free(r) \ {i} # {}
  <2>1. SUFFICES ASSUME NEW r \in Rows PROVE Free(r) \ {i} # {}
    OBVIOUS
  <2>2. CASE i \in Free(r)
    <3>1. i \in Record /\ Row(i) = r /\ i # NoRecord
      BY <2>2, RecordCycleAssumption DEF Free, Record, Row
    <3> QED
      BY <3>1 DEF Bounded
  <2>3. CASE i \notin Free(r)
    BY <2>3 DEF Spare
  <2> QED
    BY <2>2, <2>3
<1>3. ASSUME unvalidated' # NoRecord PROVE Bounded(unvalidated)'
  <2>1. CASE unvalidated' = i
    <3>1. Free(Row(i)) \ {i} # {} /\ Row(i) \in Rows
      BY <1>3, <2>1, RowsOfRecords DEF Bounded
    <3>2. Free(Row(i))' \ {i} # {}
      BY <1>1, <3>1 DEF Free
    <3>3. \E j : j \in (Free(Row(unvalidated)) \ {unvalidated})'
      BY <2>1, <3>2 DEF Free
    <3> QED
      BY <3>3 DEF Bounded
  <2>2. CASE unvalidated' # i
    <3>1. unvalidated' = unvalidated /\ Range(pending') \subseteq Range(pending)
      BY <1>3, <2>2
    <3>2. Free(Row(unvalidated)) \ {unvalidated} # {}
      BY <1>3, <3>1 DEF Spare, Bounded
    <3>3. Free(Row(unvalidated)) \subseteq Free(Row(unvalidated))'
      BY <3>1 DEF Free
    <3>4. \E j : j \in (Free(Row(unvalidated)) \ {unvalidated})'
      BY <3>1, <3>2, <3>3
    <3> QED
      BY <3>4 DEF Bounded
  <2> QED
    BY <2>1, <2>2
<1> QED
  BY <1>1, <1>2, <1>3 DEF Spare

LEMMA SpareStays ==
  ASSUME Inv, [Next]_vars
  PROVE  Spare'
<1>0. Types /\ Spare /\ Phases /\ TBlock
  BY InvTypes DEF Types
<1>1. CASE \E r \in Rows : OtherCommit(r)
  <2>1. UNCHANGED <<pending, unvalidated>>
    BY <1>1 DEF OtherCommit, block
  <2> QED
    BY <1>0, <2>1, SpareKept
<1>2. CASE \E r \in Rows : NewRecord(r)
  <2>1. PICK i \in Record : Bounded(i) /\ unvalidated' = i
    BY <1>0, <1>2, NewRecordFacts
  <2>2. pending' = pending
    BY <1>2 DEF NewRecord
  <2> QED
    BY <1>0, <2>1, <2>2, SpareKept
<1>3. CASE \E i, y : i \in Record /\ Changes(i, y)
  <2>1. PICK i, y : i \in Record /\ Changes(i, y)
    BY <1>3
  <2>2. pending' = pending /\ unvalidated' \in {unvalidated, i} /\ Bounded(i)
    BY <2>1 DEF Changes
  <2> QED
    BY <1>0, <2>1, <2>2, SpareKept
<1>4. CASE \E i, R, C, P, u : \E g \in Goals : Prepared(i, R, C, P, u) /\ Sends(R, C, P, u, g)
  <2>1. PICK i, R, C, P, u : \E g \in Goals : Prepared(i, R, C, P, u) /\ Sends(R, C, P, u, g)
    BY <1>4
  <2>2. /\ Range(P) \subseteq Range(pending) \cup {i} /\ u \in {NoRecord, i}
        /\ i # NoRecord => i \in Record /\ Bounded(i)
    BY <2>1, <1>0 DEF Prepared, TBlock
  <2>3. unvalidated' \in {u, NoRecord} /\ Range(pending') \subseteq Range(P)
    BY <2>1 DEF Sends
  <2> QED
    BY <1>0, <2>2, <2>3, SpareKept
<1>5. CASE \E i, a : i \in Record /\ Executes(i, a)
  <2>1. UNCHANGED <<pending, unvalidated>>
    BY <1>5 DEF Executes, block
  <2> QED
    BY <1>0, <2>1, SpareKept
<1>6. CASE Rollback
  <2>1. pending' = pending /\ unvalidated' \in {unvalidated, NoRecord}
    BY <1>6 DEF Rollback, RefuseBatch, ReceiveQuery, SendCommit, RefuseCommit, Synchronize, Undo, block, vars
  <2> QED
    BY <1>0, <2>1, SpareKept
<1>7. CASE ReceiveBatch
  <2>1. Range(pending') = {} /\ unvalidated' \in {unvalidated, NoRecord}
    BY <1>7, EmptyRange DEF ReceiveBatch
  <2> QED
    BY <1>0, <2>1, SpareKept
<1>8. CASE RefuseBatch
  <2>1. pending' = pending /\ unvalidated' \in {unvalidated, NoRecord}
    BY <1>8 DEF Rollback, RefuseBatch, ReceiveQuery, SendCommit, RefuseCommit, Synchronize, Undo, block, vars
  <2> QED
    BY <1>0, <2>1, SpareKept
<1>9. CASE ReceiveQuery
  <2>1. pending' = pending /\ unvalidated' \in {unvalidated, NoRecord}
    BY <1>9 DEF Rollback, RefuseBatch, ReceiveQuery, SendCommit, RefuseCommit, Synchronize, Undo, block, vars
  <2> QED
    BY <1>0, <2>1, SpareKept
<1>10. CASE SendCommit
  <2>1. pending' = pending /\ unvalidated' \in {unvalidated, NoRecord}
    BY <1>10 DEF Rollback, RefuseBatch, ReceiveQuery, SendCommit, RefuseCommit, Synchronize, Undo, block, vars
  <2> QED
    BY <1>0, <2>1, SpareKept
<1>11. CASE RefuseCommit
  <2>1. pending' = pending /\ unvalidated' \in {unvalidated, NoRecord}
    BY <1>11 DEF Rollback, RefuseBatch, ReceiveQuery, SendCommit, RefuseCommit, Synchronize, Undo, block, vars
  <2> QED
    BY <1>0, <2>1, SpareKept
<1>12. CASE Synchronize
  <2>1. pending' = pending /\ unvalidated' \in {unvalidated, NoRecord}
    BY <1>12 DEF Rollback, RefuseBatch, ReceiveQuery, SendCommit, RefuseCommit, Synchronize, Undo, block, vars
  <2> QED
    BY <1>0, <2>1, SpareKept
<1>13. CASE Undo
  <2>1. pending' = pending /\ unvalidated' \in {unvalidated, NoRecord}
    BY <1>13 DEF Rollback, RefuseBatch, ReceiveQuery, SendCommit, RefuseCommit, Synchronize, Undo, block, vars
  <2> QED
    BY <1>0, <2>1, SpareKept
<1>14. CASE UNCHANGED vars
  <2>1. pending' = pending /\ unvalidated' \in {unvalidated, NoRecord}
    BY <1>14 DEF Rollback, RefuseBatch, ReceiveQuery, SendCommit, RefuseCommit, Synchronize, Undo, block, vars
  <2> QED
    BY <1>0, <2>1, SpareKept
<1> QED
  BY Effects, <1>1, <1>2, <1>3, <1>4, <1>5, <1>6, <1>7, <1>8, <1>9, <1>10, <1>11,
     <1>12, <1>13, <1>14

LEMMA TransactionsStay ==
  ASSUME Inv, [Next]_vars
  PROVE  Transactions'
<1>0. Transactions /\ Phases /\ TTable /\ TFlow /\ TBlock
  BY InvTypes DEF Inv, Types
<1>1. CASE \E r \in Rows : OtherCommit(r)
  BY <1>0, <1>1 DEF OtherCommit, Transactions, request
<1>2. CASE \E r \in Rows : NewRecord(r)
  BY <1>0, <1>2 DEF NewRecord, Transactions, table, request
<1>3. CASE \E i, y : i \in Record /\ Changes(i, y)
  <2>1. PICK i, y : i \in Record /\ Changes(i, y)
    BY <1>3
  <2> QED
    BY <1>0, <2>1 DEF Changes, Locks, Transactions, request
<1>4. CASE \E i, R, C, P, u : \E g \in Goals : Prepared(i, R, C, P, u) /\ Sends(R, C, P, u, g)
  <2>1. PICK i, R, C, P, u : \E g \in Goals : Prepared(i, R, C, P, u) /\ Sends(R, C, P, u, g)
    BY <1>4
  <2>2. phase = "idle" /\ Locks /\ answer' = answer
    BY <2>1 DEF Prepared
  <2>3. held' # {} => transaction'
    BY <1>0, <2>2 DEF Locks, Transactions
  <2>4. phase' # "sync" \/ held' = {}
    BY <2>1, <2>2 DEF Sends, Goals
  <2> QED
    BY <2>3, <2>4 DEF Transactions
<1>5. CASE \E i, a : i \in Record /\ Executes(i, a)
  <2>1. PICK i, a : i \in Record /\ Executes(i, a)
    BY <1>5
  <2>2. phase' = "flush" /\ answer'[i] # "none" /\ i \in Record
    BY <2>1, <1>0 DEF Executes, TFlow
  <2> QED
    BY <2>2 DEF Transactions, NoAnswer
<1>6. CASE Rollback
  BY <1>0, <1>6 DEF Rollback, Transactions
<1>7. CASE ReceiveBatch
  <2>1. transaction' = TRUE /\ phase' \in Goals
    BY <1>7, <1>0 DEF ReceiveBatch, Goals, TFlow
  <2> QED
    BY <2>1 DEF Transactions, Goals
<1>8. CASE RefuseBatch
  BY <1>0, <1>8 DEF RefuseBatch, Transactions, table
<1>9. CASE ReceiveQuery
  BY <1>0, <1>9 DEF Rollback, RefuseBatch, ReceiveQuery, SendCommit, RefuseCommit, Synchronize, Undo, Transactions, table, request, vars
<1>10. CASE SendCommit
  BY <1>0, <1>10 DEF Rollback, RefuseBatch, ReceiveQuery, SendCommit, RefuseCommit, Synchronize, Undo, Transactions, table, request, vars
<1>11. CASE RefuseCommit
  BY <1>0, <1>11 DEF Rollback, RefuseBatch, ReceiveQuery, SendCommit, RefuseCommit, Synchronize, Undo, Transactions, table, request, vars
<1>12. CASE Synchronize
  BY <1>0, <1>12 DEF Rollback, RefuseBatch, ReceiveQuery, SendCommit, RefuseCommit, Synchronize, Undo, Transactions, table, request, vars
<1>13. CASE Undo
  BY <1>0, <1>13 DEF Rollback, RefuseBatch, ReceiveQuery, SendCommit, RefuseCommit, Synchronize, Undo, Transactions, table, request, vars
<1>14. CASE UNCHANGED vars
  BY <1>0, <1>14 DEF Rollback, RefuseBatch, ReceiveQuery, SendCommit, RefuseCommit, Synchronize, Undo, Transactions, table, request, vars
<1> QED
  BY Effects, <1>1, <1>2, <1>3, <1>4, <1>5, <1>6, <1>7, <1>8, <1>9, <1>10, <1>11,
     <1>12, <1>13, <1>14

LEMMA LocksHeldStays ==
  ASSUME Inv, [Next]_vars
  PROVE  LocksHeld'
<1>0. Types /\ Spare /\ Phases /\ TBlock /\ TTable /\ LocksHeld /\ cache \subseteq Record
      /\ Range(pending) \subseteq Record /\ rec \in [Record -> Contents]
  BY InvTypes, PendingRecords DEF Inv, Types, TBlock
<1>1. CASE \E r \in Rows : OtherCommit(r)
  BY <1>0, <1>1 DEF OtherCommit, LocksHeld, block
<1>2. CASE \E r \in Rows : NewRecord(r)
  <2>1. PICK i \in Record : /\ i \notin Range(pending) /\ cache' = cache \cup {i} /\ unvalidated' = i
                            /\ rec' = [rec EXCEPT ![i] = Blank] /\ modified' = TRUE
    BY <1>0, <1>2, NewRecordFacts
  <2>2. /\ rec'[i] = Blank /\ \A j \in Record \ {i} : rec'[j] = rec[j]
        /\ UNCHANGED <<pending, held, phase>> /\ phase = "idle" /\ unvalidated = NoRecord
    BY <1>0, <1>2, <2>1 DEF NewRecord, table
  <2> QED
    BY <1>0, <2>1, <2>2, BlankFacts DEF LocksHeld
<1>3. CASE \E i, y : i \in Record /\ Changes(i, y)
  <2>1. PICK i, y : i \in Record /\ Changes(i, y)
    BY <1>3
  <2>2. /\ rec'[i] = y /\ \A j \in Record \ {i} : rec'[j] = rec[j]
        /\ UNCHANGED <<cache, pending, phase>> /\ phase = "idle" /\ i \in cache
    BY <1>0, <2>1 DEF Changes
  <2>3. y.locked => rec[i].locked \/ Row(i) \in held'
    BY <2>1 DEF Changes
  <2>4. held \subseteq held'
    BY <2>1 DEF Changes, Locks
  <2> QED
    BY <1>0, <2>2, <2>3, <2>4 DEF LocksHeld
<1>4. CASE \E i, R, C, P, u : \E g \in Goals : Prepared(i, R, C, P, u) /\ Sends(R, C, P, u, g)
  <2>1. PICK i, R, C, P, u : \E g \in Goals : Prepared(i, R, C, P, u) /\ Sends(R, C, P, u, g)
    BY <1>4
  <2>2. /\ phase = "idle" /\ \A j \in Record \ {i} : R[j] = rec[j]
        /\ i # NoRecord => i \in cache
        /\ C \subseteq cache /\ Range(P) \subseteq Range(pending) \cup {i}
        /\ Range(pending) \subseteq Range(P) /\ Range(P) \subseteq Record
    BY <2>1, PendingRecords DEF Prepared
  <2>3. /\ cache' = C /\ Range(pending') \subseteq Range(P)
        /\ \A j \in C \cup Range(pending') : Alike(R[j], rec'[j])
    BY <2>1 DEF Sends
  <2>4. NoRecord \notin Record
    BY RecordCycleAssumption DEF Record
  <2>5. i # NoRecord /\ R[i].locked => rec[i].locked \/ Row(i) \in held'
    BY <2>1 DEF Prepared
  <2>6. held \subseteq held'
    BY <2>1 DEF Prepared, Locks
  <2>7. ASSUME NEW j \in C \cup Range(pending'), rec'[j].locked PROVE Row(j) \in held'
    <3>1. R[j].locked /\ j \in Record /\ j \in cache \cup Range(pending)
      BY <1>0, <2>2, <2>3, <2>4, <2>7 DEF Alike
    <3>2. CASE j = i
      BY <1>0, <2>2, <2>4, <2>5, <2>6, <3>1, <3>2 DEF LocksHeld
    <3>3. CASE j # i
      BY <1>0, <2>2, <2>6, <3>1, <3>3 DEF LocksHeld
    <3> QED
      BY <3>2, <3>3
  <2> QED
    BY <2>3, <2>7 DEF LocksHeld
<1>5. CASE \E i, a : i \in Record /\ Executes(i, a)
  BY <1>0, <1>5 DEF Executes, LocksHeld, block
<1>6. CASE Rollback
  BY <1>6 DEF Rollback, LocksHeld
<1>7. CASE ReceiveBatch
  <2>1. \A i \in cache : rec'[i].locked => rec[i].locked
    BY <1>0, <1>7, ReceiveBatchFacts
  <2>2. Range(pending') = {} /\ UNCHANGED <<cache, held>> /\ phase = "flush"
    BY <1>7, EmptyRange DEF ReceiveBatch, table
  <2> QED
    BY <1>0, <2>1, <2>2 DEF LocksHeld
<1>8. CASE RefuseBatch
  BY <1>0, <1>8 DEF RefuseBatch, LocksHeld, table
<1>9. CASE ReceiveQuery
  <2>1. /\ \A i \in cache' : ~rec'[i].locked
        /\ \A i \in Range(pending) : rec'[i] = rec[i]
    BY <1>0, <1>9, ShownFacts DEF ReceiveQuery, TTable, Spare
  <2>2. UNCHANGED <<pending, held>> /\ phase = "query"
    BY <1>9 DEF ReceiveQuery, table
  <2> QED
    BY <1>0, <2>1, <2>2 DEF LocksHeld
<1>10. CASE SendCommit
  BY <1>0, <1>10 DEF Rollback, RefuseBatch, ReceiveQuery, SendCommit, RefuseCommit, Synchronize, Undo, LocksHeld, block, table, request, vars
<1>11. CASE RefuseCommit
  BY <1>0, <1>11 DEF Rollback, RefuseBatch, ReceiveQuery, SendCommit, RefuseCommit, Synchronize, Undo, LocksHeld, block, table, request, vars
<1>12. CASE Synchronize
  <2>1. \A i \in cache : ~rec'[i].locked
    BY <1>0, <1>12, SynchronizeFacts
  <2>2. UNCHANGED <<cache, pending>> /\ Range(pending) = {}
    BY <1>0, <1>12, EmptyRange DEF Synchronize, Phases
  <2> QED
    BY <2>1, <2>2 DEF LocksHeld
<1>13. CASE Undo
  <2>1. \A i \in cache' \cup Range(pending) : ~rec'[i].locked
    BY <1>0, <1>13, UndoFacts DEF Inv
  <2>2. pending' = pending
    BY <1>13 DEF Undo
  <2> QED
    BY <2>1, <2>2 DEF LocksHeld
<1>14. CASE UNCHANGED vars
  BY <1>0, <1>14 DEF Rollback, RefuseBatch, ReceiveQuery, SendCommit, RefuseCommit, Synchronize, Undo, LocksHeld, block, table, request, vars
<1> QED
  BY Effects, <1>1, <1>2, <1>3, <1>4, <1>5, <1>6, <1>7, <1>8, <1>9, <1>10, <1>11,
     <1>12, <1>13, <1>14

LEMMA QuietStays ==
  ASSUME Inv, [Next]_vars
  PROVE  Quiet'
<1>0. Types /\ Spare /\ Phases /\ TBlock /\ TTable /\ Quiet /\ cache \subseteq Record
      /\ Range(pending) \subseteq Record /\ rec \in [Record -> Contents]
  BY InvTypes, PendingRecords DEF Inv, Types, TBlock
<1>1. CASE \E r \in Rows : OtherCommit(r)
  BY <1>0, <1>1 DEF OtherCommit, Quiet, block
<1>2. CASE \E r \in Rows : NewRecord(r)
  BY <1>2 DEF NewRecord, Quiet
<1>3. CASE \E i, y : i \in Record /\ Changes(i, y)
  <2>1. PICK i, y : i \in Record /\ Changes(i, y)
    BY <1>3
  <2>2. /\ rec'[i] = y /\ \A j \in Record \ {i} : rec'[j] = rec[j]
        /\ UNCHANGED <<cache, pending, phase>> /\ phase = "idle" /\ i \in cache
    BY <1>0, <2>1 DEF Changes
  <2>3. /\ y.locked => rec[i].locked \/ modified'
        /\ modified => modified'
    BY <2>1 DEF Changes
  <2> QED
    BY <1>0, <2>2, <2>3 DEF Quiet
<1>4. CASE \E i, R, C, P, u : \E g \in Goals : Prepared(i, R, C, P, u) /\ Sends(R, C, P, u, g)
  <2>1. PICK i, R, C, P, u : \E g \in Goals : Prepared(i, R, C, P, u) /\ Sends(R, C, P, u, g)
    BY <1>4
  <2>2. /\ phase = "idle" /\ \A j \in Record \ {i} : R[j] = rec[j]
        /\ i # NoRecord => i \in cache
        /\ C \subseteq cache /\ Range(P) \subseteq Range(pending) \cup {i}
        /\ Range(pending) \subseteq Range(P) /\ Range(P) \subseteq Record
    BY <2>1, PendingRecords DEF Prepared
  <2>3. /\ cache' = C /\ Range(pending') \subseteq Range(P)
        /\ \A j \in C \cup Range(pending') : Alike(R[j], rec'[j])
    BY <2>1 DEF Sends
  <2>4. NoRecord \notin Record
    BY RecordCycleAssumption DEF Record
  <2>5. /\ i # NoRecord /\ R[i].locked => rec[i].locked \/ modified'
        /\ modified => modified'
        /\ Range(P) # Range(pending) => modified'
    BY <2>1 DEF Prepared
  <2>6. SUFFICES ASSUME ~modified', NEW j \in Range(pending'), rec'[j].locked PROVE FALSE
    BY DEF Quiet
  <2>7. R[j].locked /\ j \in Record /\ j \in Range(pending) /\ ~modified
    BY <2>2, <2>3, <2>5, <2>6 DEF Alike
  <2>8. rec[j].locked
    <3>1. CASE j = i
      BY <2>2, <2>4, <2>5, <2>6, <2>7, <3>1
    <3>2. CASE j # i
      BY <2>2, <2>7, <3>2
    <3> QED
      BY <3>1, <3>2
  <2> QED
    BY <1>0, <2>7, <2>8 DEF Quiet
<1>5. CASE \E i, a : i \in Record /\ Executes(i, a)
  BY <1>0, <1>5 DEF Executes, Quiet, block
<1>6. CASE Rollback
  BY <1>0, <1>6 DEF Rollback, RefuseBatch, ReceiveQuery, SendCommit, RefuseCommit, Synchronize, Undo, Quiet, block, table, request, vars
<1>7. CASE ReceiveBatch
  <2>1. Range(pending') = {}
    BY <1>7, EmptyRange DEF ReceiveBatch
  <2> QED
    BY <2>1 DEF Quiet
<1>8. CASE RefuseBatch
  BY <1>0, <1>8 DEF Rollback, RefuseBatch, ReceiveQuery, SendCommit, RefuseCommit, Synchronize, Undo, Quiet, block, table, request, vars
<1>9. CASE ReceiveQuery
  <2>1. \A i \in Range(pending) : rec'[i] = rec[i]
    BY <1>0, <1>9, ShownFacts DEF ReceiveQuery, TTable, Spare
  <2>2. UNCHANGED <<pending, modified>>
    BY <1>9 DEF ReceiveQuery
  <2> QED
    BY <1>0, <2>1, <2>2 DEF Quiet
<1>10. CASE SendCommit
  BY <1>0, <1>10 DEF Rollback, RefuseBatch, ReceiveQuery, SendCommit, RefuseCommit, Synchronize, Undo, Quiet, block, table, request, vars
<1>11. CASE RefuseCommit
  BY <1>0, <1>11 DEF Rollback, RefuseBatch, ReceiveQuery, SendCommit, RefuseCommit, Synchronize, Undo, Quiet, block, table, request, vars
<1>12. CASE Synchronize
  <2>1. UNCHANGED pending /\ Range(pending) = {}
    BY <1>0, <1>12, EmptyRange DEF Synchronize, Phases
  <2> QED
    BY <2>1 DEF Quiet
<1>13. CASE Undo
  <2>1. \A i \in Range(pending) : ~rec'[i].locked
    BY <1>0, <1>13, UndoFacts DEF Inv
  <2>2. pending' = pending
    BY <1>13 DEF Undo
  <2> QED
    BY <2>1, <2>2 DEF Quiet
<1>14. CASE UNCHANGED vars
  BY <1>0, <1>14 DEF Rollback, RefuseBatch, ReceiveQuery, SendCommit, RefuseCommit, Synchronize, Undo, Quiet, block, table, request, vars
<1> QED
  BY Effects, <1>1, <1>2, <1>3, <1>4, <1>5, <1>6, <1>7, <1>8, <1>9, <1>10, <1>11,
     <1>12, <1>13, <1>14

LEMMA WholesStay ==
  ASSUME Inv, [Next]_vars
  PROVE  Wholes'
<1>0. Types /\ Spare /\ Phases /\ TBlock /\ TTable /\ Wholes /\ cache \subseteq Record
      /\ Range(pending) \subseteq Record /\ rec \in [Record -> Contents]
  BY InvTypes, PendingRecords DEF Inv, Types, TBlock
<1>1. CASE \E r \in Rows : OtherCommit(r)
  BY <1>0, <1>1 DEF OtherCommit, Wholes, block
<1>2. CASE \E r \in Rows : NewRecord(r)
  <2>1. PICK i \in Record : /\ i \notin Range(pending) /\ cache' = cache \cup {i} /\ unvalidated' = i
                            /\ rec' = [rec EXCEPT ![i] = Blank] /\ modified' = TRUE
    BY <1>0, <1>2, NewRecordFacts
  <2>2. /\ rec'[i] = Blank /\ \A j \in Record \ {i} : rec'[j] = rec[j]
        /\ UNCHANGED <<pending, held, phase>> /\ phase = "idle" /\ unvalidated = NoRecord
    BY <1>0, <1>2, <2>1 DEF NewRecord, table
  <2> QED
    BY <1>0, <2>1, <2>2, BlankFacts DEF Wholes
<1>3. CASE \E i, y : i \in Record /\ Changes(i, y)
  <2>1. PICK i, y : i \in Record /\ Changes(i, y)
    BY <1>3
  <2>2. /\ rec'[i] = y /\ \A j \in Record \ {i} : rec'[j] = rec[j]
        /\ UNCHANGED <<cache, pending, phase>> /\ phase = "idle" /\ i \in cache
    BY <1>0, <2>1 DEF Changes
  <2>3. Whole(rec[i]) => Whole(y)
    BY <2>1 DEF Changes
  <2> QED
    BY <1>0, <2>2, <2>3 DEF Wholes
<1>4. CASE \E i, R, C, P, u : \E g \in Goals : Prepared(i, R, C, P, u) /\ Sends(R, C, P, u, g)
  <2>1. PICK i, R, C, P, u : \E g \in Goals : Prepared(i, R, C, P, u) /\ Sends(R, C, P, u, g)
    BY <1>4
  <2>2. /\ phase = "idle" /\ \A j \in Record \ {i} : R[j] = rec[j]
        /\ i # NoRecord => i \in cache
        /\ C \subseteq cache /\ Range(P) \subseteq Range(pending) \cup {i}
        /\ Range(pending) \subseteq Range(P) /\ Range(P) \subseteq Record
    BY <2>1, PendingRecords DEF Prepared
  <2>3. /\ cache' = C /\ Range(pending') \subseteq Range(P)
        /\ \A j \in C \cup Range(pending') : Alike(R[j], rec'[j])
    BY <2>1 DEF Sends
  <2>4. NoRecord \notin Record
    BY RecordCycleAssumption DEF Record
  <2>5. i # NoRecord /\ Whole(rec[i]) => Whole(R[i])
    BY <2>1 DEF Prepared
  <2>6. ASSUME NEW j \in C \cup Range(pending') PROVE Whole(rec'[j])
    <3>1. j \in Record /\ j \in cache \cup Range(pending)
      BY <1>0, <2>2, <2>3, <2>4
    <3>2. Whole(R[j])
      BY <1>0, <2>2, <2>4, <2>5, <3>1 DEF Wholes
    <3> QED
      BY <2>3, <3>2 DEF Alike, Whole
  <2> QED
    BY <2>3, <2>6 DEF Wholes
<1>5. CASE \E i, a : i \in Record /\ Executes(i, a)
  BY <1>0, <1>5 DEF Executes, Wholes, block
<1>6. CASE Rollback
  BY <1>0, <1>6 DEF Rollback, RefuseBatch, ReceiveQuery, SendCommit, RefuseCommit, Synchronize, Undo, Wholes, block, table, request, vars
<1>7. CASE ReceiveBatch
  <2>1. \A i \in cache : Whole(rec[i]) => Whole(rec'[i])
    BY <1>0, <1>7, ReceiveBatchFacts
  <2>2. Range(pending') = {} /\ UNCHANGED cache
    BY <1>7, EmptyRange DEF ReceiveBatch
  <2> QED
    BY <1>0, <2>1, <2>2 DEF Wholes
<1>8. CASE RefuseBatch
  BY <1>0, <1>8 DEF Rollback, RefuseBatch, ReceiveQuery, SendCommit, RefuseCommit, Synchronize, Undo, Wholes, block, table, request, vars
<1>9. CASE ReceiveQuery
  <2>1. /\ \A i \in cache' : rec'[i].value = rec'[i].initial
        /\ \A i \in Range(pending) : rec'[i] = rec[i]
    BY <1>0, <1>9, ShownFacts DEF ReceiveQuery, TTable, Spare
  <2>2. UNCHANGED pending
    BY <1>9 DEF ReceiveQuery
  <2> QED
    BY <1>0, <2>1, <2>2 DEF Wholes, Whole
<1>10. CASE SendCommit
  BY <1>0, <1>10 DEF Rollback, RefuseBatch, ReceiveQuery, SendCommit, RefuseCommit, Synchronize, Undo, Wholes, block, table, request, vars
<1>11. CASE RefuseCommit
  BY <1>0, <1>11 DEF Rollback, RefuseBatch, ReceiveQuery, SendCommit, RefuseCommit, Synchronize, Undo, Wholes, block, table, request, vars
<1>12. CASE Synchronize
  <2>1. \A i \in cache : rec'[i].value = rec'[i].initial
    BY <1>0, <1>12, SynchronizeFacts
  <2>2. UNCHANGED <<cache, pending>> /\ Range(pending) = {}
    BY <1>0, <1>12, EmptyRange DEF Synchronize, Phases
  <2> QED
    BY <2>1, <2>2 DEF Wholes, Whole
<1>13. CASE Undo
  <2>1. \A i \in cache' \cup Range(pending) :
          Whole(rec'[i]) \/ (i \notin cache' /\ rec'[i] = rec[i])
    BY <1>0, <1>13, UndoFacts DEF Inv
  <2>2. pending' = pending
    BY <1>13 DEF Undo
  <2> QED
    BY <1>0, <2>1, <2>2 DEF Wholes, Whole
<1>14. CASE UNCHANGED vars
  BY <1>0, <1>14 DEF Rollback, RefuseBatch, ReceiveQuery, SendCommit, RefuseCommit, Synchronize, Undo, Wholes, block, table, request, vars
<1> QED
  BY Effects, <1>1, <1>2, <1>3, <1>4, <1>5, <1>6, <1>7, <1>8, <1>9, <1>10, <1>11,
     <1>12, <1>13, <1>14

LEMMA StatementOfEdit ==
  ASSUME NEW x, x.dirty, Unsaved(x)
  PROVE  Statement(x) # "none"
BY DEF Unsaved, Statement

LEMMA EditedStays ==
  ASSUME Inv, [Next]_vars, ~Dates
  PROVE  Edited'
<1>0. Types /\ Spare /\ Phases /\ TBlock /\ TTable /\ Edited /\ cache \subseteq Record
      /\ Range(pending) \subseteq Record /\ rec \in [Record -> Contents]
      /\ unvalidated \in cache \cup {NoRecord} /\ NoRecord \notin Record
  BY InvTypes, PendingRecords, RecordCycleAssumption DEF Inv, Types, TBlock, Record
<1>1. CASE \E r \in Rows : OtherCommit(r)
  BY <1>0, <1>1 DEF OtherCommit, Edited, block
<1>2. CASE \E r \in Rows : NewRecord(r)
  <2>1. PICK i \in Record : /\ i \notin Range(pending) /\ cache' = cache \cup {i} /\ unvalidated' = i
                            /\ rec' = [rec EXCEPT ![i] = Blank] /\ modified' = TRUE
    BY <1>0, <1>2, NewRecordFacts
  <2>2. /\ rec'[i] = Blank /\ \A j \in Record \ {i} : rec'[j] = rec[j]
        /\ UNCHANGED <<pending, held, phase>> /\ phase = "idle" /\ unvalidated = NoRecord
    BY <1>0, <1>2, <2>1 DEF NewRecord, table
  <2> QED
    BY <1>0, <2>1, <2>2, BlankFacts DEF Edited
<1>3. CASE \E i, y : i \in Record /\ Changes(i, y)
  <2>1. PICK i, y : i \in Record /\ Changes(i, y)
    BY <1>3
  <2>2. /\ rec'[i] = y /\ \A j \in Record \ {i} : rec'[j] = rec[j]
        /\ UNCHANGED <<cache, pending, phase>> /\ phase = "idle" /\ i \in cache
    BY <1>0, <2>1 DEF Changes
  <2>3. Marked(rec[i]) => Marked(y)
    BY <2>1 DEF Changes
  <2> QED
    BY <1>0, <2>2, <2>3 DEF Edited
<1>4. CASE \E i, R, C, P, u : \E g \in Goals : Prepared(i, R, C, P, u) /\ Sends(R, C, P, u, g)
  <2>1. PICK i, R, C, P, u : \E g \in Goals : Prepared(i, R, C, P, u) /\ Sends(R, C, P, u, g)
    BY <1>4
  <2>2. /\ phase = "idle" /\ \A j \in Record \ {i} : R[j] = rec[j]
        /\ i # NoRecord => i \in cache
        /\ C \subseteq cache /\ Range(P) \subseteq Range(pending) \cup {i}
        /\ Range(pending) \subseteq Range(P) /\ Range(P) \subseteq Record
    BY <2>1, PendingRecords DEF Prepared
  <2>3. /\ cache' = C /\ Range(pending') \subseteq Range(P)
        /\ \A j \in C \cup Range(pending') : Alike(R[j], rec'[j])
    BY <2>1 DEF Sends
  <2>4. NoRecord \notin Record
    BY RecordCycleAssumption DEF Record
  <2>5. i \in C /\ Marked(rec[i]) => Marked(R[i])
    BY <2>1 DEF Prepared
  <2>6. ASSUME NEW j \in C PROVE Marked(rec'[j])
    <3>1. j \in Record /\ Marked(rec[j])
      BY <1>0, <2>2 DEF Edited
    <3>2. Marked(R[j])
      BY <2>2, <2>5, <3>1
    <3> QED
      BY <2>3, <3>2 DEF Alike, Marked
  <2> QED
    BY <2>3, <2>6 DEF Edited
<1>5. CASE \E i, a : i \in Record /\ Executes(i, a)
  BY <1>0, <1>5 DEF Executes, Edited, block
<1>6. CASE Rollback
  BY <1>0, <1>6 DEF Rollback, RefuseBatch, ReceiveQuery, SendCommit, RefuseCommit, Synchronize, Undo, RefuseCommit, Edited, block, table, request, vars
<1>7. CASE ReceiveBatch
  <2>1. \A i \in cache : Marked(rec[i]) => Marked(rec'[i])
    BY <1>0, <1>7, ReceiveBatchFacts
  <2>2. UNCHANGED cache
    BY <1>7 DEF ReceiveBatch
  <2> QED
    BY <1>0, <2>1, <2>2 DEF Edited
<1>8. CASE RefuseBatch
  BY <1>0, <1>8 DEF Rollback, RefuseBatch, ReceiveQuery, SendCommit, RefuseCommit, Synchronize, Undo, RefuseCommit, Edited, block, table, request, vars
<1>9. CASE ReceiveQuery
  <2>1. \A i \in cache' : rec'[i].value = rec'[i].initial
    BY <1>0, <1>9, ShownFacts DEF ReceiveQuery, TTable, Spare
  <2> QED
    BY <2>1 DEF Edited, Marked
<1>10. CASE SendCommit
  BY <1>0, <1>10 DEF Rollback, RefuseBatch, ReceiveQuery, SendCommit, RefuseCommit, Synchronize, Undo, RefuseCommit, Edited, block, table, request, vars
<1>11. CASE RefuseCommit
  BY <1>0, <1>11 DEF Rollback, RefuseBatch, ReceiveQuery, SendCommit, RefuseCommit, Synchronize, Undo, RefuseCommit, Edited, block, table, request, vars
<1>12. CASE Synchronize
  <2>1. \A i \in cache : rec'[i].value = rec'[i].initial
    BY <1>0, <1>12, SynchronizeFacts
  <2>2. UNCHANGED cache
    BY <1>12 DEF Synchronize
  <2> QED
    BY <2>1, <2>2 DEF Edited, Marked
<1>13. CASE Undo
  <2>1. \A i \in cache' : rec'[i].value = rec'[i].initial
    BY <1>0, <1>13, UndoFacts DEF Inv
  <2> QED
    BY <2>1 DEF Edited, Marked
<1>14. CASE UNCHANGED vars
  BY <1>0, <1>14 DEF Rollback, RefuseBatch, ReceiveQuery, SendCommit, RefuseCommit, Synchronize, Undo, RefuseCommit, Edited, block, table, request, vars
<1> QED
  BY Effects, <1>1, <1>2, <1>3, <1>4, <1>5, <1>6, <1>7, <1>8, <1>9, <1>10, <1>11,
     <1>12, <1>13, <1>14

LEMMA ListedStays ==
  ASSUME Inv, [Next]_vars, ~Dates
  PROVE  Listed'
<1>0. Types /\ Spare /\ Phases /\ TBlock /\ TTable /\ Listed /\ Edited /\ Batched /\ cache \subseteq Record
      /\ Range(pending) \subseteq Record /\ rec \in [Record -> Contents]
      /\ unvalidated \in cache \cup {NoRecord} /\ NoRecord \notin Record
  BY InvTypes, PendingRecords, RecordCycleAssumption DEF Inv, Types, TBlock, Record
<1>1. CASE \E r \in Rows : OtherCommit(r)
  BY <1>0, <1>1 DEF OtherCommit, Listed, block
<1>2. CASE \E r \in Rows : NewRecord(r)
  <2>1. PICK i \in Record : /\ i \notin Range(pending) /\ cache' = cache \cup {i} /\ unvalidated' = i
                            /\ rec' = [rec EXCEPT ![i] = Blank] /\ modified' = TRUE
    BY <1>0, <1>2, NewRecordFacts
  <2>2. /\ rec'[i] = Blank /\ \A j \in Record \ {i} : rec'[j] = rec[j]
        /\ UNCHANGED <<pending, held, phase>> /\ phase = "idle" /\ unvalidated = NoRecord
    BY <1>0, <1>2, <2>1 DEF NewRecord, table
  <2> QED
    BY <1>0, <2>1, <2>2, BlankFacts DEF Listed
<1>3. CASE \E i, y : i \in Record /\ Changes(i, y)
  <2>1. PICK i, y : i \in Record /\ Changes(i, y)
    BY <1>3
  <2>2. /\ rec'[i] = y /\ \A j \in Record \ {i} : rec'[j] = rec[j]
        /\ UNCHANGED <<cache, pending, phase>> /\ phase = "idle" /\ i \in cache
    BY <1>0, <2>1 DEF Changes
  <2>3. /\ Unsaved(y) => unvalidated' = i
        /\ unvalidated \in {NoRecord, i}
    BY <2>1 DEF Changes
  <2> QED
    BY <1>0, <2>2, <2>3 DEF Listed
<1>4. CASE \E i, R, C, P, u : \E g \in Goals : Prepared(i, R, C, P, u) /\ Sends(R, C, P, u, g)
  <2>1. PICK i, R, C, P, u : \E g \in Goals : Prepared(i, R, C, P, u) /\ Sends(R, C, P, u, g)
    BY <1>4
  <2>2. /\ phase = "idle" /\ \A j \in Record \ {i} : R[j] = rec[j]
        /\ i # NoRecord => i \in cache
        /\ C \subseteq cache /\ Range(P) \subseteq Range(pending) \cup {i}
        /\ Range(pending) \subseteq Range(P) /\ Range(P) \subseteq Record
    BY <2>1, PendingRecords DEF Prepared
  <2>3. /\ cache' = C /\ Range(pending') \subseteq Range(P)
        /\ \A j \in C \cup Range(pending') : Alike(R[j], rec'[j])
    BY <2>1 DEF Sends
  <2>4. NoRecord \notin Record
    BY RecordCycleAssumption DEF Record
  <2>5. /\ i \in C /\ Marked(rec[i]) => Marked(R[i]) /\ (Unsaved(R[i]) => i \in Range(P))
        /\ unvalidated \in {NoRecord, i}
    BY <2>1 DEF Prepared
  <2>6. ASSUME NEW j \in C, Unsaved(rec'[j])
        PROVE  j \in Range(P) /\ Statement(rec'[j]) # "none"
    <3>1. j \in Record /\ j \in cache /\ Marked(rec[j])
      BY <1>0, <2>2 DEF Edited
    <3>2. Alike(R[j], rec'[j])
      BY <2>3
    <3>3. Unsaved(R[j])
      BY <2>6, <3>2 DEF Alike, Unsaved
    <3>4. j \in Range(P) /\ Marked(R[j])
      <4>1. CASE j = i
        BY <2>5, <3>1, <3>3, <4>1
      <4>2. CASE j # i
        <5>1. R[j] = rec[j] /\ j # unvalidated
          BY <1>0, <2>2, <2>5, <3>1, <4>2
        <5> QED
          BY <1>0, <2>2, <3>1, <3>3, <5>1 DEF Listed
      <4> QED
        BY <4>1, <4>2
    <3>5. rec'[j].dirty
      BY <2>6, <3>2, <3>4 DEF Alike, Marked, Unsaved
    <3> QED
      BY <2>6, <3>4, <3>5, StatementOfEdit
  <2>7. \/ \A j \in C : j \in Range(P) => Statement(rec'[j]) = "none"
        \/ pending' = P
    BY <2>1 DEF Sends
  <2> QED
    BY <2>3, <2>6, <2>7 DEF Listed
<1>5. CASE \E i, a : i \in Record /\ Executes(i, a)
  BY <1>0, <1>5 DEF Executes, Listed, block
<1>6. CASE Rollback
  BY <1>0, <1>6 DEF Rollback, Listed, block
<1>7. CASE ReceiveBatch
  <2>1. \A i \in cache : Unsaved(rec'[i]) => answer[i] = "none" /\ rec'[i] = rec[i]
    BY <1>0, <1>7, ReceiveBatchFacts
  <2>2. UNCHANGED cache /\ phase = "flush" /\ batch = {}
    BY <1>7 DEF ReceiveBatch
  <2>3. ASSUME NEW j \in cache, Unsaved(rec'[j]) PROVE FALSE
    <3>1. answer[j] = "none" /\ Unsaved(rec[j])
      BY <2>1, <2>3
    <3>2. j \in Range(pending) /\ rec[j].dirty
      BY <1>0, <2>2, <3>1 DEF Listed, Edited, Marked, Unsaved
    <3>3. Statement(rec[j]) # "none"
      BY <3>1, <3>2, StatementOfEdit
    <3> QED
      BY <1>0, <2>2, <3>1, <3>2, <3>3 DEF Batched
  <2> QED
    BY <2>2, <2>3 DEF Listed
<1>8. CASE RefuseBatch
  BY <1>0, <1>8 DEF RefuseBatch, Listed
<1>9. CASE ReceiveQuery
  <2>1. \A i \in cache' : rec'[i].value = rec'[i].initial
    BY <1>0, <1>9, ShownFacts DEF ReceiveQuery, TTable, Spare
  <2> QED
    BY <2>1 DEF Listed, Unsaved
<1>10. CASE SendCommit
  BY <1>0, <1>10 DEF SendCommit, RefuseCommit, Listed, block, table, request, vars
<1>11. CASE RefuseCommit
  BY <1>0, <1>11 DEF SendCommit, RefuseCommit, Listed, block, table, request, vars
<1>12. CASE Synchronize
  <2>1. \A i \in cache : rec'[i].value = rec'[i].initial
    BY <1>0, <1>12, SynchronizeFacts
  <2>2. UNCHANGED cache
    BY <1>12 DEF Synchronize
  <2> QED
    BY <2>1, <2>2 DEF Listed, Unsaved
<1>13. CASE Undo
  <2>1. \A i \in cache' : rec'[i].value = rec'[i].initial
    BY <1>0, <1>13, UndoFacts DEF Inv
  <2> QED
    BY <2>1 DEF Listed, Unsaved
<1>14. CASE UNCHANGED vars
  BY <1>0, <1>14 DEF SendCommit, RefuseCommit, Listed, block, table, request, vars
<1> QED
  BY Effects, <1>1, <1>2, <1>3, <1>4, <1>5, <1>6, <1>7, <1>8, <1>9, <1>10, <1>11,
     <1>12, <1>13, <1>14

LEMMA BatchedStays ==
  ASSUME Inv, [Next]_vars
  PROVE  Batched'
<1>0. Types /\ Spare /\ Phases /\ TBlock /\ TTable /\ Batched /\ TFlow /\ cache \subseteq Record
      /\ Range(pending) \subseteq Record /\ rec \in [Record -> Contents]
      /\ unvalidated \in cache \cup {NoRecord} /\ NoRecord \notin Record
  BY InvTypes, PendingRecords, RecordCycleAssumption DEF Inv, Types, TBlock, Record
<1>1. CASE \E r \in Rows : OtherCommit(r)
  BY <1>0, <1>1 DEF OtherCommit, Batched, block, request
<1>2. CASE \E r \in Rows : NewRecord(r)
  BY <1>0, <1>2 DEF NewRecord, Batched
<1>3. CASE \E i, y : i \in Record /\ Changes(i, y)
  <2>1. PICK i, y : i \in Record /\ Changes(i, y)
    BY <1>3
  <2> QED
    BY <2>1 DEF Changes, Batched
<1>4. CASE \E i, R, C, P, u : \E g \in Goals : Prepared(i, R, C, P, u) /\ Sends(R, C, P, u, g)
  <2>1. PICK i, R, C, P, u : \E g \in Goals : Prepared(i, R, C, P, u) /\ Sends(R, C, P, u, g)
    BY <1>4
  <2>2. phase = "idle"
    BY <2>1 DEF Prepared
  <2>3. \/ phase' \in {"idle", "query", "commit"}
        \/ pending' = P /\ batch' = {j \in Range(P) : Statement(rec'[j]) # "none"}
    BY <2>1, <2>2 DEF Sends, Goals
  <2> QED
    BY <2>3 DEF Batched
<1>5. CASE \E i, a : i \in Record /\ Executes(i, a)
  <2>1. PICK i, a : i \in Record /\ Executes(i, a)
    BY <1>5
  <2>2. /\ batch' = batch \ {i} /\ answer' = [answer EXCEPT ![i] = a] /\ a # "none"
        /\ UNCHANGED <<pending, rec>> /\ phase = "flush" /\ i \in Record
    BY <2>1 DEF Executes, block
  <2>3. answer'[i] # "none" /\ \A j \in Record \ {i} : answer'[j] = answer[j]
    BY <1>0, <2>2 DEF TFlow
  <2> QED
    BY <1>0, <2>2, <2>3 DEF Batched
<1>6. CASE Rollback
  BY <1>6 DEF Rollback, ReceiveQuery, SendCommit, RefuseCommit, Synchronize, Undo, Batched
<1>7. CASE ReceiveBatch
  <2>1. phase' \in Goals
    BY <1>0, <1>7 DEF ReceiveBatch, TFlow, Goals
  <2> QED
    BY <2>1 DEF Batched, Goals
<1>8. CASE RefuseBatch
  BY <1>8 DEF RefuseBatch, Batched
<1>9. CASE ReceiveQuery
  BY <1>9 DEF Rollback, ReceiveQuery, SendCommit, RefuseCommit, Synchronize, Undo, Batched
<1>10. CASE SendCommit
  BY <1>10 DEF Rollback, ReceiveQuery, SendCommit, RefuseCommit, Synchronize, Undo, Batched
<1>11. CASE RefuseCommit
  BY <1>11 DEF Rollback, ReceiveQuery, SendCommit, RefuseCommit, Synchronize, Undo, Batched
<1>12. CASE Synchronize
  BY <1>12 DEF Rollback, ReceiveQuery, SendCommit, RefuseCommit, Synchronize, Undo, Batched
<1>13. CASE Undo
  BY <1>13 DEF Rollback, ReceiveQuery, SendCommit, RefuseCommit, Synchronize, Undo, Batched
<1>14. CASE UNCHANGED vars
  BY <1>0, <1>14 DEF Batched, vars, block, request
<1> QED
  BY Effects, <1>1, <1>2, <1>3, <1>4, <1>5, <1>6, <1>7, <1>8, <1>9, <1>10, <1>11,
     <1>12, <1>13, <1>14

LEMMA Initially == Init => Inv
<1> SUFFICES ASSUME Init PROVE Inv
  OBVIOUS
<1>1. Range(pending) = {} /\ pending \in Seq(Record)
  BY EmptyRange DEF Init
<1>2. \A r \in Rows : <<r,1>> \in Record /\ Row(<<r,1>>) = r
  BY RecordCycleAssumption DEF Record, Row
<1>3. cache \subseteq Record
  BY <1>2 DEF Init
<1>4. \A i \in cache : current[Row(i)] \in Values
  BY <1>2 DEF Init
<1>5. /\ \A i \in Record : rec[i] \in Contents /\ ~rec[i].locked
      /\ \A i \in cache : rec[i].value = rec[i].initial
  <2>1. \A i \in Record : rec[i] = IF i \in cache THEN Fetched(current[Row(i)]) ELSE Blank
    BY DEF Init
  <2>2. ASSUME NEW i \in Record, i \in cache
        PROVE  rec[i] \in Contents /\ ~rec[i].locked /\ rec[i].value = rec[i].initial
    <3>1. PICK v \in Values : v = current[Row(i)]
      BY <1>4, <2>2
    <3>2. rec[i] = Fetched(v)
      BY <2>1, <2>2, <3>1
    <3> QED
      BY <3>2, FetchedFacts
  <2>3. ASSUME NEW i \in Record, i \notin cache PROVE rec[i] \in Contents /\ ~rec[i].locked
    <3>1. rec[i] = Blank
      BY <2>1, <2>3
    <3> QED
      BY <3>1, BlankFacts
  <2> QED
    BY <1>3, <2>2, <2>3
<1>6. rec \in [Record -> Contents]
  BY <1>5 DEF Init
<1>7. TypeOK
  <2>1. TTable
    BY DEF Init, TTable
  <2>2. TBlock
    BY <1>1, <1>3, <1>6 DEF Init, TBlock
  <2>3. TFlow
    BY DEF Init, TFlow, Goals, NoAnswer
  <2> QED
    BY <2>1, <2>2, <2>3, TypeParts DEF Init
<1>8. Spare
  <2>1. \A r \in Rows : <<r,1>> \in Free(r)
    BY <1>1, RecordCycleAssumption DEF Free
  <2> QED
    BY <2>1 DEF Spare, Init
<1>9. Phases /\ Transactions
  BY DEF Phases, Transactions, Init
<1>10. LocksHeld /\ Quiet
  BY <1>1, <1>3, <1>5 DEF LocksHeld, Quiet
<1>11. Wholes /\ Edited /\ Listed
  BY <1>1, <1>5 DEF Wholes, Whole, Edited, Marked, Listed, Unsaved
<1>12. Batched
  BY DEF Batched, Init
<1> QED
  BY <1>7, <1>8, <1>9, <1>10, <1>11, <1>12 DEF Inv

LEMMA Inductive == Inv /\ [Next]_vars => Inv'
<1> SUFFICES ASSUME Inv, [Next]_vars PROVE Inv'
  OBVIOUS
<1>1. TypeOK'
  <2>1. rowlocking' \in LockModes /\ strategy' \in Strategies
    BY TableStays DEF Inv, TypeOK
  <2> QED
    BY <2>1, TableStays, BlockStays, FlowStays, TypeParts DEF TypeOK, TTable, TBlock, TFlow, Goals
<1>2. Edited' /\ Listed'
  BY EditedStays, ListedStays DEF Edited, Listed
<1> QED
  BY <1>1, <1>2, FlowStays, SpareStays, TransactionsStay, LocksHeldStays, QuietStays,
     WholesStay, BatchedStays DEF Inv

LEMMA Invariant == Spec => []Inv
BY Initially, Inductive, PTL DEF Spec

-----------------------------------------------------------------------------
(* What the invariant is for. *)

\* Variables keep their types: a batch is part of the list, an empty content is never
\* taken for a missing row, and the user is at a record of the block.
THEOREM TypeCorrect == Spec => []TypeOK
<1>1. Inv => TypeOK
  BY DEF Inv
<1> QED
  BY <1>1, Invariant, PTL

\* Client and server agree on what is locked, and on whether there is a transaction
\* (Record.locked, Connection.modified), whatever is refused or fails.
THEOREM LocksAreAgreed == Spec => []LocksAgree
<1>1. Inv => LocksAgree
  BY DEF Inv, LocksHeld, Transactions, LocksAgree
<1> QED
  BY <1>1, Invariant, PTL

\* No edit is forgotten, unless the column is a date, whose changes Record.setValue does
\* not notice.
THEOREM NothingIsForgotten == ASSUME ~Dates PROVE Spec => []NothingForgotten
<1>1. Inv => NothingForgotten
  BY DEF Inv, Listed, Unsaved, NothingForgotten
<1> QED
  BY <1>1, Invariant, PTL

\* Only the step of a statement changes a row while a step of the batch is executed.
LEMMA ChangedByStatement ==
  ASSUME [Next]_vars, batch' # batch
  PROVE  current' = current \/ (\E i \in Record : StatementSucceeds(i))
<1>1. ASSUME NEW r \in Rows, OtherCommit(r) \/ NewRecord(r) PROVE FALSE
  BY <1>1 DEF OtherCommit, NewRecord, request
<1>2. ASSUME NEW i \in Record,
             \/ Edit(i) \/ LockAndEdit(i) \/ DeleteRecord(i) \/ LockAndDelete(i)
             \/ RefreshRecord(i)
      PROVE  current' = current
  BY <1>2 DEF Edit, LockAndEdit, DeleteRecord, LockAndDelete, RefreshRecord, table
<1>3. ASSUME NEW i \in Record, AssertionFails(i) \/ RowIsBusy(i) \/ StatementFails(i)
      PROVE  current' = current
  BY <1>3 DEF AssertionFails, RowIsBusy, StatementFails
<1>4. ASSUME \/ LeaveRow \/ \E g \in Goals : Flush(g)
             \/ ReceiveBatch \/ RefuseBatch
      PROVE  current' = current
  BY <1>4 DEF LeaveRow, Flush, ReceiveBatch, RefuseBatch, table
<1>5. ASSUME \/ Rollback \/ ReceiveQuery \/ SendCommit \/ RefuseCommit \/ Synchronize
             \/ Undo \/ UNCHANGED vars
      PROVE  FALSE
  BY <1>5 DEF Rollback, ReceiveQuery, SendCommit, RefuseCommit, Synchronize, Undo, vars, request
<1> QED
  BY Steps, <1>1, <1>2, <1>3, <1>4, <1>5

\* A row that this transaction does not hold is updated or deleted only while it has the
\* values its record shows as fetched: locks and assertions leave no gap, in every
\* interleaving with other sessions (DataSourceWrapper.lock, DatabaseTable.process).
THEOREM NoUpdateIsLost == Spec => NoLostUpdate
<1>1. ASSUME Inv, [Next]_vars, NEW i \in batch \ batch',
             current'[Row(i)] # current[Row(i)],
             Statement(rec[i]) # "insert", rowlocking # "None"
      PROVE  Row(i) \in held \/ current[Row(i)] = rec[i].initial
  <2>1. PICK j \in Record : StatementSucceeds(j)
    BY <1>1, ChangedByStatement
  <2>2. phase = "flush" /\ batch' = batch \ {j}
    BY <2>1 DEF StatementSucceeds, Step
  <2>3. i = j /\ i \in Range(pending) /\ rec[i].locked \in BOOLEAN
    BY <1>1, <2>2, InvTypes DEF Types, TFlow, TBlock, Contents
  <2>4. CASE rec[i].locked
    BY <1>1, <2>2, <2>3, <2>4 DEF Inv, LocksHeld
  <2>5. CASE ~rec[i].locked
    <3>1. Assertion(rec[i], Row(i)) = "ok"
      BY <1>1, <2>1, <2>3, <2>5 DEF StatementSucceeds, Asserted
    <3> QED
      BY <3>1 DEF Assertion
  <2> QED
    BY <2>3, <2>4, <2>5
<1>2. Inv /\ [Next]_vars => 
        \A i \in batch \ batch' :
          /\ current'[Row(i)] # current[Row(i)]
          /\ Statement(rec[i]) # "insert"
          /\ rowlocking # "None"
          => Row(i) \in held \/ current[Row(i)] = rec[i].initial
  BY <1>1
<1> QED
  BY <1>2, Invariant, PTL DEF Spec, NoLostUpdate

-----------------------------------------------------------------------------
(* What commit saves.  The batch is not refused as a whole, and the user does not roll  *)
(* back what is not flushed: both leave records in the list that the block has dropped. *)

Plain == "refused" \notin Faults /\ ~UndoesUnflushed

\* Nothing waits when the block is queried.
Settled == phase \in {"query", "undo"} => pending = <<>>

\* The block shows a row once.
OneObject == \A i, j \in cache : Row(i) = Row(j) => i = j

\* The record of a row that the block shows comes after older ones of the row.
Latest == \A m, n \in 1..Len(pending) :
  m < n /\ Row(pending[m]) = Row(pending[n]) =>
    pending[m] \notin cache /\ pending[m] # pending[n]

\* Steps are executed in the order of the list.
Answered == \A i \in Record : answer[i] # "none" => i \in Range(pending) \ batch

Ordered == \A m, n \in 1..Len(pending) :
  m < n /\ answer[pending[n]] # "none" => pending[m] \notin batch

\* While an older record of its row waits, a record is new.
Superseded == \A i \in cache, j \in Range(pending) :
  Row(i) = Row(j) /\ i # j => rec[i].state \in {"New", "Insert"}

LocksFound ==
  phase \notin {"sync", "undo"} /\ rowlocking # "None" => \A i \in cache : Anchored(i, rec[i])

Tame ==
  ~modified => /\ Range(pending) = {}
               /\ \A i \in cache : rec[i].state \notin {"Inserted", "Updated"}

\* What was flushed is in the table, and nobody else can change it.
InTable(i, v) == current[Row(i)] = v /\ Row(i) \in held

Saved ==
  phase \notin {"sync", "undo"} /\ rowlocking # "None" => \A i \in cache :
    /\ answer[i] = "ok" /\ rec[i].state \notin {"Delete", "Deleted"} => InTable(i, rec[i].value)
    /\ answer[i] # "ok" /\ rec[i].state \in {"Inserted", "Updated"} => InTable(i, rec[i].initial)

SInv ==
  /\ Settled /\ OneObject /\ Latest /\ Answered /\ Ordered /\ Superseded
  /\ LocksFound /\ Tame /\ Saved

LEMMA Places ==
  ASSUME NEW P \in Seq(Record)
  PROVE  /\ Len(P) \in Nat
         /\ \A n \in 1..Len(P) : P[n] \in Range(P)
         /\ \A i \in Range(P) : \E n \in 1..Len(P) : P[n] = i
<1>1. Len(P) \in Nat /\ Range(P) = {P[n] : n \in 1..Len(P)}
  BY RangeEquality, LenProperties
<1> QED
  BY <1>1

LEMMA SettledStays ==
  ASSUME Plain, Inv, SInv, [Next]_vars
  PROVE  Settled'
<1>0. Settled
  BY DEF SInv
<1>1. CASE \E r \in Rows : OtherCommit(r)
  BY <1>0, <1>1 DEF OtherCommit, Settled, block
<1>2. CASE \E r \in Rows : NewRecord(r)
  BY <1>0, <1>2 DEF NewRecord, Settled
<1>3. CASE \E i, y : i \in Record /\ Changes(i, y)
  <2>1. PICK i, y : i \in Record /\ Changes(i, y)
    BY <1>3
  <2> QED
    BY <2>1 DEF Changes, Settled
<1>4. CASE \E i, R, C, P, u : \E g \in Goals : Prepared(i, R, C, P, u) /\ Sends(R, C, P, u, g)
  <2>1. PICK i, R, C, P, u : \E g \in Goals : Prepared(i, R, C, P, u) /\ Sends(R, C, P, u, g)
    BY <1>4
  <2> QED
    BY <2>1 DEF Prepared, Sends, Settled
<1>5. CASE \E i, a : i \in Record /\ Executes(i, a)
  <2>1. PICK i, a : i \in Record /\ Executes(i, a)
    BY <1>5
  <2> QED
    BY <2>1 DEF Executes, Settled
<1>6. CASE Rollback
  BY <1>0, <1>6 DEF Rollback, Settled, block, Plain
<1>7. CASE ReceiveBatch
  BY <1>0, <1>7 DEF ReceiveBatch, ReceiveQuery, SendCommit, Synchronize, Undo, Settled, vars, block
<1>8. CASE RefuseBatch
  BY <1>8 DEF RefuseBatch, Plain
<1>9. CASE ReceiveQuery
  BY <1>0, <1>9 DEF ReceiveBatch, ReceiveQuery, SendCommit, Synchronize, Undo, Settled, vars, block
<1>10. CASE SendCommit
  BY <1>0, <1>10 DEF ReceiveBatch, ReceiveQuery, SendCommit, Synchronize, Undo, Settled, vars, block
<1>11. CASE RefuseCommit
  BY <1>11 DEF RefuseCommit, Plain
<1>12. CASE Synchronize
  BY <1>0, <1>12 DEF ReceiveBatch, ReceiveQuery, SendCommit, Synchronize, Undo, Settled, vars, block
<1>13. CASE Undo
  BY <1>0, <1>13 DEF ReceiveBatch, ReceiveQuery, SendCommit, Synchronize, Undo, Settled, vars, block
<1>14. CASE UNCHANGED vars
  BY <1>0, <1>14 DEF ReceiveBatch, ReceiveQuery, SendCommit, Synchronize, Undo, Settled, vars, block
<1> QED
  BY Effects, <1>1, <1>2, <1>3, <1>4, <1>5, <1>6, <1>7, <1>8, <1>9, <1>10, <1>11,
     <1>12, <1>13, <1>14

LEMMA OneObjectStays ==
  ASSUME Plain, Inv, SInv, [Next]_vars
  PROVE  OneObject'
<1>0. /\ Types /\ Phases /\ LocksHeld /\ Wholes /\ Spare /\ cache \subseteq Record
      /\ Range(pending) \subseteq Record /\ pending \in Seq(Record) /\ rec \in [Record -> Contents]
      /\ unvalidated \in cache \cup {NoRecord} /\ NoRecord \notin Record /\ held \subseteq Rows
      /\ current \in [Rows -> Values \cup {Gone}] /\ batch \subseteq Range(pending)
      /\ \A i \in Record : NoAnswer[i] = "none"
      /\ answer \in [Record -> {"none", "ok", "changed", "gone", "busy", "error"}] /\ OneObject
  BY InvTypes, PendingRecords, RecordCycleAssumption
     DEF Inv, SInv, Types, TBlock, TTable, TFlow, Record, NoAnswer
<1>1. CASE \E r \in Rows : OtherCommit(r)
  BY <1>0, <1>1 DEF OtherCommit, OneObject, block
<1>2. CASE \E r \in Rows : NewRecord(r)
  <2>1. PICK i \in Record : /\ i \notin Range(pending) /\ cache' = cache \cup {i}
                            /\ \A j \in cache : Row(j) # Row(i)
                            /\ rec' = [rec EXCEPT ![i] = Blank] /\ modified' = TRUE
    BY <1>0, <1>2, NewRecordFacts
  <2>2. /\ rec'[i] = Blank /\ \A j \in Record \ {i} : rec'[j] = rec[j]
        /\ UNCHANGED <<rowlocking, current, held, pending, phase, batch, answer>> /\ phase = "idle"
    BY <1>0, <1>2, <2>1 DEF NewRecord, table, request, settings
  <2> QED
    BY <1>0, <2>1 DEF OneObject
<1>3. CASE \E i, y : i \in Record /\ Changes(i, y)
  <2>1. PICK i, y : i \in Record /\ Changes(i, y)
    BY <1>3
  <2> QED
    BY <1>0, <2>1 DEF Changes, OneObject
<1>4. CASE \E i, R, C, P, u : \E g \in Goals : Prepared(i, R, C, P, u) /\ Sends(R, C, P, u, g)
  <2>1. PICK i, R, C, P, u : \E g \in Goals : Prepared(i, R, C, P, u) /\ Sends(R, C, P, u, g)
    BY <1>4
  <2>2. /\ phase = "idle" /\ \A j \in Record \ {i} : R[j] = rec[j]
        /\ i # NoRecord => i \in cache
        /\ C \subseteq cache /\ Range(P) \subseteq Range(pending) \cup {i}
        /\ UNCHANGED <<rowlocking, current, answer>> /\ held \subseteq held'
        /\ i \in C => Kept(rec[i], R[i]) /\ (Anchored(i, rec[i]) => Anchored(i, R[i]))
        /\ P \in {pending, Queue(pending, i)} /\ P \in Seq(Record)
        /\ ~modified' => ~modified /\ Range(P) = Range(pending)
    BY <2>1 DEF Prepared, Locks, settings
  <2>3. /\ cache' = C /\ Range(pending') \subseteq Range(P)
        /\ \A j \in C : Alike(R[j], rec'[j])
    BY <2>1 DEF Sends
  <2> QED
    BY <1>0, <2>2, <2>3 DEF OneObject
<1>5. CASE \E i, a : i \in Record /\ Executes(i, a)
  BY <1>0, <1>5 DEF Executes, OneObject, block
<1>6. CASE Rollback
  BY <1>0, <1>6 DEF Rollback, RefuseBatch, ReceiveQuery, SendCommit, RefuseCommit, Synchronize, Undo, ReceiveBatch, OneObject, vars, block
<1>7. CASE ReceiveBatch
  BY <1>0, <1>7 DEF Rollback, RefuseBatch, ReceiveQuery, SendCommit, RefuseCommit, Synchronize, Undo, ReceiveBatch, OneObject, vars, block
<1>8. CASE RefuseBatch
  BY <1>8 DEF RefuseBatch, Plain
<1>9. CASE ReceiveQuery
  BY <1>0, <1>9, ShownFacts DEF ReceiveQuery, Spare, OneObject
<1>10. CASE SendCommit
  BY <1>0, <1>10 DEF Rollback, RefuseBatch, ReceiveQuery, SendCommit, RefuseCommit, Synchronize, Undo, ReceiveBatch, OneObject, vars, block
<1>11. CASE RefuseCommit
  BY <1>11 DEF RefuseCommit, Plain
<1>12. CASE Synchronize
  BY <1>0, <1>12 DEF Rollback, RefuseBatch, ReceiveQuery, SendCommit, RefuseCommit, Synchronize, Undo, ReceiveBatch, OneObject, vars, block
<1>13. CASE Undo
  BY <1>0, <1>13, UndoFacts DEF Inv, OneObject
<1>14. CASE UNCHANGED vars
  BY <1>0, <1>14 DEF Rollback, RefuseBatch, ReceiveQuery, SendCommit, RefuseCommit, Synchronize, Undo, ReceiveBatch, OneObject, vars, block
<1> QED
  BY Effects, <1>1, <1>2, <1>3, <1>4, <1>5, <1>6, <1>7, <1>8, <1>9, <1>10, <1>11,
     <1>12, <1>13, <1>14

LEMMA LatestKept ==
  ASSUME Latest, pending \in Seq(Record), pending' = pending,
         cache' \cap Range(pending) \subseteq cache
  PROVE  Latest'
BY Places DEF Latest

LEMMA EmptyLatest ==
  ASSUME pending' = <<>>
  PROVE  Latest' /\ Ordered'
<1>1. Len(pending') = 0
  BY EmptySeq
<1> QED
  BY <1>1 DEF Latest, Ordered

LEMMA QueuedLatest ==
  ASSUME Latest, OneObject, pending \in Seq(Record), cache \subseteq Record,
         NEW i, i = NoRecord \/ i \in cache, NoRecord \notin Record,
         pending' \in {pending, Queue(pending, i)}, Range(pending') \subseteq Record,
         cache' \subseteq cache
  PROVE  Latest'
<1>1. CASE pending' = pending
  BY <1>1, LatestKept
<1>2. CASE pending' # pending
  <2>1. i \in cache /\ i \notin Range(pending) /\ pending' = Append(pending, i)
    <3>1. i \notin Range(pending) /\ pending' = Append(pending, i)
      BY <1>2 DEF Queue
    <3>2. i \in Range(pending')
      <4>1. Len(pending) \in Nat /\ Append(pending, i)[Len(pending) + 1] = i
            /\ Len(Append(pending, i)) = Len(pending) + 1
            /\ DOMAIN Append(pending, i) = 1..Len(Append(pending, i))
        OBVIOUS
      <4> QED
        BY <3>1, <4>1 DEF Range
    <3> QED
      BY <3>1, <3>2
  <2>2. /\ Len(pending) \in Nat /\ Len(pending') = Len(pending) + 1
        /\ \A n \in 1..Len(pending) : pending'[n] = pending[n]
        /\ pending'[Len(pending) + 1] = i
    BY <2>1, AppendProperties, LenProperties
  <2>3. ASSUME NEW m \in 1..Len(pending'), NEW n \in 1..Len(pending'),
               m < n, Row(pending'[m]) = Row(pending'[n])
        PROVE  pending'[m] \notin cache' /\ pending'[m] # pending'[n]
    <3>1. m \in 1..Len(pending) /\ pending'[m] = pending[m] /\ pending[m] \in Range(pending)
      BY <2>2, <2>3, Places
    <3>2. CASE n = Len(pending) + 1
      BY <2>1, <2>2, <2>3, <3>1, <3>2 DEF OneObject
    <3>3. CASE n # Len(pending) + 1
      <4>1. n \in 1..Len(pending) /\ pending'[n] = pending[n]
        BY <2>2, <3>3
      <4> QED
        BY <2>3, <3>1, <4>1 DEF Latest
    <3> QED
      BY <3>2, <3>3
  <2> QED
    BY <2>3 DEF Latest
<1> QED
  BY <1>1, <1>2

LEMMA LatestStays ==
  ASSUME Plain, Inv, SInv, [Next]_vars
  PROVE  Latest'
<1>0. /\ Types /\ Phases /\ LocksHeld /\ Wholes /\ Spare /\ cache \subseteq Record
      /\ Range(pending) \subseteq Record /\ pending \in Seq(Record) /\ rec \in [Record -> Contents]
      /\ unvalidated \in cache \cup {NoRecord} /\ NoRecord \notin Record /\ held \subseteq Rows
      /\ current \in [Rows -> Values \cup {Gone}] /\ batch \subseteq Range(pending)
      /\ \A i \in Record : NoAnswer[i] = "none"
      /\ answer \in [Record -> {"none", "ok", "changed", "gone", "busy", "error"}] /\ Latest /\ OneObject /\ Settled
  BY InvTypes, PendingRecords, RecordCycleAssumption
     DEF Inv, SInv, Types, TBlock, TTable, TFlow, Record, NoAnswer
<1>1. CASE \E r \in Rows : OtherCommit(r)
  BY <1>0, <1>1, LatestKept DEF OtherCommit, block
<1>2. CASE \E r \in Rows : NewRecord(r)
  <2>1. PICK i \in Record : /\ i \notin Range(pending) /\ cache' = cache \cup {i}
                            /\ \A j \in cache : Row(j) # Row(i)
                            /\ rec' = [rec EXCEPT ![i] = Blank] /\ modified' = TRUE
    BY <1>0, <1>2, NewRecordFacts
  <2>2. /\ rec'[i] = Blank /\ \A j \in Record \ {i} : rec'[j] = rec[j]
        /\ UNCHANGED <<rowlocking, current, held, pending, phase, batch, answer>> /\ phase = "idle"
    BY <1>0, <1>2, <2>1 DEF NewRecord, table, request, settings
  <2> QED
    BY <1>0, <2>1, <2>2, LatestKept
<1>3. CASE \E i, y : i \in Record /\ Changes(i, y)
  <2>1. PICK i, y : i \in Record /\ Changes(i, y)
    BY <1>3
  <2> QED
    BY <1>0, <2>1, LatestKept DEF Changes
<1>4. CASE \E i, R, C, P, u : \E g \in Goals : Prepared(i, R, C, P, u) /\ Sends(R, C, P, u, g)
  <2>1. PICK i, R, C, P, u : \E g \in Goals : Prepared(i, R, C, P, u) /\ Sends(R, C, P, u, g)
    BY <1>4
  <2>2. /\ phase = "idle" /\ \A j \in Record \ {i} : R[j] = rec[j]
        /\ i # NoRecord => i \in cache
        /\ C \subseteq cache /\ Range(P) \subseteq Range(pending) \cup {i}
        /\ UNCHANGED <<rowlocking, current, answer>> /\ held \subseteq held'
        /\ i \in C => Kept(rec[i], R[i]) /\ (Anchored(i, rec[i]) => Anchored(i, R[i]))
        /\ P \in {pending, Queue(pending, i)} /\ P \in Seq(Record)
        /\ ~modified' => ~modified /\ Range(P) = Range(pending)
    BY <2>1 DEF Prepared, Locks, settings
  <2>3. /\ cache' = C /\ Range(pending') \subseteq Range(P)
        /\ \A j \in C : Alike(R[j], rec'[j])
    BY <2>1 DEF Sends
  <2>4. pending' = <<>> \/ pending' = P
    BY <2>1 DEF Sends
  <2>5. CASE pending' = <<>>
    BY <2>5, EmptyLatest
  <2>6. CASE pending' = P
    <3>1. Range(P) \subseteq Record
      BY <2>2, PendingRecords
    <3> QED
      BY <1>0, <2>2, <2>3, <2>6, <3>1, QueuedLatest
  <2> QED
    BY <2>4, <2>5, <2>6
<1>5. CASE \E i, a : i \in Record /\ Executes(i, a)
  BY <1>0, <1>5, LatestKept DEF Executes, block
<1>6. CASE Rollback
  BY <1>0, <1>6, LatestKept DEF Rollback, RefuseBatch, ReceiveQuery, SendCommit, RefuseCommit, Synchronize, Undo, vars, block
<1>7. CASE ReceiveBatch
  BY <1>7, EmptyLatest DEF ReceiveBatch
<1>8. CASE RefuseBatch
  BY <1>8 DEF RefuseBatch, Plain
<1>9. CASE ReceiveQuery
  BY <1>0, <1>9, EmptyLatest DEF ReceiveQuery, Settled
<1>10. CASE SendCommit
  BY <1>0, <1>10, LatestKept DEF Rollback, RefuseBatch, ReceiveQuery, SendCommit, RefuseCommit, Synchronize, Undo, vars, block
<1>11. CASE RefuseCommit
  BY <1>11 DEF RefuseCommit, Plain
<1>12. CASE Synchronize
  BY <1>0, <1>12, LatestKept DEF Rollback, RefuseBatch, ReceiveQuery, SendCommit, RefuseCommit, Synchronize, Undo, vars, block
<1>13. CASE Undo
  BY <1>0, <1>13, EmptyLatest DEF Undo, Settled
<1>14. CASE UNCHANGED vars
  BY <1>0, <1>14, LatestKept DEF Rollback, RefuseBatch, ReceiveQuery, SendCommit, RefuseCommit, Synchronize, Undo, vars, block
<1> QED
  BY Effects, <1>1, <1>2, <1>3, <1>4, <1>5, <1>6, <1>7, <1>8, <1>9, <1>10, <1>11,
     <1>12, <1>13, <1>14

LEMMA AnsweredStays ==
  ASSUME Plain, Inv, SInv, [Next]_vars
  PROVE  Answered'
<1>0. /\ Types /\ Phases /\ LocksHeld /\ Wholes /\ Spare /\ cache \subseteq Record
      /\ Range(pending) \subseteq Record /\ pending \in Seq(Record) /\ rec \in [Record -> Contents]
      /\ unvalidated \in cache \cup {NoRecord} /\ NoRecord \notin Record /\ held \subseteq Rows
      /\ current \in [Rows -> Values \cup {Gone}] /\ batch \subseteq Range(pending)
      /\ \A i \in Record : NoAnswer[i] = "none"
      /\ answer \in [Record -> {"none", "ok", "changed", "gone", "busy", "error"}] /\ Answered
  BY InvTypes, PendingRecords, RecordCycleAssumption
     DEF Inv, SInv, Types, TBlock, TTable, TFlow, Record, NoAnswer
<1>1. CASE \E r \in Rows : OtherCommit(r)
  BY <1>0, <1>1 DEF OtherCommit, Answered, block, request
<1>2. CASE \E r \in Rows : NewRecord(r)
  BY <1>0, <1>2 DEF NewRecord, Answered, request
<1>3. CASE \E i, y : i \in Record /\ Changes(i, y)
  <2>1. PICK i, y : i \in Record /\ Changes(i, y)
    BY <1>3
  <2> QED
    BY <1>0, <2>1 DEF Changes, Answered, request
<1>4. CASE \E i, R, C, P, u : \E g \in Goals : Prepared(i, R, C, P, u) /\ Sends(R, C, P, u, g)
  <2>1. PICK i, R, C, P, u : \E g \in Goals : Prepared(i, R, C, P, u) /\ Sends(R, C, P, u, g)
    BY <1>4
  <2>2. /\ phase = "idle" /\ \A j \in Record \ {i} : R[j] = rec[j]
        /\ i # NoRecord => i \in cache
        /\ C \subseteq cache /\ Range(P) \subseteq Range(pending) \cup {i}
        /\ UNCHANGED <<rowlocking, current, answer>> /\ held \subseteq held'
        /\ i \in C => Kept(rec[i], R[i]) /\ (Anchored(i, rec[i]) => Anchored(i, R[i]))
        /\ P \in {pending, Queue(pending, i)} /\ P \in Seq(Record)
        /\ ~modified' => ~modified /\ Range(P) = Range(pending)
    BY <2>1 DEF Prepared, Locks, settings
  <2>3. /\ cache' = C /\ Range(pending') \subseteq Range(P)
        /\ \A j \in C : Alike(R[j], rec'[j])
    BY <2>1 DEF Sends
  <2> QED
    BY <1>0, <2>2 DEF Answered, Phases
<1>5. CASE \E i, a : i \in Record /\ Executes(i, a)
  <2>1. PICK i, a : i \in Record /\ Executes(i, a)
    BY <1>5
  <2>2. /\ phase = "flush" /\ i \in batch /\ i \in Range(pending) /\ Turn(i)
        /\ a \in {"ok", "changed", "gone", "busy", "error"}
        /\ batch' = batch \ {i} /\ answer' = [answer EXCEPT ![i] = a]
        /\ UNCHANGED <<rowlocking, rec, cache, pending, modified, phase>> /\ held \subseteq held'
        /\ \A r \in Rows \ {Row(i)} : current'[r] = current[r]
        /\ a # "ok" => current' = current
    BY <1>0, <2>1 DEF Executes, block, settings
  <2>3. answer'[i] = a /\ \A j \in Record \ {i} : answer'[j] = answer[j]
    BY <1>0, <2>2
  <2> QED
    BY <1>0, <2>2, <2>3 DEF Answered
<1>6. CASE Rollback
  BY <1>0, <1>6 DEF Rollback, RefuseBatch, ReceiveQuery, SendCommit, RefuseCommit, Synchronize, Undo, Answered, vars, block, request
<1>7. CASE ReceiveBatch
  BY <1>0, <1>7 DEF ReceiveBatch, Answered
<1>8. CASE RefuseBatch
  BY <1>8 DEF RefuseBatch, Plain
<1>9. CASE ReceiveQuery
  BY <1>0, <1>9 DEF Rollback, RefuseBatch, ReceiveQuery, SendCommit, RefuseCommit, Synchronize, Undo, Answered, vars, block, request
<1>10. CASE SendCommit
  BY <1>0, <1>10 DEF Rollback, RefuseBatch, ReceiveQuery, SendCommit, RefuseCommit, Synchronize, Undo, Answered, vars, block, request
<1>11. CASE RefuseCommit
  BY <1>11 DEF RefuseCommit, Plain
<1>12. CASE Synchronize
  BY <1>0, <1>12 DEF Rollback, RefuseBatch, ReceiveQuery, SendCommit, RefuseCommit, Synchronize, Undo, Answered, vars, block, request
<1>13. CASE Undo
  BY <1>0, <1>13 DEF Rollback, RefuseBatch, ReceiveQuery, SendCommit, RefuseCommit, Synchronize, Undo, Answered, vars, block, request
<1>14. CASE UNCHANGED vars
  BY <1>0, <1>14 DEF Rollback, RefuseBatch, ReceiveQuery, SendCommit, RefuseCommit, Synchronize, Undo, Answered, vars, block, request
<1> QED
  BY Effects, <1>1, <1>2, <1>3, <1>4, <1>5, <1>6, <1>7, <1>8, <1>9, <1>10, <1>11,
     <1>12, <1>13, <1>14

LEMMA OrderedStays ==
  ASSUME Plain, Inv, SInv, [Next]_vars
  PROVE  Ordered'
<1>0. /\ Types /\ Phases /\ LocksHeld /\ Wholes /\ Spare /\ cache \subseteq Record
      /\ Range(pending) \subseteq Record /\ pending \in Seq(Record) /\ rec \in [Record -> Contents]
      /\ unvalidated \in cache \cup {NoRecord} /\ NoRecord \notin Record /\ held \subseteq Rows
      /\ current \in [Rows -> Values \cup {Gone}] /\ batch \subseteq Range(pending)
      /\ \A i \in Record : NoAnswer[i] = "none"
      /\ answer \in [Record -> {"none", "ok", "changed", "gone", "busy", "error"}] /\ Ordered /\ Latest
  BY InvTypes, PendingRecords, RecordCycleAssumption
     DEF Inv, SInv, Types, TBlock, TTable, TFlow, Record, NoAnswer
<1>1. CASE \E r \in Rows : OtherCommit(r)
  BY <1>0, <1>1 DEF OtherCommit, Ordered, block, request
<1>2. CASE \E r \in Rows : NewRecord(r)
  BY <1>0, <1>2 DEF NewRecord, Ordered, request
<1>3. CASE \E i, y : i \in Record /\ Changes(i, y)
  <2>1. PICK i, y : i \in Record /\ Changes(i, y)
    BY <1>3
  <2> QED
    BY <1>0, <2>1 DEF Changes, Ordered, request
<1>4. CASE \E i, R, C, P, u : \E g \in Goals : Prepared(i, R, C, P, u) /\ Sends(R, C, P, u, g)
  <2>1. PICK i, R, C, P, u : \E g \in Goals : Prepared(i, R, C, P, u) /\ Sends(R, C, P, u, g)
    BY <1>4
  <2>2. /\ phase = "idle" /\ \A j \in Record \ {i} : R[j] = rec[j]
        /\ i # NoRecord => i \in cache
        /\ C \subseteq cache /\ Range(P) \subseteq Range(pending) \cup {i}
        /\ UNCHANGED <<rowlocking, current, answer>> /\ held \subseteq held'
        /\ i \in C => Kept(rec[i], R[i]) /\ (Anchored(i, rec[i]) => Anchored(i, R[i]))
        /\ P \in {pending, Queue(pending, i)} /\ P \in Seq(Record)
        /\ ~modified' => ~modified /\ Range(P) = Range(pending)
    BY <2>1 DEF Prepared, Locks, settings
  <2>3. /\ cache' = C /\ Range(pending') \subseteq Range(P)
        /\ \A j \in C : Alike(R[j], rec'[j])
    BY <2>1 DEF Sends
  <2>4. pending' \in Seq(Record)
    BY <2>1 DEF Sends
  <2>5. \A n \in 1..Len(pending') : pending'[n] \in Record
    BY <2>4, Places, PendingRecords
  <2>6. answer' = NoAnswer
    BY <1>0, <2>2 DEF Phases
  <2> QED
    BY <1>0, <2>5, <2>6 DEF Ordered
<1>5. CASE \E i, a : i \in Record /\ Executes(i, a)
  <2>1. PICK i, a : i \in Record /\ Executes(i, a)
    BY <1>5
  <2>2. /\ phase = "flush" /\ i \in batch /\ i \in Range(pending) /\ Turn(i)
        /\ a \in {"ok", "changed", "gone", "busy", "error"}
        /\ batch' = batch \ {i} /\ answer' = [answer EXCEPT ![i] = a]
        /\ UNCHANGED <<rowlocking, rec, cache, pending, modified, phase>> /\ held \subseteq held'
        /\ \A r \in Rows \ {Row(i)} : current'[r] = current[r]
        /\ a # "ok" => current' = current
    BY <1>0, <2>1 DEF Executes, block, settings
  <2>3. answer'[i] = a /\ \A j \in Record \ {i} : answer'[j] = answer[j]
    BY <1>0, <2>2
  <2>4. PICK k \in 1..Len(pending) :
          pending[k] = i /\ \A m \in 1..(k - 1) : pending[m] \notin batch
    BY <2>2 DEF Turn
  <2>5. ASSUME NEW m \in 1..Len(pending), NEW n \in 1..Len(pending),
               m < n, answer'[pending[n]] # "none"
        PROVE  pending[m] \notin batch'
    <3>0. Len(pending) \in Nat /\ pending[n] \in Record
      BY <1>0, Places
    <3>1. CASE pending[n] = i
      <4>1. n = k
        <5>1. ~(n < k) /\ ~(k < n)
          BY <1>0, <2>4, <3>1 DEF Latest
        <5> QED
          BY <3>0, <5>1
      <4> QED
        BY <2>2, <2>4, <2>5, <3>0, <4>1
    <3>2. CASE pending[n] # i
      BY <1>0, <2>2, <2>3, <2>5, <3>0, <3>2 DEF Ordered
    <3> QED
      BY <3>1, <3>2
  <2> QED
    BY <2>2, <2>5 DEF Ordered
<1>6. CASE Rollback
  BY <1>0, <1>6 DEF Rollback, RefuseBatch, ReceiveQuery, SendCommit, RefuseCommit, Synchronize, Undo, Ordered, vars, block, request
<1>7. CASE ReceiveBatch
  BY <1>7, EmptyLatest DEF ReceiveBatch
<1>8. CASE RefuseBatch
  BY <1>8 DEF RefuseBatch, Plain
<1>9. CASE ReceiveQuery
  BY <1>0, <1>9 DEF Rollback, RefuseBatch, ReceiveQuery, SendCommit, RefuseCommit, Synchronize, Undo, Ordered, vars, block, request
<1>10. CASE SendCommit
  BY <1>0, <1>10 DEF Rollback, RefuseBatch, ReceiveQuery, SendCommit, RefuseCommit, Synchronize, Undo, Ordered, vars, block, request
<1>11. CASE RefuseCommit
  BY <1>11 DEF RefuseCommit, Plain
<1>12. CASE Synchronize
  BY <1>0, <1>12 DEF Rollback, RefuseBatch, ReceiveQuery, SendCommit, RefuseCommit, Synchronize, Undo, Ordered, vars, block, request
<1>13. CASE Undo
  BY <1>0, <1>13 DEF Rollback, RefuseBatch, ReceiveQuery, SendCommit, RefuseCommit, Synchronize, Undo, Ordered, vars, block, request
<1>14. CASE UNCHANGED vars
  BY <1>0, <1>14 DEF Rollback, RefuseBatch, ReceiveQuery, SendCommit, RefuseCommit, Synchronize, Undo, Ordered, vars, block, request
<1> QED
  BY Effects, <1>1, <1>2, <1>3, <1>4, <1>5, <1>6, <1>7, <1>8, <1>9, <1>10, <1>11,
     <1>12, <1>13, <1>14

LEMMA SupersededStays ==
  ASSUME Plain, Inv, SInv, [Next]_vars
  PROVE  Superseded'
<1>0. /\ Types /\ Phases /\ LocksHeld /\ Wholes /\ Spare /\ cache \subseteq Record
      /\ Range(pending) \subseteq Record /\ pending \in Seq(Record) /\ rec \in [Record -> Contents]
      /\ unvalidated \in cache \cup {NoRecord} /\ NoRecord \notin Record /\ held \subseteq Rows
      /\ current \in [Rows -> Values \cup {Gone}] /\ batch \subseteq Range(pending)
      /\ \A i \in Record : NoAnswer[i] = "none"
      /\ answer \in [Record -> {"none", "ok", "changed", "gone", "busy", "error"}] /\ Superseded /\ OneObject /\ Settled
  BY InvTypes, PendingRecords, RecordCycleAssumption
     DEF Inv, SInv, Types, TBlock, TTable, TFlow, Record, NoAnswer
<1>1. CASE \E r \in Rows : OtherCommit(r)
  BY <1>0, <1>1 DEF OtherCommit, Superseded, block
<1>2. CASE \E r \in Rows : NewRecord(r)
  <2>1. PICK i \in Record : /\ i \notin Range(pending) /\ cache' = cache \cup {i}
                            /\ \A j \in cache : Row(j) # Row(i)
                            /\ rec' = [rec EXCEPT ![i] = Blank] /\ modified' = TRUE
    BY <1>0, <1>2, NewRecordFacts
  <2>2. /\ rec'[i] = Blank /\ \A j \in Record \ {i} : rec'[j] = rec[j]
        /\ UNCHANGED <<rowlocking, current, held, pending, phase, batch, answer>> /\ phase = "idle"
    BY <1>0, <1>2, <2>1 DEF NewRecord, table, request, settings
  <2> QED
    BY <1>0, <2>1, <2>2, BlankFacts DEF Superseded
<1>3. CASE \E i, y : i \in Record /\ Changes(i, y)
  <2>1. PICK i, y : i \in Record /\ Changes(i, y)
    BY <1>3
  <2>2. /\ rec'[i] = y /\ \A j \in Record \ {i} : rec'[j] = rec[j]
        /\ UNCHANGED <<rowlocking, current, cache, pending, phase, batch, answer>>
        /\ phase = "idle" /\ i \in cache /\ held \subseteq held'
        /\ Kept(rec[i], y) /\ (Anchored(i, rec[i]) => Anchored(i, y))
        /\ ~modified' => ~modified
    BY <1>0, <2>1 DEF Changes, Locks, request, settings
  <2> QED
    BY <1>0, <2>2 DEF Superseded, Kept
<1>4. CASE \E i, R, C, P, u : \E g \in Goals : Prepared(i, R, C, P, u) /\ Sends(R, C, P, u, g)
  <2>1. PICK i, R, C, P, u : \E g \in Goals : Prepared(i, R, C, P, u) /\ Sends(R, C, P, u, g)
    BY <1>4
  <2>2. /\ phase = "idle" /\ \A j \in Record \ {i} : R[j] = rec[j]
        /\ i # NoRecord => i \in cache
        /\ C \subseteq cache /\ Range(P) \subseteq Range(pending) \cup {i}
        /\ UNCHANGED <<rowlocking, current, answer>> /\ held \subseteq held'
        /\ i \in C => Kept(rec[i], R[i]) /\ (Anchored(i, rec[i]) => Anchored(i, R[i]))
        /\ P \in {pending, Queue(pending, i)} /\ P \in Seq(Record)
        /\ ~modified' => ~modified /\ Range(P) = Range(pending)
    BY <2>1 DEF Prepared, Locks, settings
  <2>3. /\ cache' = C /\ Range(pending') \subseteq Range(P)
        /\ \A j \in C : Alike(R[j], rec'[j])
    BY <2>1 DEF Sends
  <2>4. ASSUME NEW k \in C, NEW j \in Range(pending'), Row(k) = Row(j), k # j
        PROVE  rec'[k].state \in {"New", "Insert"}
    <3>1. k \in cache /\ k \in Record /\ Alike(R[k], rec'[k])
      BY <1>0, <2>2, <2>3
    <3>2. j \in Range(pending) \/ j = i
      BY <2>2, <2>3
    <3>3. j \in Range(pending)
      <4>1. CASE j = i /\ i \in cache
        BY <1>0, <2>4, <3>1, <4>1 DEF OneObject
      <4>2. CASE j = i /\ i \notin cache
        <5>1. Range(pending') \subseteq Record
          BY <2>1, PendingRecords DEF Sends
        <5> QED
          BY <1>0, <2>2, <4>2, <5>1
      <4> QED
        BY <3>2, <4>1, <4>2
    <3>4. rec[k].state \in {"New", "Insert"}
      BY <1>0, <2>4, <3>1, <3>3 DEF Superseded
    <3>5. R[k].state \in {"New", "Insert"}
      <4>1. CASE k = i
        BY <2>2, <3>4, <4>1 DEF Kept
      <4>2. CASE k # i
        BY <2>2, <3>1, <3>4, <4>2
      <4> QED
        BY <4>1, <4>2
    <3> QED
      BY <3>1, <3>5 DEF Alike
  <2> QED
    BY <2>3, <2>4 DEF Superseded
<1>5. CASE \E i, a : i \in Record /\ Executes(i, a)
  BY <1>0, <1>5 DEF Executes, Superseded, block
<1>6. CASE Rollback
  BY <1>0, <1>6 DEF Rollback, RefuseBatch, ReceiveQuery, SendCommit, RefuseCommit, Synchronize, Undo, Superseded, vars, block
<1>7. CASE ReceiveBatch
  BY <1>7, EmptyRange DEF ReceiveBatch, Superseded
<1>8. CASE RefuseBatch
  BY <1>8 DEF RefuseBatch, Plain
<1>9. CASE ReceiveQuery
  BY <1>0, <1>9, EmptyRange DEF ReceiveQuery, Settled, Superseded
<1>10. CASE SendCommit
  BY <1>0, <1>10 DEF Rollback, RefuseBatch, ReceiveQuery, SendCommit, RefuseCommit, Synchronize, Undo, Superseded, vars, block
<1>11. CASE RefuseCommit
  BY <1>11 DEF RefuseCommit, Plain
<1>12. CASE Synchronize
  BY <1>0, <1>12, EmptyRange DEF Synchronize, Phases, Superseded
<1>13. CASE Undo
  BY <1>0, <1>13, EmptyRange DEF Undo, Settled, Superseded
<1>14. CASE UNCHANGED vars
  BY <1>0, <1>14 DEF Rollback, RefuseBatch, ReceiveQuery, SendCommit, RefuseCommit, Synchronize, Undo, Superseded, vars, block
<1> QED
  BY Effects, <1>1, <1>2, <1>3, <1>4, <1>5, <1>6, <1>7, <1>8, <1>9, <1>10, <1>11,
     <1>12, <1>13, <1>14

LEMMA LocksFoundStays ==
  ASSUME Plain, Inv, SInv, [Next]_vars
  PROVE  LocksFound'
<1>0. /\ Types /\ Phases /\ LocksHeld /\ Wholes /\ Spare /\ cache \subseteq Record
      /\ Range(pending) \subseteq Record /\ pending \in Seq(Record) /\ rec \in [Record -> Contents]
      /\ unvalidated \in cache \cup {NoRecord} /\ NoRecord \notin Record /\ held \subseteq Rows
      /\ current \in [Rows -> Values \cup {Gone}] /\ batch \subseteq Range(pending)
      /\ \A i \in Record : NoAnswer[i] = "none"
      /\ answer \in [Record -> {"none", "ok", "changed", "gone", "busy", "error"}] /\ LocksFound /\ Superseded
  BY InvTypes, PendingRecords, RecordCycleAssumption
     DEF Inv, SInv, Types, TBlock, TTable, TFlow, Record, NoAnswer
<1>1. CASE \E r \in Rows : OtherCommit(r)
  <2>1. PICK r \in Rows : OtherCommit(r)
    BY <1>1
  <2>2. /\ r \notin held /\ UNCHANGED <<rowlocking, rec, cache, phase>>
        /\ \A s \in Rows \ {r} : current'[s] = current[s]
    BY <1>0, <2>1 DEF OtherCommit, block, settings
  <2>3. ASSUME phase \notin {"sync", "undo"}, NEW k \in cache, rec[k].locked
        PROVE  current'[Row(k)] = current[Row(k)]
    BY <1>0, <2>2, <2>3, RowsOfRecords DEF LocksHeld
  <2> QED
    BY <2>2, <2>3, <1>0 DEF LocksFound, Anchored, Found
<1>2. CASE \E r \in Rows : NewRecord(r)
  <2>1. PICK i \in Record : /\ i \notin Range(pending) /\ cache' = cache \cup {i}
                            /\ \A j \in cache : Row(j) # Row(i)
                            /\ rec' = [rec EXCEPT ![i] = Blank] /\ modified' = TRUE
    BY <1>0, <1>2, NewRecordFacts
  <2>2. /\ rec'[i] = Blank /\ \A j \in Record \ {i} : rec'[j] = rec[j]
        /\ UNCHANGED <<rowlocking, current, held, pending, phase, batch, answer>> /\ phase = "idle"
    BY <1>0, <1>2, <2>1 DEF NewRecord, table, request, settings
  <2> QED
    BY <1>0, <2>1, <2>2, BlankFacts DEF LocksFound, Anchored, Found
<1>3. CASE \E i, y : i \in Record /\ Changes(i, y)
  <2>1. PICK i, y : i \in Record /\ Changes(i, y)
    BY <1>3
  <2>2. /\ rec'[i] = y /\ \A j \in Record \ {i} : rec'[j] = rec[j]
        /\ UNCHANGED <<rowlocking, current, cache, pending, phase, batch, answer>>
        /\ phase = "idle" /\ i \in cache /\ held \subseteq held'
        /\ Kept(rec[i], y) /\ (Anchored(i, rec[i]) => Anchored(i, y))
        /\ ~modified' => ~modified
    BY <1>0, <2>1 DEF Changes, Locks, request, settings
  <2> QED
    BY <1>0, <2>2 DEF LocksFound, Anchored, Found
<1>4. CASE \E i, R, C, P, u : \E g \in Goals : Prepared(i, R, C, P, u) /\ Sends(R, C, P, u, g)
  <2>1. PICK i, R, C, P, u : \E g \in Goals : Prepared(i, R, C, P, u) /\ Sends(R, C, P, u, g)
    BY <1>4
  <2>2. /\ phase = "idle" /\ \A j \in Record \ {i} : R[j] = rec[j]
        /\ i # NoRecord => i \in cache
        /\ C \subseteq cache /\ Range(P) \subseteq Range(pending) \cup {i}
        /\ UNCHANGED <<rowlocking, current, answer>> /\ held \subseteq held'
        /\ i \in C => Kept(rec[i], R[i]) /\ (Anchored(i, rec[i]) => Anchored(i, R[i]))
        /\ P \in {pending, Queue(pending, i)} /\ P \in Seq(Record)
        /\ ~modified' => ~modified /\ Range(P) = Range(pending)
    BY <2>1 DEF Prepared, Locks, settings
  <2>3. /\ cache' = C /\ Range(pending') \subseteq Range(P)
        /\ \A j \in C : Alike(R[j], rec'[j])
    BY <2>1 DEF Sends
  <2>4. ASSUME rowlocking # "None", NEW k \in C PROVE Anchored(k, rec'[k])
    <3>1. k \in cache /\ k \in Record /\ Alike(R[k], rec'[k])
      BY <1>0, <2>2, <2>3
    <3>2. Anchored(k, rec[k])
      BY <1>0, <2>2, <2>4, <3>1 DEF LocksFound
    <3>3. Anchored(k, R[k])
      <4>1. CASE k = i
        BY <2>2, <3>2, <4>1
      <4>2. CASE k # i
        BY <2>2, <3>1, <3>2, <4>2
      <4> QED
        BY <4>1, <4>2
    <3> QED
      BY <3>1, <3>3 DEF Alike, Anchored, Found
  <2> QED
    BY <2>2, <2>3, <2>4 DEF LocksFound, Anchored, Found
<1>5. CASE \E i, a : i \in Record /\ Executes(i, a)
  <2>1. PICK i, a : i \in Record /\ Executes(i, a)
    BY <1>5
  <2>2. /\ phase = "flush" /\ i \in batch /\ i \in Range(pending) /\ Turn(i)
        /\ a \in {"ok", "changed", "gone", "busy", "error"}
        /\ batch' = batch \ {i} /\ answer' = [answer EXCEPT ![i] = a]
        /\ UNCHANGED <<rowlocking, rec, cache, pending, modified, phase>> /\ held \subseteq held'
        /\ \A r \in Rows \ {Row(i)} : current'[r] = current[r]
        /\ a # "ok" => current' = current
    BY <1>0, <2>1 DEF Executes, block, settings
  <2>3. answer'[i] = a /\ \A j \in Record \ {i} : answer'[j] = answer[j]
    BY <1>0, <2>2
  <2>4. ASSUME rowlocking # "None", NEW k \in cache, rec[k].locked,
               rec[k].state \notin {"Delete", "Deleted"}
        PROVE  rec[k].state \notin {"New", "Insert"} /\ Found(rec[k], Row(k))'
    <3>1. Anchored(k, rec[k]) /\ k \in Record /\ Row(k) \in Rows
      BY <1>0, <2>2, <2>4, RowsOfRecords DEF LocksFound
    <3>2. CASE Row(k) # Row(i)
      BY <2>2, <2>4, <3>1, <3>2 DEF Anchored, Found
    <3>3. CASE Row(k) = Row(i) /\ k # i
      BY <1>0, <2>2, <2>4, <3>1, <3>3 DEF Anchored, Superseded
    <3>4. CASE k = i
      <4>1. rec[i].value # Gone
        BY <1>0, <3>1, <3>4, RecordCycleAssumption DEF Contents
      <4>2. current'[Row(i)] = rec[i].value \/ current' = current
        BY <2>1, <2>2, <2>4, <3>1, <3>4 DEF Executes
      <4> QED
        BY <2>2, <2>4, <3>1, <3>4, <4>1, <4>2 DEF Anchored, Found
    <3> QED
      BY <3>2, <3>3, <3>4
  <2> QED
    BY <2>2, <2>4 DEF LocksFound, Anchored
<1>6. CASE Rollback
  BY <1>6 DEF Rollback, LocksFound
<1>7. CASE ReceiveBatch
  <2>1. \A k \in cache : Whole(rec[k]) /\ Anchored(k, rec[k]) => Anchored(k, rec'[k])
    BY <1>0, <1>7, ReceiveBatchFacts
  <2>2. UNCHANGED <<rowlocking, current, cache>> /\ phase = "flush"
    BY <1>7 DEF ReceiveBatch, table, settings
  <2> QED
    BY <1>0, <2>1, <2>2 DEF LocksFound, Wholes, Anchored, Found
<1>8. CASE RefuseBatch
  BY <1>8 DEF RefuseBatch, Plain
<1>9. CASE ReceiveQuery
  <2>1. \A i \in cache' : ~rec'[i].locked
    BY <1>0, <1>9, ShownFacts DEF ReceiveQuery, Spare
  <2> QED
    BY <2>1 DEF LocksFound, Anchored
<1>10. CASE SendCommit
  BY <1>10 DEF SendCommit, LocksFound
<1>11. CASE RefuseCommit
  BY <1>11 DEF RefuseCommit, Plain
<1>12. CASE Synchronize
  <2>1. \A i \in cache : ~rec'[i].locked
    BY <1>0, <1>12, SynchronizeFacts
  <2>2. cache' = cache
    BY <1>12 DEF Synchronize
  <2> QED
    BY <2>1, <2>2 DEF LocksFound, Anchored
<1>13. CASE Undo
  <2>1. \A i \in cache' : ~rec'[i].locked
    BY <1>0, <1>13, UndoFacts DEF Inv
  <2> QED
    BY <2>1 DEF LocksFound, Anchored
<1>14. CASE UNCHANGED vars
  BY <1>0, <1>14 DEF LocksFound, Anchored, Found, vars, block, table, settings
<1> QED
  BY Effects, <1>1, <1>2, <1>3, <1>4, <1>5, <1>6, <1>7, <1>8, <1>9, <1>10, <1>11,
     <1>12, <1>13, <1>14

LEMMA TameStays ==
  ASSUME Plain, Inv, SInv, [Next]_vars
  PROVE  Tame'
<1>0. /\ Types /\ Phases /\ LocksHeld /\ Wholes /\ Spare /\ cache \subseteq Record
      /\ Range(pending) \subseteq Record /\ pending \in Seq(Record) /\ rec \in [Record -> Contents]
      /\ unvalidated \in cache \cup {NoRecord} /\ NoRecord \notin Record /\ held \subseteq Rows
      /\ current \in [Rows -> Values \cup {Gone}] /\ batch \subseteq Range(pending)
      /\ \A i \in Record : NoAnswer[i] = "none"
      /\ answer \in [Record -> {"none", "ok", "changed", "gone", "busy", "error"}] /\ Tame /\ Settled /\ Answered
  BY InvTypes, PendingRecords, RecordCycleAssumption
     DEF Inv, SInv, Types, TBlock, TTable, TFlow, Record, NoAnswer
<1>1. CASE \E r \in Rows : OtherCommit(r)
  BY <1>0, <1>1 DEF OtherCommit, Tame, block
<1>2. CASE \E r \in Rows : NewRecord(r)
  BY <1>0, <1>2 DEF NewRecord, Tame
<1>3. CASE \E i, y : i \in Record /\ Changes(i, y)
  <2>1. PICK i, y : i \in Record /\ Changes(i, y)
    BY <1>3
  <2>2. /\ rec'[i] = y /\ \A j \in Record \ {i} : rec'[j] = rec[j]
        /\ UNCHANGED <<rowlocking, current, cache, pending, phase, batch, answer>>
        /\ phase = "idle" /\ i \in cache /\ held \subseteq held'
        /\ Kept(rec[i], y) /\ (Anchored(i, rec[i]) => Anchored(i, y))
        /\ ~modified' => ~modified
    BY <1>0, <2>1 DEF Changes, Locks, request, settings
  <2> QED
    BY <1>0, <2>2 DEF Tame, Kept
<1>4. CASE \E i, R, C, P, u : \E g \in Goals : Prepared(i, R, C, P, u) /\ Sends(R, C, P, u, g)
  <2>1. PICK i, R, C, P, u : \E g \in Goals : Prepared(i, R, C, P, u) /\ Sends(R, C, P, u, g)
    BY <1>4
  <2>2. /\ phase = "idle" /\ \A j \in Record \ {i} : R[j] = rec[j]
        /\ i # NoRecord => i \in cache
        /\ C \subseteq cache /\ Range(P) \subseteq Range(pending) \cup {i}
        /\ UNCHANGED <<rowlocking, current, answer>> /\ held \subseteq held'
        /\ i \in C => Kept(rec[i], R[i]) /\ (Anchored(i, rec[i]) => Anchored(i, R[i]))
        /\ P \in {pending, Queue(pending, i)} /\ P \in Seq(Record)
        /\ ~modified' => ~modified /\ Range(P) = Range(pending)
    BY <2>1 DEF Prepared, Locks, settings
  <2>3. /\ cache' = C /\ Range(pending') \subseteq Range(P)
        /\ \A j \in C : Alike(R[j], rec'[j])
    BY <2>1 DEF Sends
  <2>4. ASSUME ~modified', NEW k \in C PROVE rec'[k].state \notin {"Inserted", "Updated"}
    <3>1. k \in cache /\ k \in Record /\ Alike(R[k], rec'[k])
      BY <1>0, <2>2, <2>3
    <3>2. rec[k].state \notin {"Inserted", "Updated"}
      BY <1>0, <2>2, <2>4, <3>1 DEF Tame
    <3>3. R[k].state \notin {"Inserted", "Updated"}
      <4>1. CASE k = i
        BY <2>2, <3>2, <4>1 DEF Kept
      <4>2. CASE k # i
        BY <2>2, <3>1, <3>2, <4>2
      <4> QED
        BY <4>1, <4>2
    <3> QED
      BY <3>1, <3>3 DEF Alike
  <2> QED
    BY <1>0, <2>2, <2>3, <2>4 DEF Tame
<1>5. CASE \E i, a : i \in Record /\ Executes(i, a)
  <2>1. PICK i, a : i \in Record /\ Executes(i, a)
    BY <1>5
  <2>2. /\ phase = "flush" /\ i \in batch /\ i \in Range(pending) /\ Turn(i)
        /\ a \in {"ok", "changed", "gone", "busy", "error"}
        /\ batch' = batch \ {i} /\ answer' = [answer EXCEPT ![i] = a]
        /\ UNCHANGED <<rowlocking, rec, cache, pending, modified, phase>> /\ held \subseteq held'
        /\ \A r \in Rows \ {Row(i)} : current'[r] = current[r]
        /\ a # "ok" => current' = current
    BY <1>0, <2>1 DEF Executes, block, settings
  <2>3. answer'[i] = a /\ \A j \in Record \ {i} : answer'[j] = answer[j]
    BY <1>0, <2>2
  <2> QED
    BY <1>0, <2>2 DEF Tame
<1>6. CASE Rollback
  BY <1>0, <1>6 DEF Rollback, SendCommit, Tame, vars, block
<1>7. CASE ReceiveBatch
  <2>1. \A k \in cache : answer[k] # "ok" => Kept(rec[k], rec'[k])
    BY <1>0, <1>7, ReceiveBatchFacts
  <2>2. Range(pending') = {} /\ UNCHANGED <<cache, modified>>
    BY <1>7, EmptyRange DEF ReceiveBatch
  <2>3. ~modified => \A k \in cache : answer[k] # "ok"
    BY <1>0 DEF Tame, Answered
  <2> QED
    BY <1>0, <2>1, <2>2, <2>3 DEF Tame, Kept
<1>8. CASE RefuseBatch
  BY <1>8 DEF RefuseBatch, Plain
<1>9. CASE ReceiveQuery
  <2>1. \A i \in cache' : rec'[i].state = "Consistent"
    BY <1>0, <1>9, ShownFacts DEF ReceiveQuery, Spare
  <2>2. Range(pending') = {}
    BY <1>0, <1>9, EmptyRange DEF ReceiveQuery, Settled
  <2> QED
    BY <2>1, <2>2 DEF Tame
<1>10. CASE SendCommit
  BY <1>0, <1>10 DEF Rollback, SendCommit, Tame, vars, block
<1>11. CASE RefuseCommit
  BY <1>11 DEF RefuseCommit, Plain
<1>12. CASE Synchronize
  <2>1. \A i \in cache : rec'[i].state = "Consistent"
    BY <1>0, <1>12, SynchronizeFacts
  <2>2. cache' = cache /\ Range(pending') = {}
    BY <1>0, <1>12, EmptyRange DEF Synchronize, Phases
  <2> QED
    BY <2>1, <2>2 DEF Tame
<1>13. CASE Undo
  <2>1. \/ \A i \in cache' : rec'[i].state = "Consistent"
        \/ ~modified /\ cache' = cache /\ \A i \in cache : rec'[i].state = rec[i].state
    BY <1>0, <1>13, UndoFacts DEF Inv
  <2>2. Range(pending') = {}
    BY <1>0, <1>13, EmptyRange DEF Undo, Settled
  <2> QED
    BY <1>0, <2>1, <2>2 DEF Tame
<1>14. CASE UNCHANGED vars
  BY <1>0, <1>14 DEF Rollback, SendCommit, Tame, vars, block
<1> QED
  BY Effects, <1>1, <1>2, <1>3, <1>4, <1>5, <1>6, <1>7, <1>8, <1>9, <1>10, <1>11,
     <1>12, <1>13, <1>14

LEMMA SavedStays ==
  ASSUME Plain, Inv, SInv, [Next]_vars
  PROVE  Saved'
<1>0. /\ Types /\ Phases /\ LocksHeld /\ Wholes /\ Spare /\ cache \subseteq Record
      /\ Range(pending) \subseteq Record /\ pending \in Seq(Record) /\ rec \in [Record -> Contents]
      /\ unvalidated \in cache \cup {NoRecord} /\ NoRecord \notin Record /\ held \subseteq Rows
      /\ current \in [Rows -> Values \cup {Gone}] /\ batch \subseteq Range(pending)
      /\ \A i \in Record : NoAnswer[i] = "none"
      /\ answer \in [Record -> {"none", "ok", "changed", "gone", "busy", "error"}] /\ Saved /\ LocksFound /\ Superseded /\ OneObject /\ Ordered /\ Answered
      /\ Tame /\ Latest
  BY InvTypes, PendingRecords, RecordCycleAssumption
     DEF Inv, SInv, Types, TBlock, TTable, TFlow, Record, NoAnswer
<1>1. CASE \E r \in Rows : OtherCommit(r)
  <2>1. PICK r \in Rows : OtherCommit(r)
    BY <1>1
  <2>2. /\ r \notin held /\ UNCHANGED <<rowlocking, held, rec, cache, phase, answer>>
        /\ \A s \in Rows \ {r} : current'[s] = current[s]
    BY <1>0, <2>1 DEF OtherCommit, block, settings, request
  <2>3. \A k \in cache : \A v : InTable(k, v) => InTable(k, v)'
    BY <1>0, <2>2 DEF InTable
  <2> QED
    BY <2>2, <2>3, <1>0 DEF Saved
<1>2. CASE \E r \in Rows : NewRecord(r)
  <2>1. PICK i \in Record : /\ i \notin Range(pending) /\ cache' = cache \cup {i}
                            /\ \A j \in cache : Row(j) # Row(i)
                            /\ rec' = [rec EXCEPT ![i] = Blank] /\ modified' = TRUE
    BY <1>0, <1>2, NewRecordFacts
  <2>2. /\ rec'[i] = Blank /\ \A j \in Record \ {i} : rec'[j] = rec[j]
        /\ UNCHANGED <<rowlocking, current, held, pending, phase, batch, answer>> /\ phase = "idle"
    BY <1>0, <1>2, <2>1 DEF NewRecord, table, request, settings
  <2>3. answer = NoAnswer /\ \A k, v : InTable(k, v) => InTable(k, v)'
    BY <1>0, <2>2 DEF Phases, InTable
  <2> QED
    BY <1>0, <2>1, <2>2, <2>3, BlankFacts DEF Saved
<1>3. CASE \E i, y : i \in Record /\ Changes(i, y)
  <2>1. PICK i, y : i \in Record /\ Changes(i, y)
    BY <1>3
  <2>2. /\ rec'[i] = y /\ \A j \in Record \ {i} : rec'[j] = rec[j]
        /\ UNCHANGED <<rowlocking, current, cache, pending, phase, batch, answer>>
        /\ phase = "idle" /\ i \in cache /\ held \subseteq held'
        /\ Kept(rec[i], y) /\ (Anchored(i, rec[i]) => Anchored(i, y))
        /\ ~modified' => ~modified
    BY <1>0, <2>1 DEF Changes, Locks, request, settings
  <2>3. answer = NoAnswer /\ \A k, v : InTable(k, v) => InTable(k, v)'
    BY <1>0, <2>2 DEF Phases, InTable
  <2> QED
    BY <1>0, <2>2, <2>3 DEF Saved, Kept
<1>4. CASE \E i, R, C, P, u : \E g \in Goals : Prepared(i, R, C, P, u) /\ Sends(R, C, P, u, g)
  <2>1. PICK i, R, C, P, u : \E g \in Goals : Prepared(i, R, C, P, u) /\ Sends(R, C, P, u, g)
    BY <1>4
  <2>2. /\ phase = "idle" /\ \A j \in Record \ {i} : R[j] = rec[j]
        /\ i # NoRecord => i \in cache
        /\ C \subseteq cache /\ Range(P) \subseteq Range(pending) \cup {i}
        /\ UNCHANGED <<rowlocking, current, answer>> /\ held \subseteq held'
        /\ i \in C => Kept(rec[i], R[i]) /\ (Anchored(i, rec[i]) => Anchored(i, R[i]))
        /\ P \in {pending, Queue(pending, i)} /\ P \in Seq(Record)
        /\ ~modified' => ~modified /\ Range(P) = Range(pending)
    BY <2>1 DEF Prepared, Locks, settings
  <2>3. /\ cache' = C /\ Range(pending') \subseteq Range(P)
        /\ \A j \in C : Alike(R[j], rec'[j])
    BY <2>1 DEF Sends
  <2>4. answer = NoAnswer /\ \A k, v : InTable(k, v) => InTable(k, v)'
    BY <1>0, <2>2 DEF Phases, InTable
  <2>5. ASSUME rowlocking # "None", NEW k \in C, rec'[k].state \in {"Inserted", "Updated"}
        PROVE  InTable(k, rec'[k].initial)
    <3>1. k \in cache /\ k \in Record /\ Alike(R[k], rec'[k])
      BY <1>0, <2>2, <2>3
    <3>2. R[k].state \in {"Inserted", "Updated"} /\ R[k].initial = rec'[k].initial
      BY <2>5, <3>1 DEF Alike
    <3>3. rec[k].state \in {"Inserted", "Updated"} /\ rec[k].initial = rec'[k].initial
      <4>1. CASE k = i
        BY <2>2, <3>2, <4>1 DEF Kept
      <4>2. CASE k # i
        BY <2>2, <3>1, <3>2, <4>2
      <4> QED
        BY <4>1, <4>2
    <3> QED
      BY <1>0, <2>2, <2>4, <2>5, <3>1, <3>3 DEF Saved
  <2> QED
    BY <1>0, <2>2, <2>3, <2>4, <2>5 DEF Saved
<1>5. CASE \E i, a : i \in Record /\ Executes(i, a)
  <2>1. PICK i, a : i \in Record /\ Executes(i, a)
    BY <1>5
  <2>2. /\ phase = "flush" /\ i \in batch /\ i \in Range(pending) /\ Turn(i)
        /\ a \in {"ok", "changed", "gone", "busy", "error"}
        /\ batch' = batch \ {i} /\ answer' = [answer EXCEPT ![i] = a]
        /\ UNCHANGED <<rowlocking, rec, cache, pending, modified, phase>> /\ held \subseteq held'
        /\ \A r \in Rows \ {Row(i)} : current'[r] = current[r]
        /\ a # "ok" => current' = current
    BY <1>0, <2>1 DEF Executes, block, settings
  <2>3. answer'[i] = a /\ \A j \in Record \ {i} : answer'[j] = answer[j]
    BY <1>0, <2>2
  <2>4. ASSUME rowlocking # "None", NEW k \in cache
        PROVE  /\ answer'[k] = "ok" /\ rec[k].state \notin {"Delete", "Deleted"} =>
                    InTable(k, rec[k].value)'
               /\ answer'[k] # "ok" /\ rec[k].state \in {"Inserted", "Updated"} =>
                    InTable(k, rec[k].initial)'
    <3>1. k \in Record /\ Row(k) \in Rows /\ Anchored(k, rec[k])
      BY <1>0, <2>2, <2>4, RowsOfRecords DEF LocksFound
    <3>2. /\ answer[k] = "ok" /\ rec[k].state \notin {"Delete", "Deleted"} => InTable(k, rec[k].value)
          /\ answer[k] # "ok" /\ rec[k].state \in {"Inserted", "Updated"} => InTable(k, rec[k].initial)
      BY <1>0, <2>2, <2>4 DEF Saved
    <3>3. CASE k = i
      <4>1. answer[i] = "none"
        BY <1>0, <2>2 DEF Answered
      <4>2. CASE a = "ok"
        <5>1. rec[i].state \notin {"Delete", "Deleted"} =>
                current'[Row(i)] = rec[i].value /\ Row(i) \in held'
          BY <2>1, <2>4, <3>1, <3>3, <4>2 DEF Executes
        <5> QED
          BY <2>2, <2>3, <3>3, <4>2, <5>1 DEF InTable
      <4>3. CASE a # "ok"
        BY <2>2, <2>3, <3>2, <3>3, <4>1, <4>3 DEF InTable
      <4> QED
        BY <4>2, <4>3
    <3>4. CASE Row(k) # Row(i)
      BY <2>2, <2>3, <3>1, <3>2, <3>4 DEF InTable
    <3>5. CASE Row(k) = Row(i) /\ k # i
      <4>1. rec[k].state \in {"New", "Insert"} /\ i \notin cache
        BY <1>0, <2>2, <3>5 DEF Superseded, OneObject
      <4>2. answer[k] = "none"
        <5>1. SUFFICES ASSUME answer[k] # "none" PROVE FALSE
          OBVIOUS
        <5>2. PICK n \in 1..Len(pending) : pending[n] = k
          BY <1>0, <3>1, <5>1, Places DEF Answered
        <5>3. PICK m \in 1..Len(pending) : pending[m] = i
          BY <1>0, <2>2, Places
        <5>4. Len(pending) \in Nat /\ m # n
          BY <1>0, <3>5, <5>2, <5>3, Places
        <5>5. CASE m < n
          BY <1>0, <2>2, <5>1, <5>2, <5>3, <5>5 DEF Ordered
        <5>6. CASE n < m
          BY <1>0, <2>4, <3>5, <5>2, <5>3, <5>6 DEF Latest
        <5> QED
          BY <5>4, <5>5, <5>6
      <4> QED
        BY <2>3, <3>1, <3>5, <4>1, <4>2
    <3> QED
      BY <3>3, <3>4, <3>5
  <2> QED
    BY <2>2, <2>4 DEF Saved
<1>6. CASE Rollback
  BY <1>6 DEF Rollback, Saved
<1>7. CASE ReceiveBatch
  <2>1. \A k \in cache : IF answer[k] = "ok"
                 THEN rec'[k].state \in {"Inserted", "Updated"} =>
                        rec[k].state \notin {"Delete", "Deleted"} /\ rec'[k].initial = rec[k].value
                 ELSE Kept(rec[k], rec'[k])
    BY <1>0, <1>7, ReceiveBatchFacts
  <2>2. UNCHANGED <<rowlocking, current, held, cache>> /\ phase = "flush" /\ answer' = NoAnswer
    BY <1>7 DEF ReceiveBatch, table, settings
  <2>3. \A k, v : InTable(k, v) => InTable(k, v)'
    BY <2>2 DEF InTable
  <2> QED
    BY <1>0, <2>1, <2>2, <2>3 DEF Saved, Kept
<1>8. CASE RefuseBatch
  BY <1>8 DEF RefuseBatch, Plain
<1>9. CASE ReceiveQuery
  <2>1. \A i \in cache' : rec'[i].state = "Consistent"
    BY <1>0, <1>9, ShownFacts DEF ReceiveQuery, Spare
  <2>2. answer' = NoAnswer /\ cache' \subseteq Record
    BY <1>0, <1>9, FreshFacts DEF ReceiveQuery, ShowQuery, Phases, request, Spare
  <2> QED
    BY <1>0, <2>1, <2>2 DEF Saved
<1>10. CASE SendCommit
  BY <1>10 DEF SendCommit, Saved
<1>11. CASE RefuseCommit
  BY <1>11 DEF RefuseCommit, Plain
<1>12. CASE Synchronize
  <2>1. \A i \in cache : rec'[i].state = "Consistent"
    BY <1>0, <1>12, SynchronizeFacts
  <2>2. answer' = NoAnswer /\ cache' = cache
    BY <1>0, <1>12 DEF Synchronize, Phases, request
  <2> QED
    BY <1>0, <2>1, <2>2 DEF Saved
<1>13. CASE Undo
  <2>1. \/ \A i \in cache' : rec'[i].state = "Consistent"
        \/ ~modified /\ cache' = cache /\ \A i \in cache : rec'[i].state = rec[i].state
    BY <1>0, <1>13, UndoFacts DEF Inv
  <2>2. answer' = NoAnswer /\ cache' \subseteq Record
    BY <1>0, <1>13, UndoFacts DEF Inv, Undo, Phases, request
  <2> QED
    BY <1>0, <2>1, <2>2 DEF Saved, Tame
<1>14. CASE UNCHANGED vars
  BY <1>0, <1>14 DEF Saved, InTable, vars, block, table, settings, request
<1> QED
  BY Effects, <1>1, <1>2, <1>3, <1>4, <1>5, <1>6, <1>7, <1>8, <1>9, <1>10, <1>11,
     <1>12, <1>13, <1>14

LEMMA SavedInitially == Init => SInv
<1> SUFFICES ASSUME Init PROVE SInv
  OBVIOUS
<1>1. Inv /\ pending = <<>> /\ phase = "idle" /\ answer = NoAnswer
  BY Initially DEF Init
<1>2. Range(pending) = {} /\ Len(pending) = 0 /\ cache \subseteq Record
  BY <1>1, EmptyRange, EmptySeq, InvTypes DEF Types, TBlock
<1>3. OneObject
  <2>1. \A i \in cache : i = <<Row(i), 1>>
    BY DEF Init, Row
  <2> QED
    BY <2>1 DEF OneObject
<1>4. \A i \in cache : rec[i].state = "Consistent" /\ ~rec[i].locked
  <2>1. SUFFICES ASSUME NEW i \in cache PROVE rec[i].state = "Consistent" /\ ~rec[i].locked
    OBVIOUS
  <2>2. i \in Record /\ rec[i] = Fetched(current[Row(i)])
    BY <1>2 DEF Init
  <2>3. current[Row(i)] \in Values
    BY <2>2 DEF Init, Row
  <2> QED
    BY <2>2, <2>3, FetchedFacts
<1>5. Settled /\ Latest /\ Answered /\ Ordered /\ Superseded
  BY <1>1, <1>2 DEF Settled, Latest, Answered, Ordered, Superseded, NoAnswer
<1>6. LocksFound /\ Tame /\ Saved
  BY <1>1, <1>2, <1>4 DEF LocksFound, Anchored, Tame, Saved, NoAnswer
<1> QED
  BY <1>3, <1>5, <1>6 DEF SInv

LEMMA SavedInvariant == ASSUME Plain PROVE Spec => [](Inv /\ SInv)
<1>1. Init => Inv /\ SInv
  BY Initially, SavedInitially
<1>2. Inv /\ SInv /\ [Next]_vars => (Inv /\ SInv)'
  BY Inductive, SettledStays, OneObjectStays, LatestStays, AnsweredStays, OrderedStays,
     SupersededStays, LocksFoundStays, TameStays, SavedStays DEF SInv
<1> QED
  BY <1>1, <1>2, PTL DEF Spec

\* A commit saves every record that was flushed or edited and has not failed: the batch is
\* not refused, unflushed changes are not rolled back and the column is not a date
\* (FormBacking.commit, DatabaseTable.flush).
THEOREM EverythingIsSaved == ASSUME Plain, ~Dates PROVE Spec => CommitSaves
<1>1. ASSUME Inv, SInv, [Next]_vars, phase = "commit", phase' = "sync", NEW i \in cache,
             ~rec[i].failed, rec[i].state \notin {"Delete", "Deleted"}, rowlocking # "None",
             rec[i].state \in {"Inserted", "Updated"} \/ rec[i].value # rec[i].initial
      PROVE  committed'[Row(i)] = rec[i].value
  <2>0. /\ Types /\ Phases /\ i \in Record
        /\ rec[i].value = rec[i].initial
    <3>1. Types /\ Phases /\ i \in Record /\ Range(pending) = {} /\ unvalidated = NoRecord
      BY <1>1, InvTypes, EmptyRange DEF Types, TBlock, Phases
    <3>2. i # unvalidated
      BY <3>1, RecordCycleAssumption DEF Record
    <3> QED
      BY <1>1, <3>1, <3>2 DEF Inv, Listed, Unsaved
  <2>1. InTable(i, rec[i].value)
    <3>1. answer[i] = "none"
      BY <1>1, <2>0 DEF Phases, NoAnswer
    <3> QED
      BY <1>1, <2>0, <3>1 DEF SInv, Saved
  <2>2. transaction
    BY <1>1, <2>1 DEF InTable, Inv, Transactions
  <2>3. SendCommit
    <3>1. \A r \in Rows : ~OtherCommit(r) /\ ~NewRecord(r)
      BY <1>1 DEF OtherCommit, NewRecord
    <3>2. ~\E j, y : j \in Record /\ Changes(j, y)
      BY <1>1 DEF Changes
    <3>3. ~\E j, R, C, P, u : \E g \in Goals : Prepared(j, R, C, P, u) /\ Sends(R, C, P, u, g)
      BY <1>1 DEF Prepared
    <3>4. ~\E j, a : j \in Record /\ Executes(j, a)
      BY <1>1 DEF Executes
    <3>5. ~(\/ Rollback \/ ReceiveBatch \/ RefuseBatch \/ ReceiveQuery
            \/ RefuseCommit \/ Synchronize \/ Undo \/ UNCHANGED vars)
      BY <1>1 DEF Rollback, ReceiveBatch, RefuseBatch, ReceiveQuery, RefuseCommit,
                  Synchronize, Undo, vars
    <3> QED
      BY <1>1, Effects, <3>1, <3>2, <3>3, <3>4, <3>5
  <2> QED
    BY <2>1, <2>2, <2>3 DEF SendCommit, InTable
<1>2. Inv /\ SInv /\ [Next]_vars =>
        (phase = "commit" /\ phase' = "sync" =>
           \A i \in cache :
             /\ ~rec[i].failed
             /\ rec[i].state \notin {"Delete", "Deleted"}
             /\ rowlocking # "None"
             /\ rec[i].state \in {"Inserted", "Updated"} \/ rec[i].value # rec[i].initial
             => committed'[Row(i)] = rec[i].value)
  BY <1>1
<1> QED
  BY <1>2, SavedInvariant, PTL DEF Spec, CommitSaves

=============================================================================
