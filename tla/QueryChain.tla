----------------------------- MODULE QueryChain -----------------------------
(***************************************************************************)
(* Queries in the blocks of a form: executeQuery and enterQuery of the     *)
(* form, the navigation in a master that queries its details again, and    *)
(* the query manager that lets a newer query overtake an older one         *)
(* (core/src/model/Form.ts, Block.ts, relations/, view/Block.ts).          *)
(*                                                                         *)
(* Everything runs in one thread.  An event of the user is a stack of      *)
(* calls that stops where the code awaits a trigger, the timer or the data *)
(* source; between two stops nothing else runs.  A step of "details" is    *)
(* no stop: it goes on before any other event (Microtask).                 *)
(*                                                                         *)
(* A row is known by the value its detail relation asked for and by the    *)
(* value of each of its own fields that details are linked by.             *)
(***************************************************************************)
EXTENDS Integers, Sequences, SequencesExt, FiniteSets

CONSTANTS
  Blocks,       \* the blocks of the form
  Details,      \* Details[b]: the detail blocks of b, in the order of their relations
  Orphans,      \* details that may be queried without their master (orphanQueries)
  Field,        \* Field[d]: the field of the master that detail d is linked by
  Rows,         \* rows on the screen, for every block
  Found,        \* how many rows a query may find
  Events,       \* events of the user under way at a time
  MaxChains,    \* bound on the chains that are started
  Failing,      \* may triggers refuse and queries fail?
  Users         \* are users "patient", or do their events overtake queries ("hasty")?

VARIABLES
  qid,          \* QueryManager.qid$
  running,      \* QueryManager.running$: the chain that displays rows; 0: none
  stuck,        \* the blocks that a query has left as running for ever (history)
  slot,         \* the blocks in whose name an event transaction runs
  view,         \* what each block shows, and where it is
  stack,        \* the calls of each event, innermost first; empty: it has ended
  user          \* how the user works with the form

vars == <<qid, running, stuck, slot, view, stack, user>>

Fields == {Field[d] : d \in UNION {Range(Details[b]) : b \in Blocks}}
Masters(d) == {b \in Blocks : d \in Range(Details[b])}

ASSUME DetailsAssumption == Details \in [Blocks -> Seq(Blocks)]
ASSUME OneMasterAssumption == \A d \in Blocks : Cardinality(Masters(d)) <= 1
ASSUME FieldAssumption ==
  \A b \in Blocks : \A d, e \in Range(Details[b]) : d # e => Field[d] # Field[e]

\* A row that answers the value "of": the n-th.
Record(of, n) == [of |-> of, link |-> [f \in Fields |-> Append(of, n)]]
None == Record(<<-1>>, -1)
Inserted == Record(<<-2>>, -2)

\* "row" is row$ + 1, "pos" is record$ + 1: 0 stands for -1 in both.
Blank == [i \in 1..Rows |-> None]
NoRow == [shown |-> Blank, row |-> 0, pos |-> 0, cache |-> <<>>, filter |-> <<>>, qbe |-> FALSE]

Init ==
  /\ qid = 0
  /\ running = [b \in Blocks |-> 0]
  /\ stuck = {}
  /\ slot = {}
  /\ view = [b \in Blocks |-> NoRow]
  /\ stack = [e \in Events |-> <<>>]
  /\ user \in Users

-----------------------------------------------------------------------------
(* Blocks and what they show. *)

\* getAllDetailBlocks(true): the details first, the block last.
WithDetails[b \in Blocks] ==
  FlattenSeq([i \in 1..Len(Details[b]) |-> WithDetails[Details[b][i]]]) \o <<b>>

\* enterQueryMode: the block, then the details that allow it.
WithOrphans[b \in Blocks] ==
  <<b>> \o FlattenSeq([i \in 1..Len(Details[b]) |->
                          IF Details[b][i] \in Orphans THEN WithOrphans[Details[b][i]] ELSE <<>>])

\* getQueryMaster: the topmost block that is in query mode with b.
QueryMaster[b \in Blocks] ==
  IF \E m \in Masters(b) : view[m].qbe
  THEN QueryMaster[CHOOSE m \in Masters(b) : TRUE] ELSE b

\* view.clear(true,true): nothing is displayed and there is no current record.
Cleared(v) == [v EXCEPT !.shown = Blank, !.row = 0, !.pos = 0]

\* view.clear(true,true,true) of these blocks, which also ends their query mode.
ClearedAll(bs) ==
  [b \in Blocks |-> IF b \in bs THEN [Cleared(view[b]) EXCEPT !.qbe = FALSE] ELSE view[b]]

Displayed(v) == v.shown[IF v.row = 0 THEN 1 ELSE v.row]

\* A position below the first record counts as the first.
At1(pos) == IF pos < 1 THEN 1 ELSE pos
CurrentRecord(v) == IF At1(v.pos) <= Len(v.cache) THEN v.cache[At1(v.pos)] ELSE None

\* setMasterDependencies: is there a master record, and which value do its details have?
MasterReady(d) == \A m \in Masters(d) : view[m].pos > 0
Asked(d) ==
  IF Masters(d) = {} THEN <<>>
  ELSE CurrentRecord(view[CHOOSE m \in Masters(d) : TRUE]).link[Field[d]]

-----------------------------------------------------------------------------
(* Calls. *)

Frame(at, b, id, left) == [at |-> at, block |-> b, id |-> id, left |-> left]
At(e, at) == stack[e] # <<>> /\ Head(stack[e]).at = at
Top(e) == Head(stack[e])
Callers(e) == Tail(stack[e])
Push(e, below, frame) == stack' = [stack EXCEPT ![e] = <<frame>> \o below]
Return(e, below) == stack' = [stack EXCEPT ![e] = below]

\* Some call goes on without having awaited anything.
Microtask == \E e \in Events : At(e, "details")

Idle(e) == stack[e] = <<>> /\ ~Microtask

\* The bound leaves a chain for every query whose triggers still run.
ChainsLeft == qid + Cardinality({e \in Events : At(e, "prequery")}) < MaxChains

\* The blocks whose queries, waiting or displaying, a new chain may overtake.
UnderWay ==
  UNION {{f.block : f \in {g \in Range(stack[e]) : g.at \in {"wait", "query", "fetch"}}}
         \cup UNION {Range(f.left) : f \in {g \in Range(stack[e]) : g.at = "details"}} : e \in Events}
Preparing == \E e \in Events : At(e, "prequery") \/ At(e, "stop") \/ At(e, "close")

\* A patient user overtakes only queries of the blocks bs, which the event repeats.
Accepted(bs) == user = "hasty" \/ (UnderWay \subseteq bs /\ ~Preparing)

\* The block is free: the query takes it and asks the data source.
Start(e, below, b, id) ==
  /\ running' = [running EXCEPT ![b] = id]
  /\ view' = [view EXCEPT ![b] = [Cleared(@) EXCEPT !.qbe = FALSE, !.filter = Asked(b)]]
  /\ Push(e, below, Frame("query", b, id, <<>>))

\* Block.executeQuery up to its first await, called while "current" is the chain.
Query(e, below, b, id, current) ==
  \/ /\ ~MasterReady(b)
     /\ view' = ClearedAll(Range(WithDetails[b]))
     /\ Return(e, below) /\ UNCHANGED running
  \/ /\ MasterReady(b) /\ id # current
     /\ view' = [view EXCEPT ![b].filter = Asked(b)]
     /\ Return(e, below) /\ UNCHANGED running
  \/ /\ MasterReady(b) /\ id = current /\ running[b] # 0
     /\ view' = [view EXCEPT ![b].filter = Asked(b)]
     /\ Push(e, below, Frame("wait", b, id, <<>>)) /\ UNCHANGED running
  \/ /\ MasterReady(b) /\ id = current /\ running[b] = 0
     /\ Start(e, below, b, id)

MovedRowOnly(v, r) == [v EXCEPT !.row = r]

\* view.setCurrentRow(r): the row and the record it moves to.
Moved(v, r) ==
  IF v.row = 0 THEN [v EXCEPT !.row = r]
  ELSE [v EXCEPT !.row = r, !.pos = At1(v.pos) + r - v.row]

\* The details are queried when that is another row, and there is one.
Follows(v, r) == v.row # r /\ v.shown[r] # None /\ ~v.qbe

\* queryDetails: the details one after the other, in this chain.
QueryDetails(e, below, b, id) == Push(e, below, Frame("details", b, id, Details[b]))

NextDetail(e) ==
  /\ At(e, "details") /\ Top(e).left # <<>>
  /\ Query(e, <<[Top(e) EXCEPT !.left = Tail(@)]>> \o Callers(e), Head(Top(e).left), Top(e).id, qid)
  /\ UNCHANGED <<qid, stuck, slot, user>>

\* The last detail has answered: a query that displayed the rows of the master ends.
EndDetails(e) ==
  /\ At(e, "details") /\ Top(e).left = <<>>
  /\ IF Callers(e) # <<>> /\ Head(Callers(e)).at = "shown"
     THEN /\ running' = [running EXCEPT ![Top(e).block] = 0]
          /\ Return(e, Tail(Callers(e)))
     ELSE Return(e, Callers(e)) /\ UNCHANGED running
  /\ UNCHANGED <<qid, stuck, slot, view, user>>

-----------------------------------------------------------------------------
(* A query of a block. *)

WakeUnchecked(e) ==
  /\ ~Microtask /\ At(e, "wait") /\ Top(e).id = qid
  /\ running' = [running EXCEPT ![Top(e).block] = Top(e).id]
  /\ view' = [view EXCEPT ![Top(e).block] = [Cleared(@) EXCEPT !.qbe = FALSE]]
  /\ Push(e, Callers(e), Frame("query", Top(e).block, Top(e).id, <<>>))
  /\ UNCHANGED <<qid, stuck, slot, user>>

\* The timer of a query that waits: it has been overtaken, or the block is free.
Wake(e) ==
  /\ ~Microtask /\ At(e, "wait")
  /\ LET b == Top(e).block IN
     \/ Top(e).id # qid /\ Return(e, Callers(e)) /\ UNCHANGED <<running, view>>
     \/ /\ Top(e).id = qid /\ running[b] = 0
        /\ running' = [running EXCEPT ![b] = Top(e).id]
        /\ view' = [view EXCEPT ![b] = [Cleared(@) EXCEPT !.qbe = FALSE]]
        /\ Push(e, Callers(e), Frame("query", b, Top(e).id, <<>>))
  /\ UNCHANGED <<qid, stuck, slot, user>>

\* The data source has executed the query and found n rows.  When the block shows rows
\* by then the call returns, and nothing ends the query (the severe message).
Answer(e, n) ==
  /\ ~Microtask /\ At(e, "query")
  /\ LET b == Top(e).block IN
     /\ view' = [view EXCEPT ![b].cache = [i \in 1..n |-> Record(view[b].filter, i)]]
     /\ \/ /\ view[b].shown[1] = None
           /\ Push(e, Callers(e), Frame("fetch", b, Top(e).id, <<>>))
           /\ UNCHANGED stuck
        \/ /\ view[b].shown[1] # None
           /\ Return(e, Callers(e))
           /\ stuck' = stuck \cup {b}
  /\ UNCHANGED <<qid, running, slot, user>>

QueryFailsRunning(e) ==
  /\ Failing /\ ~Microtask /\ At(e, "query")
  /\ Return(e, Callers(e))
  /\ UNCHANGED <<qid, running, stuck, slot, view, user>>

QueryFails(e) ==
  /\ Failing /\ ~Microtask /\ At(e, "query")
  /\ running' = [running EXCEPT ![Top(e).block] = 0]
  /\ Return(e, Callers(e))
  /\ UNCHANGED <<qid, stuck, slot, view, user>>

\* The rows are there: the first becomes the current one, and its details are queried
\* in the chain that is current now.
EndRows(e, v) ==
  LET b == Top(e).block IN
  /\ view' = [view EXCEPT ![b] = IF v.row = 1 THEN v ELSE Moved(v, 1)]
  /\ IF Follows(v, 1)
     THEN /\ QueryDetails(e, <<Frame("shown", b, Top(e).id, <<>>)>> \o Callers(e), b, qid)
          /\ UNCHANGED running
     ELSE running' = [running EXCEPT ![b] = 0] /\ Return(e, Callers(e))

\* The rows of a query that have been displayed are in Top(e).left.
Fetch(e) ==
  /\ ~Microtask /\ At(e, "fetch")
  /\ LET b == Top(e).block
         i == Len(Top(e).left) + 1
         v == [view[b] EXCEPT !.shown[i] = view[b].cache[i], !.pos = 1]
     IN  /\ i <= Len(view[b].cache)
         /\ IF i = Rows THEN EndRows(e, v)
            ELSE /\ view' = [view EXCEPT ![b] = v]
                 /\ Push(e, Callers(e), [Top(e) EXCEPT !.left = Append(@, v.shown[i])])
                 /\ UNCHANGED running
  /\ UNCHANGED <<qid, stuck, slot, user>>

\* There are no more rows; when there were none the details show nothing either.
NoMoreRows(e) ==
  /\ ~Microtask /\ At(e, "fetch")
  /\ LET b == Top(e).block
         n == Len(Top(e).left)
     IN  /\ n < Rows /\ n >= Len(view[b].cache)
         /\ IF n > 0 THEN EndRows(e, view[b])
            ELSE /\ view' = ClearedAll(Range(WithDetails[b]))
                 /\ running' = [running EXCEPT ![b] = 0]
                 /\ Return(e, Callers(e))
  /\ UNCHANGED <<qid, stuck, slot, user>>

-----------------------------------------------------------------------------
(* Events of the user. *)

\* Form.executeQuery of a block, or of the topmost block that is in query mode with
\* it: all its blocks are cleared, then their pre-query triggers run, its own first.
ExecuteQuery(e, blk) ==
  LET b == IF view[blk].qbe THEN QueryMaster[blk] ELSE blk IN
  /\ Idle(e) /\ Accepted(Range(WithDetails[b])) /\ ChainsLeft
  /\ view' = ClearedAll(Range(WithDetails[b]))
  /\ IF b \in slot THEN UNCHANGED <<slot, stack>>
     ELSE /\ slot' = slot \cup {b}
          /\ Push(e, <<>>, Frame("prequery", b, 0, WithDetails[b]))
  /\ UNCHANGED <<qid, running, stuck, user>>

\* A trigger has ended, and the one of the next block begins unless its slot is taken.
PreQuery(e) ==
  /\ ~Microtask /\ At(e, "prequery")
  /\ LET left == Front(Top(e).left)
         free == slot \ {Last(Top(e).left)}
     IN  \/ /\ left # <<>> /\ Last(left) \notin free
           /\ slot' = free \cup {Last(left)}
           /\ Push(e, <<>>, [Top(e) EXCEPT !.left = left])
           /\ UNCHANGED <<qid, running, view>>
        \/ /\ (left # <<>> /\ Last(left) \in free) \/ Failing
           /\ slot' = free
           /\ Return(e, <<>>)
           /\ UNCHANGED <<qid, running, view>>
        \/ /\ left = <<>>
           /\ slot' = free
           /\ qid' = qid + 1
           /\ Query(e, <<>>, Top(e).block, qid', qid')
  /\ UNCHANGED <<stuck, user>>

\* The user goes to a row of the screen (Form.enter, setCurrentRow).
Navigate(e, b, r) ==
  /\ Idle(e) /\ Accepted(Range(WithDetails[b]) \ {b}) /\ ChainsLeft
  /\ Follows(view[b], r)
  /\ view' = [view EXCEPT ![b] = Moved(@, r)]
  /\ qid' = qid + 1
  /\ QueryDetails(e, <<>>, b, qid')
  /\ UNCHANGED <<running, stuck, slot, user>>

\* The user changes a field of the current row that details are linked by
\* (queryFieldDetails): their queries are started and not awaited.
Edit(e, b, f) ==
  LET changed == [of |-> Displayed(view[b]).of,
                  link |-> [Displayed(view[b]).link EXCEPT ![f] = Append(Displayed(view[b]).of, 0)]]
      details == SelectSeq(Details[b], LAMBDA d : Field[d] = f)
  IN
  /\ Idle(e) /\ Accepted(UNION {Range(WithDetails[d]) : d \in Range(details)}) /\ ChainsLeft
  /\ view[b].row > 0 /\ ~view[b].qbe /\ details # <<>>
  /\ CurrentRecord(view[b]) = Displayed(view[b]) /\ Displayed(view[b]) \notin {None, changed}
  /\ view' = [view EXCEPT ![b].shown[view[b].row] = changed, ![b].cache[At1(view[b].pos)] = changed]
  /\ qid' = qid + 1
  /\ Push(e, <<>>, Frame("details", b, qid', details))
  /\ UNCHANGED <<running, stuck, slot, user>>

\* Form.enterQuery overtakes every query and waits until none displays rows.
EnterQuery(e, b) ==
  /\ Idle(e) /\ Accepted({}) /\ ~view[b].qbe /\ ChainsLeft
  /\ qid' = qid + 1
  /\ Push(e, <<>>, Frame("stop", b, 0, WithOrphans[b]))
  /\ UNCHANGED <<running, stuck, slot, view, user>>

\* allowQueryMode: a master in query mode allows it to orphans, another when it has a record.
QueryModeAllowed(b) ==
  \A m \in Masters(b) : IF view[m].qbe THEN b \in Orphans ELSE view[m].pos > 0

\* wrapper.clear: the rows are dropped and the cursor is being closed.
Close(e, b, left) ==
  /\ view' = [view EXCEPT ![b].cache = IF view[b].qbe THEN @ ELSE <<>>]
  /\ Push(e, <<>>, Frame("close", b, 0, left))

Stopped(e) ==
  /\ ~Microtask /\ At(e, "stop") /\ \A b \in Blocks : running[b] = 0
  /\ IF QueryModeAllowed(Top(e).block) THEN Close(e, Top(e).block, Tail(Top(e).left))
     ELSE Return(e, <<>>) /\ UNCHANGED view
  /\ UNCHANGED <<qid, running, stuck, slot, user>>

\* Block.enterQuery goes on: the block shows the query record; then its details enter.
Closed(e) ==
  /\ ~Microtask /\ At(e, "close")
  /\ LET b == Top(e).block
         entered == [view EXCEPT ![b] = [Cleared(@) EXCEPT !.qbe = TRUE, !.row = 1]]
         left == Top(e).left
     IN  IF left = <<>> THEN view' = entered /\ Return(e, <<>>)
         ELSE /\ view' = [entered EXCEPT ![Head(left)].cache = IF view[Head(left)].qbe THEN @ ELSE <<>>]
              /\ Push(e, <<>>, Frame("close", Head(left), 0, Tail(left)))
  /\ UNCHANGED <<qid, running, stuck, slot, user>>

CloseFails(e) ==
  /\ Failing /\ ~Microtask /\ At(e, "close")
  /\ Return(e, <<>>)
  /\ UNCHANGED <<qid, running, stuck, slot, view, user>>

\* Form.cancelQueryMode.
CancelQuery(b) ==
  /\ ~Microtask /\ view[b].qbe
  /\ view' = ClearedAll(Range(WithOrphans[b]))
  /\ UNCHANGED <<qid, running, stuck, slot, stack, user>>

\* A hasty user inserts a record below the first row of block b while it is being
\* queried: its cache still has the rows of the query before, and they are shown again.
\* The triggers of the insert and the clearing of the details are taken as one step; the
\* number of inserts is bounded by the rows of the cache.
Insert(b) ==
  LET details == Range(WithDetails[b]) \ {b}
      cache == InsertAt(view[b].cache, 2, Inserted)
      cleared == ClearedAll(details)
  IN
  /\ user = "hasty" /\ ~Microtask /\ b \notin slot
  /\ \E e \in Events : At(e, "query") /\ Top(e).block = b
  /\ ~view[b].qbe /\ \A m \in Masters(b) : Displayed(view[m]) # None
  /\ Len(view[b].cache) \in 1..Rows /\ Displayed(view[b]) = None
  /\ view' = [c \in Blocks |->
       IF c = b
       THEN [view[b] EXCEPT !.cache = cache, !.pos = 1,
                            !.shown = [i \in 1..Rows |-> IF i <= Len(cache) THEN cache[i] ELSE None]]
       ELSE IF c \in details THEN [cleared[c] EXCEPT !.cache = <<>>] ELSE view[c]]
  /\ UNCHANGED <<qid, running, stuck, slot, stack, user>>

Continue(e) ==
  \/ NextDetail(e) \/ EndDetails(e) \/ Wake(e) \/ QueryFails(e) \/ Fetch(e) \/ NoMoreRows(e)
  \/ PreQuery(e) \/ Stopped(e) \/ Closed(e) \/ CloseFails(e)
  \/ \E n \in Found : Answer(e, n)

Event(e) ==
  \E b \in Blocks :
    \/ ExecuteQuery(e, b) \/ EnterQuery(e, b)
    \/ \E r \in 1..Rows : Navigate(e, b, r)
    \/ \E f \in Fields : Edit(e, b, f)

Next ==
  \/ \E e \in Events : Event(e) \/ Continue(e)
  \/ \E b \in Blocks : CancelQuery(b) \/ Insert(b)

Spec == Init /\ [][Next]_vars /\ \A e \in Events : WF_vars(Continue(e))

-----------------------------------------------------------------------------
(* Properties. *)

TypeOK ==
  /\ qid \in 0..MaxChains
  /\ running \in [Blocks -> 0..MaxChains]
  /\ stuck \subseteq Blocks /\ slot \subseteq Blocks /\ user \in Users
  /\ \A b \in Blocks :
       /\ view[b].row \in 0..Rows /\ view[b].pos <= Rows
       /\ Len(view[b].cache) <= Rows + 1
       /\ view[b].qbe \in BOOLEAN
  /\ \A e \in Events : \A i \in 1..Len(stack[e]) :
       stack[e][i].at \in {"details", "shown", "wait", "query", "fetch", "prequery", "stop", "close"}

\* The calls of executeQuery that display rows in the block.
Displaying(b) ==
  {c \in UNION {{e} \X DOMAIN stack[e] : e \in Events} :
     LET call == stack[c[1]][c[2]] IN call.block = b /\ call.at \in {"query", "fetch", "shown"}}

\* A block displays the rows of one query at a time, and the query manager knows which,
\* but for a block that a query has left as running (Block.executeQuery, setRunning).
OneQuery ==
  \A b \in Blocks :
    Cardinality(Displaying(b)) = IF running[b] = 0 \/ b \in stuck THEN 0 ELSE 1

Follow(b, d) ==
  LET master == Displayed(view[b]) IN
  view[b].row > 0 /\ master # None /\ view[b].cache # <<>> =>
    \A r \in Range(view[d].shown) \ {None} : r.of = master.link[Field[d]]

Quiet == \A e \in Events : stack[e] = <<>>

AllFollow ==
  \A b \in Blocks : \A d \in Range(Details[b]) :
    ~view[b].qbe /\ ~view[d].qbe => Follow(b, d)

\* When nothing is under way and the user has waited for it, the rows of a detail are
\* those of the row on which its master is (queryDetails, setMasterDependencies).
DetailsFollow == Quiet /\ user = "patient" => AllFollow

\* Every event ends: no query waits for ever for another to finish (Block.executeQuery),
\* unless the rows of an insert were shown when its query was answered.
EventsEnd == \A e \in Events : stack[e] # <<>> ~> stack[e] = <<>> \/ stuck # {}
=============================================================================
