# Verification of FutureForms

FutureForms 0.18 is a library for database forms in the browser (TypeScript,
`src/src/core`) and a generic REST backend for relational databases (Java,
`src/src/openrestdb`). This directory holds TLA+ modules that model the parts in
which concurrency, failure and order matter, configurations that check them with
TLC, and proofs that TLAPS checks. Every definition that models code is listed
with its file and lines in `PROJECT.json` ("map"); what was found to differ from
a promise of the code is listed there under "findings", what is hard to test
under "hazards".

Run, in this directory:

    tlc -workers 2 -config pool_calm.cfg MCPool     # any .cfg, with its MC module
    tlapm ConnectionProofs.tla                      # any *Proofs module

## 1. The system

Server (paths below `openrestdb/src/main/java/database/rest`):

| component | state | operations | hard because | correct when |
|---|---|---|---|---|
| Session lock, `handlers/rest/SessionLock.java` | shared count, owner, wait set | lock, release | a hand-written read/write lock on a Java monitor; requests release "whatever they hold" | it excludes whom it says and forgets no waiter |
| Connection pool, `database/Pool.java`, `PoolManager.java` | list of free connections, counter | getConnection, release, remove, validate; Initiator, cleanout, checkall | three kinds of threads; the manager decides on copies; a counter is kept beside the list | a connection has one user and comes back; max is a limit |
| REST session, `handlers/rest/Session.java`, `SessionManager.java`, `Rest.java` | connection, clients, registration, savepoint, cursors | connect, statement, fetch, commit, rollback, disconnect, ping; SessionReaper | one connection shared by concurrent requests; monitor, lock and pool are waited for together | transactions are ended by whom they belong to; every request is answered |
| Preauthorised logins, `cluster/PreAuthTable.java`, `SessionManager.java` | file of extends that are used in turn, positions of writer and reader | write, refresh, validate | written in one process and read in another without a lock; positions survive in neither | each login is accepted once |
| REST bridge, `servers/rest/*`, `cluster/MailBox.java` | requests under way, channels, shared memory | send, respond, failed, reconnect | two processes, shared memory, thread identities as keys | a request is executed once and gets its own answer |
| Load balancer, `servers/LoadBalancer.java` | slots of REST processes | register, deregister, worker | slots are read and written without a monitor | a process that is connected is found |
| Cluster memory and supervision, `cluster/Cluster.java`, `ProcessMonitor.java`, `servers/Server.java` | shared file, lock file, sockets | start, election, watchers, heartbeat, failover, stop | processes die at any time; each looks after the others | what dies comes back; what is stopped does not |
| HTTP front, `servers/http/*` | selector, channels, worker queue | accept, read, serve, hand over, expire | a channel is passed between acceptor, waiter, worker and reaper | no request is lost; idle channels are closed |
| Messages, files, configuration, logging, SQL text | none that lives on | | sequential | |

Client (paths below `core/src`):

| component | state | operations | hard because | correct when |
|---|---|---|---|---|
| Connection, `database/Connection.ts` | session id, modified, touched, locks | select, lock, batch, commit, rollback, keepalive | answers arrive later; a timer ends transactions | it knows whether a transaction is open |
| Records and data source, `model/Record.ts`, `DataSourceWrapper.ts`, `database/DatabaseTable.ts` | state, values, flags of each record; cache; changes to send | edit, insert, delete, lock, flush, refresh, undo, fetch | eight record states; each statement of a batch fails for itself; another user changes the same rows; the table is read array by array | what the user changed is sent once or reported; what others changed is not overwritten |
| Blocks and forms, `model/Block.ts`, `model/Form.ts`, `view/Block.ts`, `view/Form.ts` | current record, current row, window, queries under way | query, navigate, scroll, insert, delete, validate, flush | the number of the row and the number of the record are kept apart and moved by different code; triggers interrupt and refuse | a row of the screen stands for the record that is shown in it |
| Block coordination, `model/relations/*` | masters and details, chain of queries | details of a master, query mode | a newer query overtakes an older one that waits for its data | details show the rows of their master |
| Events, `control/events/*` | stack of events | push, run | one event at a time, except for calls nobody awaits | every event ends |
| Filters, application shell, layout, menus | | | | |

A form edits records; its block flushes changes as one batch over HTTP. A waiter
thread of the HTTP process reads the request, a worker serves it or sends it over
the bridge to a REST process chosen by the load balancer. There a worker thread
finds the session, shares it with other requests of the same client, takes the
session lock, gets a connection from the pool, executes the statement, and
releases all three in the reverse order, or a failure releases them. The
processes themselves are started, watched and restarted by each other.

## 2. Plan

Done:

1. `SessionLock` with the abstract `SessionGuard`; proved.
2. `Pool` with the abstract `ConnectionLeases`; proved.
3. `RestSession`, on the abstract `ReadWriteLock` and `ConnectionLeases`; its safety
   is proved.
4. `RecordCycle`, the client's side of a transaction; its safety is proved.
5. `RestBridge` with the load balancer's slot; its safety is proved.
6. `HttpFront`, one waiter with acceptor, workers and reaper; its safety is proved.
7. `QueryChain`, the queries of a master and its details; one query per block is
   proved.
8. `RecordWindow`, the rows of the screen and the records behind them; its safety
   is proved.
9. `Supervision` and `PreAuthTable`, the processes and their shared table; the
   safety of the table is proved.

Left, in this order:

1. Pure algorithms against reference definitions: `FilterStructure` (evaluation in
   the client against the SQL it builds), the bind values of `SQLParser`.
2. `Formatter` and `Input` of the view (what typing does to a field with a
   pattern), the keepalive and stateless timers of `Connection`.
3. The chaining of triggers in `FormEvents`; clearing of details.
4. The version bytes of the shared file (torn reads), batch and script, session
   scopes stateless and dedicated.

The set of runs is kept small enough to be repeated on every change.

## 3. Modules and their correspondence to the code

**SessionLock.** A step is one stay in the monitor of `SessionLock.LOCK`: from
entering it, or being woken in it, to leaving it or blocking in `wait()`. The two
loops of `lock(true)` and the one of `lock(false)` are the locations `excl1`,
`excl2`, `shared1`. Around the lock stands the protocol of a request
(`SessionState` in Rest.java): prepare, lock and unlock per statement, release
when it ends and when it fails. `lost` counts shared holds whose release the
lock refused. `SessionGuard` is what the lock keeps to: many readers or one writer,
who may read too, except that a request that waits in the second loop of
`lock(true)` takes the lock from a writer who came before it, as soon as nobody
reads. `ReadWriteLock` is the guard without such rivals, and what requests rely on.

**Pool.** Sessions get, keep and give back connections (`Session.connect`,
`disconnect`, `release`), PoolManager cleans out and checks in steps between
which sessions run, the Initiator fills the pool and increments `size` outside
the monitor (read and write are two steps). Constants select the environment:
requests during start-up (`Cold`), a database that fails (`Failing`), requests
that give up waiting (`Impatient`), a proxy user that cannot be released
(`Proxy`), and how sessions use the pool (`Uses`). `ConnectionLeases` is the
promise: connections are lent to one borrower each, at most `Limit` at once.
`Pool.close` has no caller and is left out.

**RestSession.** One session of scope transaction; its requests are statement
(with or without savepoint, and a fetch), commit or rollback, disconnect and
ping. `ensure()` may wait for the pool inside the monitor of the session, which
the variable `monitor` tells; other synchronized methods are one step;
`clients--` outside the monitor is a read and a write. The session lock is an
instance of `ReadWriteLock`, which is what `SessionGuard` comes to when one thread
sets savepoints, and the pool lends to other sessions as well. Not
modelled: scopes stateless and dedicated, batch and script, the nested select of
an update with assertions, cursors that stay open, requests without "sql".

**RecordCycle.** One block on one table in the client, and the table on the
server. A record is a row and a number, since a row can be fetched anew while
`dirty$` still refers to an earlier object. `rec` has the fields of Record that
matter (state, value, initial value, locked, failed, dirty), `cache` is
`DataSourceWrapper.cache$`, `pending` is `DatabaseTable.dirty$`, `modified` is
`DataSourceWrapper.modified$`, `transaction` is `Connection.modified`. On the
server, `committed` is what other sessions see, `current` what the transaction
of this client sees, `held` the rows it has locked. A flush validates the row the
user is on, sends the statements of `pending` in order, the server executes them
one step at a time with its assertions, and `ReceiveBatch` applies the answers.
Other sessions change and delete rows that are not held, between any two steps.
Abstractions: triggers succeed; one column besides the key; events of the user
are serialised as `EventStack` does, and nothing is edited while a request is
under way; the keepalive timer rolls back only between events; others insert no
rows; the block stays queried; the answer of a batch or of a commit that was
executed is not lost.

**RestBridge.** Worker threads of the HTTP process (`RestHandler.handle`,
`RESTClient.send`), the `RESTClient` objects with their reader, writer and two
channels, the slot of the load balancer, the mailbox as shared memory with one
position per process, and the REST process with its connections
(`RESTServer.serve`), reader and workers. Each synchronized method is a step, a
wait is a location; a mailbox transfer is split where the position is set and
where it is used. The REST process crashes and starts again, channels break,
`failed` and reconnection race, the two sleeps of `init` end in either order;
`robbed` notes the starts whose client another has cleared from the slot. One REST
process; payloads that fit have the size
of an extent; a full mailbox is left out (no extent is ever marked as used).

**HttpFront.** The acceptor (`HTTPServer.run`), handshakes and requests on the
thread pool, a waiter (`HTTPWaiter`: registration, select, the loop over the
selected keys, `incomplete`), and the reaper (`cleanout`). A request is two
halves that arrive together or apart; time is the sleep of the reaper. A client
takes its part in a handshake (Shake) and reads its response (Read) when it likes,
or never, and the pool thread that serves it waits in `sslaccept` or in the loop of
`writeplain` meanwhile. A plain connection and one that the bridge takes over (`/connect`) differ in what the
worker does at the end. Waiters share nothing but the pool and the reaper, so one
stands for all of them.

**QueryChain.** A form of a master and details. An event of the user (query,
query mode, a step to another row) is a stack of calls that stops where the code
awaits a trigger, the timer of a waiting query or the data source. `qid`,
`running` and the list of waiting queries are those of QueryManager; `slot` is
what EventTransaction keeps per block; `view` is what each block shows and where
it is. Rows are known by the values they are linked by, so that rows that do not
belong to the master's row can be told. A hasty user may insert a row while a query
of the block is under way: if it is on the screen when the answer comes, `query`
returns without clearing `running`, and the block is in `stuck`. The insert is one
step, without its triggers; an insert above the first row or in an empty block gives
the same view as a query that found nothing, and is left out, as are edits of the new
row.

**RecordWindow.** The rows of a block on the screen (`row$`), the current record
of the model (`record$`), the cache of the wrapper with `hwm$` and `eof$`, and
the rows of the table it reads array by array. Steps, pages, going to a row,
scrolling, insert above and below, and delete are calls that stop at their
triggers and at the data source; the calls that the keyboard handler does not
await go on beside the next event. `wrapper.fetch` fails where `hwm$` has no record,
as it does in the code (`cache$[-1]` is undefined). Deletes are not flushed at once:
with flush strategy Row a delete whose flush fails has left the cache although it is
refused (`DataSourceWrapper.ts:410`), which is left out.

**Supervision.** The processes of a cluster: position in the constructor of
`Server` (`at`), `sowner`, `powner`, the list a process still has to start
(`todo`), its two watchers, the two locks of the lock file, the sockets, and what
the statistics say of each id (recent, of a manager). The operating system takes
back locks and sockets of a process that ends. A process that starts registers, looks
for another one with its id, and exits, in steps of their own, so that two of them can
each find the other. `Init` is a cluster that is up,
which is a state that `Launcher.start` of the first process leads to; starts are
modelled completely, since processes that died are started anew.

**PreAuthTable.** The file of extends, the writer of the HTTP process that
serves, the standby's writer, the reader of a REST process and the connects of
its clients. `write` is three steps (position, login, count), `refresh` one for
each field it reads. Names have one length, so that an offset is a slot.

`MC*` modules give TLC its instances. `MCCluster` extends PreAuthTable and
instantiates Supervision; the two share no state and are checked side by side: a
behaviour is of the one while nothing of the other runs. `*Proofs` modules hold
the theorems; those about the session lock and the pool, the two guards of a
connection, are together in `ConnectionProofs`, and the names of `SessionLock`
(`LockSpec`, `LockTypeOK`, `stage`) are such that both can be extended there.

## 4. Runs

| run | instance | what it shows |
|---|---|---|
| `session_lock` | 3 threads, two set savepoints, 2 requests of 2 statements each | nobody reads beside a writer, a writer loses the lock only to a rival from before, no wake-up is lost; every request ends until a hold is lost (fair) |
| `pool_calm` | 3 threads, 5 connections, min 1, max 2, no failures | the counter is exact, max is kept, the pool is a lender |
| `pool_storm` | 2 threads, 2 connections, every environment | no connection is ever shared, or closed in use |
| `rest_session` | 3 threads, one sets savepoints, 1 other session, 1 connection that may break, reaper | one owner of a connection, exact client count, no lock left; every request is answered (fair) |
| `record_cycle` | 2 rows, 2 values, optimistic and pessimistic, flush of the block; busy rows and failing statements | no lost update, no forgotten edit, commits save what is shown |
| `record_faults` | 1 row, 3 objects of it, all lock modes and strategies, refused batches, commits and rollbacks | the client never takes a lock for held that is not |
| `record_undo` | 2 rows | **finding**: a delete that was rolled back is sent by the next flush |
| `rest_bridge` | 2 threads that share an extent, 3 extents, 2 requests, payloads of both kinds, 2 starts of the REST process, 2 clients, late failures, channels in either order | answers reach the thread that asked, and one that has the bridge to itself gets its own page; requests are executed at most once, a connected process is reachable until an earlier client clears its slot, requests are delivered and threads come back over channels in order (fair) |
| `http_front` | a plain channel whose client may leave and a secure one to the admin port, 1 pool thread, 1 attempt, 2 requests, failures, clients that are silent or do not read | no request is lost; requests are served and channels reaped unless such clients hold the pool (fair) |
| `query_chain` | a master with details by two fields, one of them queried without master, 2 rows, queries that find 0 or 2, 2 events at a time, 3 chains, failures, patient and hasty users, an insert during a query | queries never mix in a block, every event ends unless the row of an insert is shown when a query is answered (fair), details follow the master of a patient user |
| `record_window` | 2 rows on the screen, arrays of 2, tables of up to 4 rows, 2 inserts (1 if hasty), 1 delete, refusing triggers | rows and records stay together, the end of a table is not seen too early, a delete takes its record |
| `cluster` | 2 HTTP processes, 1 REST process, 2 deaths or a death and a stop; and 2 extends of 2 logins, 5 logins, 3 starts | what dies comes back and the sockets with it, what is stopped ends (fair); logins are read in order and accepted once |

*Why the bounds are enough.* Three threads are needed for two requests to wait
behind a third, and two statements for a request to give the lock back between
them and take it again. Five connections with max 2 let the manager keep a copy
that names connections already replaced. One connection in `rest_session` makes
requests and another session wait for each other, and is handed on, which is
where owners could be confused. Two rows let one statement of a batch fail while
the other succeeds; a second value is what another user writes; two objects of a
row are one that waits and one that is shown, and with one row a third is
allowed. In `rest_bridge` two threads on one extent are the smallest collision,
two starts a crash and a reconnection, two clients an old and a new one in the
slot; the last start does not crash. A third request would take the response that the
first has left behind while the second is still carried: that is too many states, and
left to the theorem `RoutedToItsThread`, which holds for every number of requests, as
`ReachableOnceUp` does for every number of starts and clients. In `http_front` one pool
thread makes handshake, request and hand-over wait for each other, so that one silent
client is enough to stop the pool, and one attempt (8 in the code) makes giving up
reachable; only the plain client goes away without a word, the other is silent. In
`query_chain` two events are one that overtakes the other, three chains a query,
the one that replaces it and the one of a detail. In `record_window` a table of
four rows is two arrays and two pages, so that every page step crosses the end of
the cache once. In `cluster` three processes and a fourth are all ids and a
process that is started beside a running one; a watcher that gets its lock at
once tries again once (512 times in the code); of the two mishaps that
`MaxMishaps` allows, deaths and stops together, the first may befall any process, and
the second death only one that is being started or taking over: two that die while all
are up are left out; five logins in two extends of two
use the first extend again. `Copies`, `MaxRequests`, `MaxStatements`, `Conns`,
`Drift`, `MaxStarts`, `MaxClients`, `MaxChains`, `MaxInserts`, `MaxDeletes`,
`MaxAttempts`, `Pids`, `MaxMishaps`, `MaxStops` and `MaxLogins` are bounds and
appear in guards; all other behaviour is explored completely.

*Restrictions that are part of the statement.* They name what is known to go
wrong otherwise (section 6).

- `SessionLock`: RequestsEnd is stated until a shared hold is lost (`lost`), which
  happens when a request fails in a statement after another has taken the exclusive
  lock from it: both holds are refused in one call, and the count never comes back to
  0. ReleaseAccepted leaves out requests from which the lock was taken.
- `Pool`: the counting properties hold in a calm environment only.
- `RestSession`: one thread sets savepoints; the client keeps order (it ends its transaction between
  requests, `Quiescent`) and the reaper finds idle sessions only (`Expiry`).
- `RecordCycle`: NoLostUpdate and CommitSaves speak of lock modes that assert
  (None promises nothing); NothingForgotten and CommitSaves leave out records
  that failed or were found to be gone, since the user was told; values are no
  dates; `UndoesUnflushed` is FALSE in `record_cycle` because of `record_undo`.
- `RestBridge`: Reachable leaves out a start whose client an earlier one has cleared
  from the slot (`robbed`). Routed speaks of the page of threads that are `alone`: they
  have the bridge to themselves, nothing of an earlier request is carried and no
  other thread is at one. Delivered and SendEnds speak of channels that last (not
  `Broken`) and have not changed places (`InOrder`).
- `HttpFront`: a client lets the worker finish before its next request
  (`Patient`). Served and Reaped leave out that clients who are silent in their
  handshake or do not read hold all threads of the pool for good (`Exhausted`), and the
  channel of a client that does not read its own response (`NotRead`). Served leaves
  out keys that an exception left in the selected set (`Overlooked`), and takes a closed
  connection for an end; Reaped holds while the reaper lives. TLS records arrive whole.
- `QueryChain`: EventsEnd is stated until a block is `stuck`; DetailsFollow is for patient users, who wait for an event to end.
- `RecordWindow`: `strayed` records how row and record may come apart ("refused",
  "no row", "untouched", "overtaken"); Aligned and RightRecord are stated until
  then, NoFalseEnd for tables whose rows all pass the filter of the client.
  RightRecord and the upper bounds of TypeOK hold of hasty users too, who go on
  while a delete is under way; Aligned, NoFalseEnd and the ranges of `hwm$` and
  `row$` are for patient ones.
- `Supervision`: Restored leaves out that two HTTP processes have each bound one
  of the sockets, and that two processes with one id find each other and both end
  (`BothEnd`) again and again; the cluster is not stopped while a process is just being
  started; a REST process does not give up (256 tries of 250 ms) while somebody
  lives who will start an HTTP process.
- `PreAuthTable`: `strayed` records two threads in the table ("together"), a
  reader or writer at an extend that is not counted yet ("halfway"), a standby
  with an old position or at such an extend ("standby"), a reader that was lapped;
  what comes after is not looked at.

Deadlock is checked in the pool runs, record_cycle and record_faults; the other runs end when
their requests, events or processes do.

*Fairness.* `SessionLock` assumes weak fairness of each thread: a Java thread that
can run is run, and one that was woken gets the monitor. Requests are bounded, so
that nobody is overtaken for ever. `RestSession` needs strong fairness per thread:
a thread waits for a monitor, a lock or a free connection, is woken each time it
is released and tries again, but another thread may be faster, without end. That
matches `notifyAll` and polling with a scheduler that does not discriminate, and
no more: new requests, failures and the reaper are not fair. Requests with
savepoints are promised an answer only if statements of the session do not
overlap for ever, because the lock prefers readers. `RestBridge` has weak
fairness of the threads of both processes, none of crashes and breaks.
`HttpFront` has weak fairness of the waiter, of the reaper (time passes) and of
the threads of the pool, where they do not wait for a client: a handshake ends and a
response is written only with the client's steps, of which no fairness is assumed.
`QueryChain` has weak fairness of the
continuation of an event: timers fire and the data source answers. `Supervision`
has weak fairness of each process as a whole and of time, which is less than
fairness of each of its threads. `RecordCycle`, `RecordWindow` and `PreAuthTable`
are checked for safety only.

## 5. Proofs

All theorems hold for every value of the constants that satisfies the named
assumptions (`SessionLockAssumption`, `PoolAssumption`, `RestSessionAssumption`,
`BridgeAssumption`, `RecordCycleAssumption`, `FrontAssumption`, `TableAssumption`,
`RowsAssumption`, `ArrayAssumption`, `TablesAssumption`:
finite sets, distinct values, numbers in their ranges).

*SessionLock.* The inductive invariant `IInv` adds to the types that a thread
inside a statement has a statement left (StatementsLeft) and that only active
requests hold the lock (HeldActive), next to SharedCount, OwnerAlone and
NoLostWakeup. SharedCount is what makes the test `shared > 0` mean "a statement
is under way"; OwnerAlone needs it when a thread takes the lock. From `IInv`:
types, SharedCount, OwnerAlone, NoLostWakeup, ReleaseAccepted and the refinement of
SessionGuard, all with any number of threads that set savepoints. The writer of the
guard is the owner that the lock names, not whoever believes to hold it: of those there
may be several.

*Pool.* `Inv` adds to types and NoSharing where connections may be (Located:
between the steps of manager, Initiator and sessions) and proves NoSharing in
every environment: this is the guard of `Pool.remove`, which acts only on a
connection that is still in the list. In a calm environment (`Calm`: filled
first, no failure, patience, sessions that return what they take) `CalmInv` adds
that nothing is broken or suspicious (Quiet), how far the Initiator is (Filling),
that the counter is exact (Exact) and that the manager's count of spare
connections is covered by the list (Sparing). It yields SizeIsExact, WithinMax,
KeepsMin, ExhaustedInUse and the refinement of ConnectionLeases.

*RestSession.* In any environment: the types; `OnePlace`, a connection is in the
pool, with the session or with another session (its strengthening says that what
a thread carries between two monitors is in no other place, and who is in the
monitor); `HoldsEnd`, only requests under way hold the session lock. With a
client that keeps order and a reaper that finds idle sessions (`Calm`):
OneOwner, by the order in which requests take turns (a request that ends the
transaction is alone); OwnWork, since what a connection carries was done for
whoever has it; NothingLeft, since a session that is unregistered has no request;
ClientsExact, the longest: the count is the number of requests between `share`
and `release`, corrected by those between the read and the write of `clients--`.

*RestBridge.* `Inv` says where threads are (Placed), which positions of the
mailboxes can be used (Position, RestPosition: this is the type of `pos` and
`rpos`, since WLOCK and RLOCK do not exclude each other), that whatever is carried
is of a request that was sent and names the extent of its thread (Numbered,
Delivers), that no request is carried twice (Once: in a queue, in the channel,
with a worker) and is not executed while it is carried (Counted), and which
channels are connected (Channels). From it: types, AtMostOnce with any number of
threads, processes and clients, and that no thread waits for a response that is
there (Awake). `AloneInv` follows the request of a thread that is alone through
the mailbox and back (Idle, AtHome, Carries, Works, Back) and gives Routed. The
attempt to prove Routed as it was stated before failed, and with a third request
TLC found why: a request that took an old response leaves its own behind, which
then meets the next one in the mailbox. The statement and its bound were
corrected. `Settled` says that, until the slot is cleared, one client is of this start of
the process and the slot holds it: it waits for its channels, has the first that came,
or both (Joined). A client that fails while the process runs is of an earlier start
(EarlierFails), and if it finds another in the slot that is noted. This gives Reachable
in every environment.

*RecordCycle.* `Inv` says that a record that is taken for locked has its row held
(LocksHeld, which needs to know what an undo leaves in the list: Quiet), when
there is a transaction (Transactions), what the phases of the client mean
(Phases), that every row has an object to spare (Spare, an artefact of the bound
`Copies`, any number of which will do), that a record of a row has a value
(Wholes), and where an edit is: it makes the record dirty (Edited), puts it in the
list when the row is validated (Listed) and into the batch of the flush (Batched).
The steps are first reduced to what they do (Changes: a record is rewritten;
Prepared and Sends: the list is completed and sent; Executes: a step of the
batch), so that each part of `Inv` is preserved by five cases instead of eleven.
From `Inv`, with every fault: types, LocksAgree, NoLostUpdate (a step that changes
a row was asserted, or its record is taken for locked, and then the row is held),
and NothingForgotten unless the column is a date. `SInv` follows what was saved
through the batch: the block shows a row once (OneObject), the record it shows is
the last of its row in the list and steps are executed in the order of the list
(Latest, Ordered, Answered), while an older record waits the one shown is new
(Superseded), a locked record finds its row (LocksFound), and so what was flushed
is in the table and held (Saved). It gives CommitSaves, without refused batches
and without rollbacks of what is not flushed (`Plain`): both leave records in the
list that the block no longer shows, and then Superseded is false.

*HttpFront.* NothingLost, for clients that let the worker finish before they send
the next request (`Patient`), with any number of channels and pool threads and
with failures. `Inv` says where the halves of a request may be: nowhere before and
between requests (Fresh), in one of three places while it is read (Once, Unread),
and with nobody once there is a task of the channel (AllIsRead, OneTask), so that
the buffers that the channel shares between waiter and worker are used by one of
them. Awaited and Told tie the task to what the client waits for, and Kept is
NothingLost where it must be: a request that is waited for has bytes or a task.
Steps of the waiter and of the reaper that touch none of this are treated at once
(Moves).

*PreAuthTable.* InOrder and AcceptedOnce, for any number of extends, slots,
processes and threads, until one of the mishaps of section 4. The extends are
reused in a ring, so that an index says nothing about age. `Inv` therefore labels
each extend with the number of logins that were complete before its first one,
negative if it was never used: each extend but the one in use is followed by one
that begins `Slots` logins later, and the one after that in use is the oldest
(Ordered; RingTurns shows that taking the next extend keeps this). With these
labels the table is what is left of the log (Stored), a call writes behind its end
(Calling), the position of the reader counts what it has read (Reading, Gained),
and a request follows the reader up to the extend that was in use when it began
(Following), where its login is (Seeking). A request cannot mean an extend that is
reused meanwhile, since the reader is then still in it and would be lapped. What
was read and not used is kept (Keeping), which gives AcceptedOnce, because every
login is new (Sorted).
The attempt to prove it for more than two extends failed at first: where the
process that served died before it counted the first login of an extend, the
extend still has its old count, and a standby that is a whole round old finds its
position there. It goes on behind the old logins, which are then read as new. TLC
shows it with three extends; the two of the run had hidden it, and the restriction
was completed.

*QueryChain.* OneQuery, for any details and any depth of them, any number of
events and rows, patient and hasty users, with refusals and failures; no assumption
is needed, for a query takes only a block that is free, however the chains overtake
each other. A stack grows and shrinks at its front, so `Inv` knows a call by its
height above the outermost one (Heights), which does not change while it lives.
Known says that the query manager's number of a block is not 0 exactly while there
is one such call (Free, Taken). Calls is what makes the end of a query find its
master: a master that shows its rows lies directly under the details it has called;
and what replaces a whole stack (triggers, the wait of enterQuery) is alone on it
(Sound). Each step displays what its event displayed, one call more or one call
less (Staying, Beginning, Ending).

*RecordWindow.* TypeOK, Aligned, NoFalseEnd and RightRecord, for any number of rows
on the screen, any size of the arrays, any table, any number of inserts and deletes,
with triggers that refuse. Three invariants build on each other.
`Types` holds of every user: what a call carries at each stage, that the records
handed out are no more than those in the cache although two calls may prepare one
each (Counted), and that a delete has looked up its record (Found).
`Rightly` holds until an insert overtakes a delete, of every user: a record is in the
cache once (Once), no deleted one is (Gone), all others that were read are (Kept), and
a delete finds its own where it has looked it up (Located). It gives RightRecord.
`Together` is for a patient user, whose calls come one at a time, until something
strays. It says for each stage of each call how screen, `row$`, `record$`, focus and
`hwm$` stand to each other: at rest they fit (Settled), in a loop of fetches the target
of prefetch is ahead or the table has ended (Loop), before a scroll the window it goes
to is filled (Filled, Leaving), before the rest of an insert or a delete the offset is
the one that what follows will mend. Without it nothing follows: Aligned is false
within every call and says nothing of the stages. The arithmetic of the window is
one lemma per case (WindowMoves, WindowFull, WindowTop, WindowEmpty: `Scrolled` is a
`View` of the cache), and every action has a lemma that it keeps `Together`. `Ended`
adds that `eof$` is true only when the table is read, for tables all of whose rows
pass (Entire); with the loop of a step down it gives NoFalseEnd.
The attempt to prove TypeOK as it was stated before, with `hwm$ >= 0`, failed for
hasty users, and TLC found why with arrays of six rows and three deletes: `delete`
takes the row from before its await and the record from after it, fetches too few,
and counts `hwm$` down all the same. With the bounds of the run it did not show. The
lower bound is now stated for patient users, and the fetch that then fails is modelled.

*Only model-checked:* liveness (RequestsEnd, Answered, SendEnds, Delivered,
Served, Reaped, EventsEnd, Restored, Stops), which the prover does not handle;
DetailsFollow of QueryChain, whose proof would need what the recursive functions
WithDetails and QueryMaster return.

## 6. Findings

With a run that shows it: `DatabaseTable.ts:354`, undo leaves the records in the
list of what is to be sent; a rolled back delete is executed later
(`record_undo`). Where a query follows a refused flush the same happens
(`model/Form.ts:512` does not look at the result).

Seen while modelling, and excluded from the statements by the restrictions above:

Server

- `SessionLock.java:52`: after the second loop `lock(true)` does not look at
  `exclusive` again; of two requests with savepoints that wait there the second takes
  the lock from the first. The release of the first is then refused, and if it fails
  inside a statement its shared hold is never given back (`Rest.java:2547`): no request
  with a savepoint gets the lock any more.
- `Pool.java:284`: `validate` counts free connections only; after a time-out the
  pool opens more than max.
- `Session.java:348`: ending a transaction does not wait for other requests of
  the session; their connection is given away.
- `Rest.java:1342`: an update without "sql" returns after lock and savepoint were
  taken. `Rest.java:1311`: the nested select of an update with assertions
  releases the session, and the update releases it again.
- `MailBox.java:48,138`: two locks guard one position; `write` never marks an
  extent as used: with two threads on an extent a page may be that of the other.
- `RESTClient.java:106`: `send` looks its response up and leaves it in `incoming`.
  The next request of the thread finds it and takes it for its own; its own
  request is carried meanwhile, and its answer is left for the one after.
- `RESTClient.java:164`: `failed()` wakes nobody. `LoadBalancer.java:90`: a client
  that fails late clears the slot of its successor. `RESTClient.java:78`: the two
  channels are told apart by the order in which two sleeps end.
- `HTTPChannel.java:515`: the handshake has no timeout: a thread of the pool spins
  while the client is silent; so it does at line 438 while a client does not read its
  response. The pool is fixed and serves all clients (`ThreadPool.java:31`), so that as
  many such clients as threads stop the service, and the reaper does not help.
- `HTTPChannel.java:319`: `readssl` drops what it has of a TLS record that arrives in
  two parts, or spins on it.
- `HTTPChannel.java:315`: buffers are shared by the worker that ends a response
  and the waiter that reads the next request; with a client that does not wait
  for the worker that request is lost.
- `Server.java:189,372`: two HTTP processes that are in `startup()` at once may
  bind one socket each; the one without the admin socket goes on as if it had
  none, and nobody can take over.
- `Server.java:402`: a process that is being started while the cluster is stopped
  survives the stop and starts all others again.
- `ProcessMonitor.java:222`: a watcher ends after it has been notified once; a
  process whose take-over failed, because somebody held the lock for a moment
  (`noManager`, another watcher), does not watch any longer. The heartbeat still
  restarts what is missing.
- `Server.java:113`: two processes of one id that are started together both find
  the other and both end. Two others that start them may do so at each heartbeat.
- `Cluster.java:102`: `readdata` reads the two version bytes in the order in which
  `writedata` writes them, so that a torn read can pass; `getStopped` reads them
  the other way round. The bytes wrap around after 256 writes.
- `PreAuthTable.java:278`: `write` and `refresh` are not synchronized;
  `PreAuthTable.java:112`: the next extend is published before its old count is
  reset; a hot standby writes from the position it had when it started, which
  may be a round old and look right;
  `PreAuthRecord.size` counts characters where `put` writes bytes; in a REST
  process logins do not expire, since only the HTTP process starts the reaper, and
  each REST process accepts a login once.

Client

- `Record.ts:317`: a Date is compared with itself, its change is never saved.
- `view/Block.ts:1182`: after a refused trigger the block scrolls back by what was
  asked and not by what was moved, and the focus may stay elsewhere; a field that
  refuses after `setCurrentRow` leaves `row$` moved.
- `DataSourceWrapper.ts:515`: an array that a filter of the client has thinned is
  shorter than the fetch size and taken for the last one.
- `view/Form.ts:846,867`: delete and insert above are not awaited by the key,
  although `EventStack.ts:80` says that events run one after the other; with an
  insert in between, the position that `delete` remembers is that of another
  record. Overlapping fetches count `hwm$` twice.
- `model/Block.ts:621`: delete takes the offset of the row before it awaits the data
  source and the record after; if the user has moved meanwhile, too few rows are
  fetched, and after some deletes `hwm$` is negative and the next fetch fails.
- After the last record was deleted from the first row, or an insert above in an
  empty block, `row$` is -1 and `setCurrentRow` no longer moves the record.
- An insert next to an untouched new record, or one refused after the move, leaves
  a record on the screen that has been dropped.
- Deleting the last record of a master leaves the rows of its details; so does
  query mode of a master that is cancelled.
- `model/Block.ts:822`: a query that is answered while the block shows a row, one that
  was inserted meanwhile, returns without `setRunning(null)`: the next query of the
  block waits for ever, and so does the form's `enterQuery`.
- `model/Block.ts:790`: the chain counter belongs to the form, so that a waiting
  query is given up although only a query of another block is newer.
- `FilterStructure.evaluate` works from left to right without precedence, and
  skips a first entry that was added with `or()`, unlike the SQL it builds; a
  nested structure may begin with an operator; `delete` does not lower the name.

## 7. Not modelled

HTTP and file parsing, configuration, logging and TLS (sequential, or wrappers of
the platform), the exit of an HTTP process that finds its port taken where there is no
hot standby (`HTTPServer.java:229`; the clusters modelled have one), the text of SQL, layout and DOM of the view with its fields and
formatter, menus, the form generator and the demo applications. They are the
larger part of the repository's lines, and keep hardly any state that others
disturb. Of the parts that are modelled, section 3 and the components of
`PROJECT.json` name what is left out; section 2 says what is planned next.
