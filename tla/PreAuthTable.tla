----------------------------- MODULE PreAuthTable -----------------------------
(***************************************************************************)
(* The table of preauthorised logins: a file of extends, written in turn   *)
(* by the HTTP process that is asked to authenticate a user (AdminHandler, *)
(* PreAuthTable.Writer) and read by a REST process when a client connects  *)
(* with the login it was given (Rest.connect, SessionManager.refresh and   *)
(* validate, PreAuthTable.Reader).                                         *)
(*                                                                         *)
(* The names of users have one length, so that an extend holds a fixed     *)
(* number of logins and an offset is the number of a slot.                 *)
(***************************************************************************)
EXTENDS Integers, Sequences, FiniteSets

CONSTANTS
  Extends,      \* EXTENDS, at least 1
  Slots,        \* logins that fit into an extend, at least 1
  Writers,      \* HTTP processes: the one that serves and, if hot, its standby
  Callers,      \* threads of the HTTP process that authenticate
  Requests,     \* threads of the REST process that connect
  MaxLogins,    \* bound: logins that are written
  MaxStarts     \* bound: starts of processes

ASSUME TableAssumption == {Extends, Slots} \subseteq Nat \ {0}

VARIABLES
  current, entries, slot,   \* the file: extend in use; logins in each extend; logins
  active, writer, call,     \* the HTTP process that serves; positions; calls of write()
  reader, request, preauth, \* the REST process: position; calls of connect; logins
  starts,                   \* starts so far
  last, log,                \* the last login begun, and those that are complete (history)
  counted,                  \* has the extend in use been counted yet? (history)
  first, got, used,         \* what was complete when the REST process started, what it
                            \* has read since, which logins it has accepted (history)
  misjudged,                \* was a login refused or accepted wrongly? (history)
  strayed                   \* what has gone wrong (history)

file == <<current, entries, slot>>
http == <<active, writer, call>>
rest == <<reader, request, preauth>>
written == <<last, log, counted>>
taken == <<first, got, used, misjudged>>
vars == <<file, http, rest, starts, written, taken, strayed>>

None == 0
Down == [extend |-> -1, offset |-> 0, entries |-> 0]
NoCall == [at |-> "idle", login |-> None, extend |-> 0, offset |-> 0, entries |-> 0]
NoRequest == [at |-> "idle", login |-> None, current |-> 0, records |-> 0, recs |-> {},
              fresh |-> FALSE]

InitWith(n) ==
  /\ current = 0 /\ entries = [e \in 0..(Extends - 1) |-> 0]
  /\ slot = [e \in 0..(Extends - 1) |-> [i \in 0..(Slots - 1) |-> None]]
  /\ active = {} /\ writer = [w \in Writers |-> Down]
  /\ call = [c \in Callers |-> NoCall]
  /\ reader = Down /\ request = [q \in Requests |-> NoRequest] /\ preauth = {}
  /\ starts = n /\ last = None /\ log = <<>> /\ counted = TRUE
  /\ first = 0 /\ got = <<>> /\ used = {} /\ misjudged = FALSE /\ strayed = {}

Init == InitWith(0)

Strays(what, when) == strayed' = IF when THEN strayed \cup {what} ELSE strayed

\* next(extend)
After(extend) == (extend + 1) % Extends

-----------------------------------------------------------------------------
(* Processes start and end. *)

\* Mutant: the position is the beginning of the extend.
OpenedBefore == [extend |-> current, offset |-> 0, entries |-> entries[current]]

\* PreAuthTable(): the end of the extend in use.
Opened == [extend |-> current, offset |-> entries[current], entries |-> entries[current]]

StartWriter(w) ==
  /\ writer[w] = Down /\ starts < MaxStarts
  /\ starts' = starts + 1
  /\ writer' = [writer EXCEPT ![w] = Opened]
  /\ Strays("halfway", ~counted)
  /\ UNCHANGED <<file, active, call, rest, written, taken>>

\* A standby takes over with the position it had when it started.
Serve(w) ==
  /\ active = {} /\ writer[w] # Down
  /\ active' = {w}
  /\ Strays("standby", writer[w] # Opened \/ ~counted)
  /\ UNCHANGED <<file, writer, call, rest, starts, written, taken>>

Crash(w) ==
  /\ active = {w}
  /\ active' = {} /\ writer' = [writer EXCEPT ![w] = Down]
  /\ call' = [c \in Callers |-> NoCall]
  /\ UNCHANGED <<file, rest, starts, written, taken, strayed>>

StartReader ==
  /\ reader = Down /\ starts < MaxStarts
  /\ starts' = starts + 1
  /\ reader' = Opened
  /\ first' = Len(log) /\ got' = <<>> /\ used' = {}
  /\ Strays("halfway", ~counted)
  /\ UNCHANGED <<file, http, request, preauth, written, misjudged>>

CrashReader ==
  /\ reader # Down
  /\ reader' = Down
  /\ request' = [q \in Requests |-> NoRequest] /\ preauth' = {}
  /\ UNCHANGED <<file, http, starts, written, taken, strayed>>

-----------------------------------------------------------------------------
(* Writer.write, for a user who is authenticated. *)

\* The extend is full: the next one is used, and its old logins are counted until the
\* first login is in it.
Write(c) ==
  \E w \in active :
    LET full == writer[w].offset >= Slots
        at == IF full THEN [extend |-> After(writer[w].extend), offset |-> 0, entries |-> 0]
              ELSE writer[w]
        put == [at EXCEPT !.entries = @ + 1]
    IN
    /\ call[c] = NoCall /\ last < MaxLogins
    /\ last' = last + 1
    /\ current' = IF full THEN at.extend ELSE current
    /\ counted' = (counted /\ ~full)
    /\ writer' = [writer EXCEPT ![w] = put]
    /\ call' = [call EXCEPT ![c] = [at |-> "put", login |-> last', extend |-> put.extend,
                                    offset |-> put.offset, entries |-> put.entries]]
    /\ strayed' = strayed
         \cup (IF \E d \in Callers : call[d] # NoCall THEN {"together"} ELSE {})
         \cup (IF full /\ reader # Down /\ reader.extend = at.extend THEN {"lapped"} ELSE {})
    /\ UNCHANGED <<entries, slot, active, rest, starts, log, taken>>

Put(c) ==
  /\ call[c].at = "put"
  /\ slot' = [slot EXCEPT ![call[c].extend][call[c].offset] = call[c].login]
  /\ call' = [call EXCEPT ![c].at = "count"]
  /\ UNCHANGED <<current, entries, active, writer, rest, starts, written, taken, strayed>>

\* The login is complete, and its name is answered to who asked.
Count(c) ==
  /\ call[c].at = "count"
  /\ entries' = [entries EXCEPT ![call[c].extend] = call[c].entries]
  /\ writer' = [w \in Writers |-> IF w \in active THEN [writer[w] EXCEPT !.offset = call[c].offset + 1]
                                  ELSE writer[w]]
  /\ call' = [call EXCEPT ![c] = NoCall]
  /\ log' = Append(log, call[c].login)
  /\ counted' = (counted \/ call[c].extend = current)
  /\ UNCHANGED <<current, slot, active, rest, starts, last, taken, strayed>>

-----------------------------------------------------------------------------
(* Reader.refresh and SessionManager.validate, for a client that connects. *)

Goto(q, r) == request' = [request EXCEPT ![q] = r]

\* A client has got its login from the HTTP process.
Connect(q, login) ==
  /\ reader # Down /\ request[q].at = "idle"
  /\ \E i \in 1..Len(log) :
       /\ log[i] = login
       /\ Goto(q, [NoRequest EXCEPT !.at = "entries", !.login = login,
                                    !.records = reader.entries, !.current = current,
                                    !.fresh = i > first /\ login \notin used])
  /\ Strays("together", \E p \in Requests : request[p].at # "idle")
  /\ UNCHANGED <<file, http, reader, preauth, starts, written, taken>>

ReadEntries(q) ==
  /\ request[q].at = "entries"
  /\ reader' = [reader EXCEPT !.entries = entries[reader.extend]]
  /\ Goto(q, [request[q] EXCEPT !.at = "loop"])
  /\ UNCHANGED <<file, http, preauth, starts, written, taken, strayed>>

\* The extend has been read, and is not the last one.
ReadOn(q) == request[q].records = reader.entries /\ reader.extend # request[q].current

NextExtend(q) ==
  LET e == After(reader.extend) IN
  /\ request[q].at = "loop" /\ ReadOn(q)
  /\ reader' = [extend |-> e, offset |-> 0, entries |-> entries[e]]
  /\ Goto(q, [request[q] EXCEPT !.at = "get", !.records = 0])
  /\ Strays("halfway", e = current /\ ~counted)
  /\ UNCHANGED <<file, http, preauth, starts, written, taken>>

Get(q) ==
  LET r == request[q]
      login == slot[reader.extend][reader.offset]
  IN
  /\ \/ r.at = "get"
     \/ r.at = "loop" /\ ~ReadOn(q) /\ (r.current # reader.extend \/ r.records < reader.entries)
  /\ reader.offset < Slots
  /\ got' = Append(got, login)
  /\ reader' = [reader EXCEPT !.offset = @ + 1]
  /\ Goto(q, [r EXCEPT !.at = "loop", !.records = @ + 1, !.recs = @ \cup {login}])
  /\ UNCHANGED <<file, http, preauth, starts, written, first, used, misjudged, strayed>>

\* Mutant: SessionManager.validate looks the login up and leaves it.
RemainingAll(known, login) == known

\* preauth.remove(username)
Remaining(known, login) == known \ {login}

\* The logins that were read are kept, and the client's one is used up.
Validate(q) ==
  LET r == request[q]
      known == preauth \cup r.recs
  IN
  /\ r.at = "loop" /\ r.current = reader.extend /\ r.records >= reader.entries
  /\ preauth' = Remaining(known, r.login)
  /\ used' = used \cup (known \cap {r.login})
  /\ misjudged' = (misjudged \/ (r.login \in known) # r.fresh)
  /\ Goto(q, NoRequest)
  /\ UNCHANGED <<file, http, reader, starts, written, first, got, strayed>>

-----------------------------------------------------------------------------
Next ==
  \/ \E w \in Writers : StartWriter(w) \/ Serve(w) \/ Crash(w)
  \/ StartReader \/ CrashReader
  \/ \E c \in Callers : Write(c) \/ Put(c) \/ Count(c)
  \/ \E q \in Requests :
       \/ \E login \in 1..last : Connect(q, login)
       \/ ReadEntries(q) \/ NextExtend(q) \/ Get(q) \/ Validate(q)

Spec == Init /\ [][Next]_vars

-----------------------------------------------------------------------------
(* Properties. *)

\* Nothing of what is known to lose logins has happened: two threads of a process in the
\* table "together", a reader or writer that comes to an extend that is not counted yet
\* ("halfway"), a "standby" whose position is older than the file, be it by an extend that
\* is not counted yet, a reader that was "lapped" by the writer.
Orderly == strayed = {}

\* A REST process reads every login that is completed after its start, in order, once and
\* whole, over extends that are used again and over restarts of the HTTP process
\* (PreAuthTable.Reader, Writer).
InOrder == Orderly => first + Len(got) <= Len(log) /\ got = SubSeq(log, first + 1, first + Len(got))

\* A login that the client was given while the REST process runs is accepted when it is
\* used for the first time, and no login is accepted otherwise (Rest.connect,
\* SessionManager.validate).
AcceptedOnce == Orderly => ~misjudged
=============================================================================
