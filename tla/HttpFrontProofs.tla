--------------------------- MODULE HttpFrontProofs ---------------------------
(***************************************************************************)
(* The theorem about the HTTP front: no request is lost.                   *)
(***************************************************************************)
EXTENDS HttpFront, TLAPS

-----------------------------------------------------------------------------
(* The inductive invariant. *)

AnyTask == [channel : Channels, kind : {"handshake", "request"}, n : Nat,
            at : {"queued", "running", "writing", "answered"}]

Types ==
  /\ client \in [Channels -> {"out", "shaking", "idle", "half", "waiting", "gone"}]
  /\ sent \in [Channels -> Nat]
  /\ inbox \in [Channels -> SUBSET Halves]
  /\ incomplete \in [Channels -> SUBSET Halves]
  /\ open \in [Channels -> BOOLEAN]
  /\ at \in {"select", "iterate"} \cup Channels
  /\ taken \subseteq Halves
  /\ tasks \subseteq AnyTask

\* The halves that have arrived and are not yet part of a request that was submitted.
Bytes(c) == inbox[c] \cup incomplete[c] \cup (IF at = c THEN taken ELSE {})

\* Between two reads nothing is in the buffer.
Unread == at \in {"select", "iterate"} => taken = {}

\* A task has all that its channel has sent.
AllIsRead == \A k \in tasks : Bytes(k.channel) = {} /\ client[k.channel] \notin {"out", "half"}

\* The client waits for the response to a request that is not answered,
Awaited ==
  \A k \in tasks : k.kind = "request" /\ k.at # "answered"
    => client[k.channel] \in {"waiting", "gone"} \/ ~open[k.channel]

\* and not for another one that is.
Told == \A k \in tasks : k.at = "answered" => client[k.channel] # "waiting" \/ ~open[k.channel]

\* Nothing is sent during a handshake.
Shaking ==
  \A k \in tasks : k.kind = "handshake" => client[k.channel] \in {"shaking", "idle", "gone"} /\ k.at \in {"queued", "running"}

\* A channel has at most one task.
OneTask == \A k, j \in tasks : k.channel = j.channel => k = j

\* Before and between requests there are no bytes.
Fresh == \A c \in Channels : client[c] \in {"out", "shaking", "idle"} => Bytes(c) = {}

\* The second half comes when the client has sent it.
Partly == \A c \in Channels : client[c] = "half" => "tail" \notin Bytes(c)

\* No half is in two places.
Once ==
  \A c \in Channels : /\ inbox[c] \cap incomplete[c] = {}
                      /\ at = c => taken \cap (inbox[c] \cup incomplete[c]) = {}

\* Where a request is that the client waits for.
Kept ==
  \A c \in Channels : client[c] = "waiting" /\ open[c] => Bytes(c) # {} \/ RequestOf(c) # {}

Inv ==
  /\ Types
  /\ Unread /\ AllIsRead /\ Awaited /\ Told /\ Shaking /\ OneTask /\ Fresh /\ Partly
  /\ Once /\ Kept

\* What the parts speak of.
core == <<client, sent, inbox, incomplete, open, at, taken, tasks>>

-----------------------------------------------------------------------------
(* Tasks that go on. *)

LEMMA TaskGoesOn ==
  ASSUME NEW k \in AnyTask, NEW a \in {"running", "writing", "answered"}
  PROVE  \E r \in AnyTask : /\ r = [k EXCEPT !.at = a]
                            /\ r.channel = k.channel /\ r.kind = k.kind /\ r.n = k.n /\ r.at = a
<1> DEFINE r == [k EXCEPT !.at = a]
<1>1. k = [channel |-> k.channel, kind |-> k.kind, n |-> k.n, at |-> k.at]
  BY DEF AnyTask
<1>2. r = [channel |-> k.channel, kind |-> k.kind, n |-> k.n, at |-> a]
  BY <1>1
<1>3. r \in AnyTask
  BY <1>2 DEF AnyTask
<1>4. r.channel = k.channel /\ r.kind = k.kind /\ r.n = k.n /\ r.at = a
  BY <1>2
<1> QED
  BY <1>3, <1>4

-----------------------------------------------------------------------------
(* Each step preserves it. *)

\* A channel is accepted.
LEMMA AcceptKeeps ==
  ASSUME Inv, NEW c \in Channels, Accept(c)
  PROVE  Inv'
<1>0. Types /\ Unread /\ AllIsRead /\ Awaited /\ Told /\ Shaking /\ OneTask /\ Fresh /\ Partly /\ Once /\ Kept
  BY DEF Inv
<1>1. /\ client[c] = "out" /\ open' = [open EXCEPT ![c] = TRUE]
      /\ \E to \in {"shaking", "idle"} : client' = [client EXCEPT ![c] = to]
      /\ UNCHANGED <<sent, inbox, incomplete, at, taken>>
      /\ tasks \subseteq tasks' /\ tasks' \subseteq tasks \cup {Task(c, "handshake")}
  BY DEF Accept, Set, waiterVars
<1>2. /\ client'[c] \in {"shaking", "idle"} /\ \A d \in Channels \ {c} : client'[d] = client[d] /\ open'[d] = open[d]
      /\ \A d \in Channels : Bytes(d)' = Bytes(d)
      /\ \A d \in Channels : RequestOf(d) \subseteq RequestOf(d)'
  BY <1>0, <1>1 DEF Types, Bytes, RequestOf
<1>3. \A k \in tasks : k.channel # c
  BY <1>0, <1>1 DEF AllIsRead
<1>4. \A k \in tasks' \ tasks : k.channel = c /\ k.kind = "handshake" /\ k.at = "queued" /\ k = Task(c, "handshake")
  BY <1>1 DEF Task
<1>5. \A k \in tasks : k.channel \in Channels
  BY <1>0 DEF Types, AnyTask
<1>6. Bytes(c) = {}
  BY <1>0, <1>1 DEF Fresh
<1>7. Types'
  BY <1>0, <1>1 DEF Types, AnyTask, Task
<1>8. Unread'
  BY <1>0, <1>1 DEF Unread
<1>9. AllIsRead'
  BY <1>0, <1>2, <1>4, <1>5, <1>6 DEF AllIsRead
<1>10. Awaited'
  BY <1>0, <1>1, <1>3, <1>4 DEF Awaited
<1>11. Told'
  BY <1>0, <1>1, <1>4 DEF Told
<1>12. Shaking'
  BY <1>0, <1>1, <1>2, <1>4 DEF Shaking
<1>13. OneTask'
  BY <1>0, <1>3, <1>4 DEF OneTask
<1>14. Fresh'
  BY <1>0, <1>1, <1>2 DEF Fresh
<1>15. Partly'
  BY <1>0, <1>2 DEF Partly
<1>16. Once'
  BY <1>0, <1>1 DEF Types, Once, Bytes
<1>17. Kept'
  BY <1>0, <1>2 DEF Kept
<1> QED
  BY <1>7, <1>8, <1>9, <1>10, <1>11, <1>12, <1>13, <1>14, <1>15, <1>16, <1>17 DEF Inv

\* A client begins a request when the worker of the last one is done.
LEMMA SendHeadKeeps ==
  ASSUME Inv, Patient, NEW c \in Channels, SendHead(c)
  PROVE  Inv'
<1>0. Types /\ Unread /\ AllIsRead /\ Awaited /\ Told /\ Shaking /\ OneTask /\ Fresh /\ Partly /\ Once /\ Kept
  BY DEF Inv
<1>1. /\ client[c] = "idle" /\ open[c] /\ client' = [client EXCEPT ![c] = "half"]
      /\ inbox' = [inbox EXCEPT ![c] = inbox[c] \cup {"head"}] /\ sent' = [sent EXCEPT ![c] = sent[c] + 1]
      /\ UNCHANGED <<incomplete, open, at, taken, tasks>>
  BY DEF SendHead, ClientStep, Set, channelVars, waiterVars
<1>2. /\ client'[c] = "half" /\ \A d \in Channels \ {c} : client'[d] = client[d]
      /\ Bytes(c)' = Bytes(c) \cup {"head"} /\ \A d \in Channels \ {c} : Bytes(d)' = Bytes(d)
  BY <1>0, <1>1 DEF Types, Bytes
<1>3. \A d \in Channels \ {c} : RequestOf(d)' = RequestOf(d)
  BY <1>0, <1>1 DEF Types, RequestOf
<1>4. \A k \in tasks : k.channel \in Channels
  BY <1>0 DEF Types, AnyTask
<1>5. \A k \in tasks : k.channel # c
  BY DEF SendHead
<1>6. Bytes(c) = {}
  BY <1>0, <1>1 DEF Fresh
<1>7. Types'
  BY <1>0, <1>1 DEF Types, AnyTask, Halves
<1>8. Unread'
  BY <1>0, <1>1 DEF Unread
<1>9. AllIsRead'
  BY <1>0, <1>1, <1>2, <1>4, <1>5 DEF AllIsRead
<1>10. Awaited'
  BY <1>0, <1>1 DEF Awaited
<1>11. Told'
  BY <1>0, <1>1 DEF Told
<1>12. Shaking'
  BY <1>0, <1>1, <1>5 DEF Shaking
<1>13. OneTask'
  BY <1>0, <1>1 DEF OneTask
<1>14. Fresh'
  BY <1>0, <1>2 DEF Fresh
<1>15. Partly'
  BY <1>0, <1>2, <1>6 DEF Partly
<1>16. Once'
  BY <1>0, <1>1, <1>6 DEF Types, Once, Bytes
<1>17. Kept'
  BY <1>0, <1>1, <1>2, <1>3 DEF Kept
<1> QED
  BY <1>7, <1>8, <1>9, <1>10, <1>11, <1>12, <1>13, <1>14, <1>15, <1>16, <1>17 DEF Inv

\* A client ends its request.
LEMMA SendTailKeeps ==
  ASSUME Inv, NEW c \in Channels, SendTail(c)
  PROVE  Inv'
<1>0. Types /\ Unread /\ AllIsRead /\ Awaited /\ Told /\ Shaking /\ OneTask /\ Fresh /\ Partly /\ Once /\ Kept
  BY DEF Inv
<1>1. /\ client[c] = "half" /\ open[c] /\ client' = [client EXCEPT ![c] = "waiting"]
      /\ inbox' = [inbox EXCEPT ![c] = inbox[c] \cup {"tail"}] /\ sent' = [sent EXCEPT ![c] = sent[c] + 0]
      /\ UNCHANGED <<incomplete, open, at, taken, tasks>>
  BY DEF SendTail, ClientStep, Set, channelVars, waiterVars
<1>2. /\ client'[c] = "waiting" /\ \A d \in Channels \ {c} : client'[d] = client[d]
      /\ Bytes(c)' = Bytes(c) \cup {"tail"} /\ \A d \in Channels \ {c} : Bytes(d)' = Bytes(d)
  BY <1>0, <1>1 DEF Types, Bytes
<1>3. \A d \in Channels \ {c} : RequestOf(d)' = RequestOf(d)
  BY <1>0, <1>1 DEF Types, RequestOf
<1>4. \A k \in tasks : k.channel \in Channels
  BY <1>0 DEF Types, AnyTask
<1>5. \A k \in tasks : k.channel # c
  BY <1>0, <1>1 DEF AllIsRead
<1>6. "tail" \notin inbox[c] \cup incomplete[c] /\ (at = c => "tail" \notin taken)
  BY <1>0, <1>1 DEF Partly, Bytes
<1>7. Types'
  BY <1>0, <1>1 DEF Types, AnyTask, Halves
<1>8. Unread'
  BY <1>0, <1>1 DEF Unread
<1>9. AllIsRead'
  BY <1>0, <1>1, <1>2, <1>4 DEF AllIsRead
<1>10. Awaited'
  BY <1>0, <1>1 DEF Awaited
<1>11. Told'
  BY <1>0, <1>1, <1>5 DEF Told
<1>12. Shaking'
  BY <1>0, <1>1 DEF Shaking
<1>13. OneTask'
  BY <1>0, <1>1 DEF OneTask
<1>14. Fresh'
  BY <1>0, <1>2 DEF Fresh
<1>15. Partly'
  BY <1>0, <1>2 DEF Partly
<1>16. Once'
  BY <1>0, <1>1, <1>6 DEF Types, Once
<1>17. Kept'
  BY <1>0, <1>1, <1>2, <1>3 DEF Kept
<1> QED
  BY <1>7, <1>8, <1>9, <1>10, <1>11, <1>12, <1>13, <1>14, <1>15, <1>16, <1>17 DEF Inv

\* A client does its part of the handshake.
LEMMA ShakeKeeps ==
  ASSUME Inv, NEW c \in Channels, Shake(c)
  PROVE  Inv'
<1>0. Types /\ Unread /\ AllIsRead /\ Awaited /\ Told /\ Shaking /\ OneTask /\ Fresh /\ Partly /\ Once /\ Kept
  BY DEF Inv
<1>1. /\ client[c] = "shaking" /\ open[c] /\ client' = [client EXCEPT ![c] = "idle"]
      /\ inbox' = [inbox EXCEPT ![c] = inbox[c] \cup {}] /\ sent' = [sent EXCEPT ![c] = sent[c] + 0]
      /\ UNCHANGED <<incomplete, open, at, taken, tasks>>
  BY DEF Shake, ClientStep, Set, channelVars, waiterVars
<1>2. /\ client'[c] = "idle" /\ \A d \in Channels \ {c} : client'[d] = client[d]
      /\ Bytes(c)' = Bytes(c) \cup {} /\ \A d \in Channels \ {c} : Bytes(d)' = Bytes(d)
  BY <1>0, <1>1 DEF Types, Bytes
<1>3. \A d \in Channels \ {c} : RequestOf(d)' = RequestOf(d)
  BY <1>0, <1>1 DEF Types, RequestOf
<1>4. \A k \in tasks : k.channel \in Channels
  BY <1>0 DEF Types, AnyTask
<1>5. Types'
  BY <1>0, <1>1 DEF Types, AnyTask, Halves
<1>6. Unread'
  BY <1>0, <1>1 DEF Unread
<1>7. AllIsRead'
  BY <1>0, <1>1, <1>2, <1>4 DEF AllIsRead
<1>8. Awaited'
  BY <1>0, <1>1 DEF Awaited
<1>9. Told'
  BY <1>0, <1>1 DEF Told
<1>10. Shaking'
  BY <1>0, <1>1 DEF Shaking
<1>11. OneTask'
  BY <1>0, <1>1 DEF OneTask
<1>12. Fresh'
  BY <1>0, <1>1, <1>2 DEF Fresh
<1>13. Partly'
  BY <1>0, <1>2 DEF Partly
<1>14. Once'
  BY <1>0, <1>1 DEF Types, Once, Bytes
<1>15. Kept'
  BY <1>0, <1>1, <1>2, <1>3 DEF Kept
<1> QED
  BY <1>5, <1>6, <1>7, <1>8, <1>9, <1>10, <1>11, <1>12, <1>13, <1>14, <1>15 DEF Inv

\* A client goes away.
LEMMA LeaveKeeps ==
  ASSUME Inv, NEW c \in Channels, Leave(c)
  PROVE  Inv'
<1>0. Types /\ Unread /\ AllIsRead /\ Awaited /\ Told /\ Shaking /\ OneTask /\ Fresh /\ Partly /\ Once /\ Kept
  BY DEF Inv
<1>1. /\ client[c] \in {"shaking", "idle", "half", "waiting"} /\ open[c] /\ client' = [client EXCEPT ![c] = "gone"]
      /\ inbox' = [inbox EXCEPT ![c] = inbox[c] \cup {}] /\ sent' = [sent EXCEPT ![c] = sent[c] + 0]
      /\ UNCHANGED <<incomplete, open, at, taken, tasks>>
  BY DEF Leave, ClientStep, Set, channelVars, waiterVars
<1>2. /\ client'[c] = "gone" /\ \A d \in Channels \ {c} : client'[d] = client[d]
      /\ Bytes(c)' = Bytes(c) \cup {} /\ \A d \in Channels \ {c} : Bytes(d)' = Bytes(d)
  BY <1>0, <1>1 DEF Types, Bytes
<1>3. \A d \in Channels \ {c} : RequestOf(d)' = RequestOf(d)
  BY <1>0, <1>1 DEF Types, RequestOf
<1>4. \A k \in tasks : k.channel \in Channels
  BY <1>0 DEF Types, AnyTask
<1>5. Types'
  BY <1>0, <1>1 DEF Types, AnyTask, Halves
<1>6. Unread'
  BY <1>0, <1>1 DEF Unread
<1>7. AllIsRead'
  BY <1>0, <1>1, <1>2, <1>4 DEF AllIsRead
<1>8. Awaited'
  BY <1>0, <1>1 DEF Awaited
<1>9. Told'
  BY <1>0, <1>1 DEF Told
<1>10. Shaking'
  BY <1>0, <1>1 DEF Shaking
<1>11. OneTask'
  BY <1>0, <1>1 DEF OneTask
<1>12. Fresh'
  BY <1>0, <1>2 DEF Fresh
<1>13. Partly'
  BY <1>0, <1>2 DEF Partly
<1>14. Once'
  BY <1>0, <1>1 DEF Types, Once, Bytes
<1>15. Kept'
  BY <1>0, <1>1, <1>2, <1>3 DEF Kept
<1> QED
  BY <1>5, <1>6, <1>7, <1>8, <1>9, <1>10, <1>11, <1>12, <1>13, <1>14, <1>15 DEF Inv

\* A task gets a thread.
LEMMA RunKeeps ==
  ASSUME Inv, NEW k \in tasks, Run(k)
  PROVE  Inv'
<1>0. Types /\ Unread /\ AllIsRead /\ Awaited /\ Told /\ Shaking /\ OneTask /\ Fresh /\ Partly /\ Once /\ Kept
  BY DEF Inv
<1>1. /\ k.at = "queued" /\ tasks' = (tasks \ {k}) \cup {[k EXCEPT !.at = "running"]}
      /\ UNCHANGED <<client, sent, inbox, incomplete, open, at, taken>>
  BY DEF Run, channelVars, waiterVars
<1>2. \A j \in tasks : j \in AnyTask /\ j.channel \in Channels
  BY <1>0 DEF Types, AnyTask
<1>3. PICK r \in AnyTask : /\ r = [k EXCEPT !.at = "running"]
                        /\ r.channel = k.channel /\ r.kind = k.kind /\ r.n = k.n /\ r.at = "running"
  BY <1>2, TaskGoesOn
<1>4. \A j \in tasks' : j = r \/ (j \in tasks /\ j # k /\ j.channel # k.channel)
  BY <1>0, <1>1, <1>3 DEF OneTask
<1>5. /\ \A d \in Channels : Bytes(d)' = Bytes(d)
      /\ \A d \in Channels : RequestOf(d) # {} => RequestOf(d)' # {}
  BY <1>1, <1>3 DEF Types, Bytes, RequestOf
<1>6. Types'
  BY <1>0, <1>1 DEF Types, AnyTask
<1>7. Unread'
  BY <1>0, <1>1 DEF Unread
<1>8. AllIsRead'
  BY <1>0, <1>1, <1>2, <1>3, <1>5 DEF AllIsRead
<1>9. Awaited'
  BY <1>0, <1>1, <1>3 DEF Awaited
<1>10. Told'
  BY <1>0, <1>1, <1>3 DEF Told
<1>11. Shaking'
  BY <1>0, <1>1, <1>3 DEF Shaking
<1>12. OneTask'
  BY <1>0, <1>2, <1>3, <1>4, <1>5 DEF OneTask
<1>13. Fresh'
  BY <1>0, <1>1, <1>5 DEF Fresh
<1>14. Partly'
  BY <1>0, <1>1, <1>5 DEF Partly
<1>15. Once'
  BY <1>0, <1>1 DEF Types, Once, Bytes
<1>16. Kept'
  BY <1>0, <1>1, <1>5 DEF Kept
<1> QED
  BY <1>6, <1>7, <1>8, <1>9, <1>10, <1>11, <1>12, <1>13, <1>14, <1>15, <1>16 DEF Inv

\* A handshake ends.
LEMMA HandshakeEndsKeeps ==
  ASSUME Inv, NEW k \in tasks, HandshakeEnds(k)
  PROVE  Inv'
<1>0. Types /\ Unread /\ AllIsRead /\ Awaited /\ Told /\ Shaking /\ OneTask /\ Fresh /\ Partly /\ Once /\ Kept
  BY DEF Inv
<1>1. /\ k.kind = "handshake" /\ tasks' = tasks \ {k} /\ \E ok \in BOOLEAN : open' = [open EXCEPT ![k.channel] = ok]
      /\ UNCHANGED <<client, sent, inbox, incomplete, at, taken>>
  BY DEF HandshakeEnds, Shaken, Running, Set, waiterVars
<1>2. \A j \in tasks : j.channel \in Channels
  BY <1>0 DEF Types, AnyTask
<1>3. /\ \A d \in Channels : Bytes(d)' = Bytes(d)
      /\ \A d \in Channels : RequestOf(d)' = RequestOf(d)
  BY <1>0, <1>1 DEF Types, Bytes, RequestOf
<1>4. open' \in [Channels -> BOOLEAN] /\ \A d \in Channels \ {k.channel} : open'[d] = open[d]
  BY <1>0, <1>1 DEF Types
<1>5. \A j \in tasks' : j \in tasks /\ j # k /\ j.channel # k.channel
  BY <1>0, <1>1 DEF OneTask
<1>6. client[k.channel] \in {"shaking", "idle", "gone"}
  BY <1>0, <1>1 DEF Shaking
<1>7. Types'
  BY <1>0, <1>1 DEF Types, AnyTask
<1>8. Unread'
  BY <1>0, <1>1 DEF Unread
<1>9. AllIsRead'
  BY <1>0, <1>1, <1>2, <1>3 DEF AllIsRead
<1>10. Awaited'
  BY <1>0, <1>1, <1>5 DEF Awaited
<1>11. Told'
  BY <1>0, <1>1, <1>5 DEF Told
<1>12. Shaking'
  BY <1>0, <1>1 DEF Shaking
<1>13. OneTask'
  BY <1>0, <1>1 DEF OneTask
<1>14. Fresh'
  BY <1>0, <1>1, <1>3 DEF Fresh
<1>15. Partly'
  BY <1>0, <1>1, <1>3 DEF Partly
<1>16. Once'
  BY <1>0, <1>1 DEF Types, Once, Bytes
<1>17. Kept'
  BY <1>0, <1>1, <1>3, <1>6 DEF Kept
<1> QED
  BY <1>7, <1>8, <1>9, <1>10, <1>11, <1>12, <1>13, <1>14, <1>15, <1>16, <1>17 DEF Inv

\* A handshake is refused.
LEMMA HandshakeRefusedKeeps ==
  ASSUME Inv, NEW k \in tasks, HandshakeRefused(k)
  PROVE  Inv'
<1>0. Types /\ Unread /\ AllIsRead /\ Awaited /\ Told /\ Shaking /\ OneTask /\ Fresh /\ Partly /\ Once /\ Kept
  BY DEF Inv
<1>1. /\ k.kind = "handshake" /\ tasks' = tasks \ {k} /\ open' = open
      /\ UNCHANGED <<client, sent, inbox, incomplete, at, taken>>
  BY DEF HandshakeRefused, Shaken, Running, waiterVars
<1>2. \A j \in tasks : j.channel \in Channels
  BY <1>0 DEF Types, AnyTask
<1>3. /\ \A d \in Channels : Bytes(d)' = Bytes(d)
      /\ \A d \in Channels : RequestOf(d)' = RequestOf(d)
  BY <1>0, <1>1 DEF Types, Bytes, RequestOf
<1>4. open' \in [Channels -> BOOLEAN] /\ \A d \in Channels \ {k.channel} : open'[d] = open[d]
  BY <1>0, <1>1 DEF Types
<1>5. \A j \in tasks' : j \in tasks /\ j # k /\ j.channel # k.channel
  BY <1>0, <1>1 DEF OneTask
<1>6. client[k.channel] \in {"shaking", "idle", "gone"}
  BY <1>0, <1>1 DEF Shaking
<1>7. Types'
  BY <1>0, <1>1 DEF Types, AnyTask
<1>8. Unread'
  BY <1>0, <1>1 DEF Unread
<1>9. AllIsRead'
  BY <1>0, <1>1, <1>2, <1>3 DEF AllIsRead
<1>10. Awaited'
  BY <1>0, <1>1 DEF Awaited
<1>11. Told'
  BY <1>0, <1>1 DEF Told
<1>12. Shaking'
  BY <1>0, <1>1 DEF Shaking
<1>13. OneTask'
  BY <1>0, <1>1 DEF OneTask
<1>14. Fresh'
  BY <1>0, <1>1, <1>3 DEF Fresh
<1>15. Partly'
  BY <1>0, <1>1, <1>3 DEF Partly
<1>16. Once'
  BY <1>0, <1>1 DEF Types, Once, Bytes
<1>17. Kept'
  BY <1>0, <1>1, <1>3 DEF Kept
<1> QED
  BY <1>7, <1>8, <1>9, <1>10, <1>11, <1>12, <1>13, <1>14, <1>15, <1>16, <1>17 DEF Inv

\* The waiter takes what has arrived.
LEMMA StartReadKeeps ==
  ASSUME Inv, NEW c \in Channels, StartRead(c)
  PROVE  Inv'
<1>0. Types /\ Unread /\ AllIsRead /\ Awaited /\ Told /\ Shaking /\ OneTask /\ Fresh /\ Partly /\ Once /\ Kept
  BY DEF Inv
<1>1. /\ at = "iterate" /\ at \notin Channels /\ UNCHANGED <<client, sent, incomplete, tasks>>
      /\ open' = open \/ open' = [open EXCEPT ![c] = FALSE]
      /\ \/ UNCHANGED <<inbox, at, taken>>
         \/ taken' = inbox[c] /\ at' = c /\ inbox' = [inbox EXCEPT ![c] = {}]
  BY FrontAssumption DEF StartRead, NullRead, Closed, Set
<1>2. taken = {} /\ \A d \in Channels : at # d
  BY <1>0, <1>1 DEF Unread
<1>3. /\ \A d \in Channels : Bytes(d)' = Bytes(d)
      /\ \A d \in Channels : RequestOf(d)' = RequestOf(d)
  BY <1>0, <1>1 DEF Types, Bytes, RequestOf
<1>4. open' \in [Channels -> BOOLEAN] /\ \A d \in Channels : open'[d] => open[d]
  BY <1>0, <1>1 DEF Types
<1>5. \A k \in tasks : k.channel \in Channels
  BY <1>0 DEF Types, AnyTask
<1>6. Types'
  BY <1>0, <1>1 DEF Types, AnyTask
<1>7. Unread'
  BY <1>1, <1>2, FrontAssumption DEF Unread
<1>8. AllIsRead'
  BY <1>0, <1>1, <1>3, <1>5 DEF AllIsRead
<1>9. Awaited'
  BY <1>0, <1>1, <1>4, <1>5 DEF Awaited
<1>10. Told'
  BY <1>0, <1>1, <1>4, <1>5 DEF Told
<1>11. Shaking'
  BY <1>0, <1>1 DEF Shaking
<1>12. OneTask'
  BY <1>0, <1>1 DEF OneTask
<1>13. Fresh'
  BY <1>0, <1>1, <1>3 DEF Fresh
<1>14. Partly'
  BY <1>0, <1>1, <1>3 DEF Partly
<1>15. Once'
  BY <1>0, <1>1 DEF Types, Once
<1>16. Kept'
  BY <1>0, <1>1, <1>3, <1>4 DEF Kept
<1> QED
  BY <1>6, <1>7, <1>8, <1>9, <1>10, <1>11, <1>12, <1>13, <1>14, <1>15, <1>16 DEF Inv

\* The waiter reads: a whole request becomes a task.
LEMMA EndReadKeeps ==
  ASSUME Inv, NEW c \in Channels, EndRead(c)
  PROVE  Inv'
<1>0. Types /\ Unread /\ AllIsRead /\ Awaited /\ Told /\ Shaking /\ OneTask /\ Fresh /\ Partly /\ Once /\ Kept
  BY DEF Inv
<1>1. /\ at = c /\ at' = "iterate" /\ taken' = {} /\ at' \notin Channels /\ UNCHANGED <<client, sent, inbox>>
      /\ \/ taken = {} /\ UNCHANGED <<incomplete, tasks>> /\ (open' = open \/ open' = [open EXCEPT ![c] = FALSE])
         \/ /\ taken # {} /\ incomplete[c] \cup taken # Halves /\ UNCHANGED <<open, tasks>>
            /\ incomplete' = [incomplete EXCEPT ![c] = incomplete[c] \cup taken]
         \/ /\ taken # {} /\ incomplete[c] \cup taken = Halves /\ open' = open
            /\ incomplete' = [incomplete EXCEPT ![c] = {}] /\ tasks' = tasks \cup {Task(c, "request")}
         \/ /\ taken # {} /\ tasks' = tasks
            /\ incomplete' = [incomplete EXCEPT ![c] = {}] /\ open' = [open EXCEPT ![c] = FALSE]
  BY FrontAssumption DEF EndRead, NullRead, Closed, Set, Gathered, Remaining, Submit
<1>2. \A k \in tasks : k \in AnyTask /\ k.channel \in Channels
  BY <1>0 DEF Types, AnyTask
<1>3. /\ Task(c, "request") \in AnyTask /\ Task(c, "request").channel = c /\ Task(c, "request").n = sent[c]
      /\ Task(c, "request").kind = "request" /\ Task(c, "request").at = "queued"
  BY <1>0 DEF Types, AnyTask, Task
<1>4. /\ open' \in [Channels -> BOOLEAN] /\ \A d \in Channels : open'[d] => open[d]
      /\ \A d \in Channels \ {c} : open'[d] = open[d]
  BY <1>0, <1>1 DEF Types
<1>5. /\ Bytes(c) = inbox[c] \cup incomplete[c] \cup taken /\ Bytes(c)' = inbox[c] \cup incomplete'[c]
      /\ \A d \in Channels \ {c} : Bytes(d)' = Bytes(d)
  BY <1>0, <1>1 DEF Types, Bytes
<1>6. /\ inbox[c] \cap (incomplete[c] \cup taken) = {}
      /\ inbox[c] \subseteq Halves /\ incomplete[c] \subseteq Halves
  BY <1>0, <1>1 DEF Once, Types
<1>7. \/ taken = {} /\ UNCHANGED <<incomplete, tasks>> /\ Bytes(c)' = Bytes(c)
      \/ taken # {} /\ tasks' = tasks /\ Bytes(c)' = Bytes(c)
      \/ /\ incomplete[c] \cup taken = Halves /\ tasks' = tasks \cup {Task(c, "request")}
         /\ Bytes(c)' = {} /\ open' = open
      \/ tasks' = tasks /\ ~open'[c] /\ Bytes(c)' \subseteq Bytes(c)
  BY <1>0, <1>1, <1>5, <1>6 DEF Types
<1>8. \A d \in Channels : RequestOf(d) \subseteq RequestOf(d)'
  BY <1>0, <1>1 DEF Types, RequestOf
<1>9. /\ tasks \subseteq tasks' /\ \A k \in tasks' \ tasks : k = Task(c, "request")
      /\ tasks' # tasks => Halves \subseteq Bytes(c) /\ Bytes(c)' = {} /\ RequestOf(c)' # {}
  BY <1>1, <1>3, <1>5, <1>7 DEF Types, RequestOf
<1>10. tasks' # tasks => client[c] \in {"waiting", "gone"} /\ \A k \in tasks : k.channel # c
  BY <1>0, <1>9 DEF Types, Halves, AllIsRead, Fresh, Partly
<1>11. \/ Bytes(c)' = Bytes(c)
       \/ Bytes(c)' = {} /\ RequestOf(c)' # {}
       \/ Bytes(c)' \subseteq Bytes(c) /\ ~open'[c]
  BY <1>1, <1>3, <1>7 DEF RequestOf
<1>12. Types'
  BY <1>0, <1>1, <1>3, <1>4 DEF Types, AnyTask
<1>13. Unread'
  BY <1>1 DEF Unread
<1>14. AllIsRead'
  BY <1>0, <1>1, <1>2, <1>3, <1>5, <1>7, <1>10 DEF AllIsRead
<1>15. Awaited'
  BY <1>0, <1>1, <1>2, <1>3, <1>4, <1>10 DEF Awaited
<1>16. Told'
  BY <1>0, <1>1, <1>2, <1>3, <1>4 DEF Told
<1>17. Shaking'
  BY <1>0, <1>1, <1>3 DEF Shaking
<1>18. OneTask'
  BY <1>0, <1>1, <1>3, <1>10 DEF OneTask
<1>19. Fresh'
  BY <1>0, <1>1, <1>5 DEF Fresh
<1>20. Partly'
  BY <1>0, <1>1, <1>5, <1>7 DEF Partly
<1>21. Once'
  BY <1>0, <1>1 DEF Types, Once
<1>22. Kept'
  BY <1>0, <1>1, <1>4, <1>5, <1>8, <1>11 DEF Kept
<1> QED
  BY <1>12, <1>13, <1>14, <1>15, <1>16, <1>17, <1>18, <1>19, <1>20, <1>21, <1>22 DEF Inv

\* A worker responds.
LEMMA RespondKeeps ==
  ASSUME Inv, NEW k \in tasks, Respond(k)
  PROVE  Inv'
<1>0. Types /\ Unread /\ AllIsRead /\ Awaited /\ Told /\ Shaking /\ OneTask /\ Fresh /\ Partly /\ Once /\ Kept
  BY DEF Inv
<1>1. /\ k.kind = "request" /\ k.at # "answered" /\ tasks' = (tasks \ {k}) \cup {[k EXCEPT !.at = "answered"]}
      /\ UNCHANGED <<sent, inbox, incomplete, open, at, taken>>
      /\ client' = IF client[k.channel] = "waiting" /\ open[k.channel]
                   THEN [client EXCEPT ![k.channel] = "idle"] ELSE client
  BY DEF Respond, Responding, Answered, Set, channelVars, waiterVars
<1>2. \A j \in tasks : j \in AnyTask /\ j.channel \in Channels
  BY <1>0 DEF Types, AnyTask
<1>3. PICK r \in AnyTask : /\ r = [k EXCEPT !.at = "answered"]
                        /\ r.channel = k.channel /\ r.kind = k.kind /\ r.n = k.n /\ r.at = "answered"
  BY <1>2, TaskGoesOn
<1>4. \A j \in tasks' : j = r \/ (j \in tasks /\ j # k /\ j.channel # k.channel)
  BY <1>0, <1>1, <1>3 DEF OneTask
<1>5. /\ \A d \in Channels : Bytes(d)' = Bytes(d)
      /\ \A d \in Channels : RequestOf(d) # {} => RequestOf(d)' # {}
  BY <1>1, <1>3 DEF Types, Bytes, RequestOf
<1>6. \A d \in Channels \ {k.channel} : client'[d] = client[d]
  BY <1>1 DEF Types
<1>7. /\ client'[k.channel] # "waiting" \/ ~open[k.channel]
      /\ client'[k.channel] \in {client[k.channel], "idle"}
  BY <1>0, <1>1, <1>2 DEF Types
<1>8. Bytes(k.channel) = {} /\ client[k.channel] \notin {"out", "half"}
  BY <1>0 DEF AllIsRead
<1>9. \A j \in tasks : j # k => j.channel # k.channel
  BY <1>0 DEF OneTask
<1>10. Types'
  BY <1>0, <1>1 DEF Types, AnyTask
<1>11. Unread'
  BY <1>0, <1>1 DEF Unread
<1>12. AllIsRead'
  BY <1>0, <1>1, <1>2, <1>3, <1>5, <1>6, <1>7, <1>8, <1>9 DEF AllIsRead
<1>13. Awaited'
  BY <1>0, <1>1, <1>2, <1>3, <1>4, <1>6 DEF Awaited
<1>14. Told'
  <2>1. open' = open /\ r.channel = k.channel
    BY <1>1, <1>3
  <2>2. \A j \in tasks' : j = r \/ (j \in tasks /\ j.channel \in Channels \ {k.channel})
    BY <1>2, <1>4
  <2>3. \A j \in tasks : j.at = "answered" => client[j.channel] # "waiting" \/ ~open[j.channel]
    BY <1>0 DEF Told
  <2>4. \A j \in tasks' : j.at = "answered" => client'[j.channel] # "waiting" \/ ~open[j.channel]
    BY <1>6, <1>7, <2>1, <2>2, <2>3
  <2> QED
    BY <2>1, <2>4 DEF Told
<1>15. Shaking'
  BY <1>0, <1>1, <1>2, <1>3, <1>6 DEF Shaking
<1>16. OneTask'
  BY <1>0, <1>3, <1>4 DEF OneTask
<1>17. Fresh'
  BY <1>0, <1>1, <1>5, <1>8 DEF Fresh
<1>18. Partly'
  BY <1>0, <1>1, <1>5 DEF Partly
<1>19. Once'
  BY <1>0, <1>1 DEF Once
<1>20. Kept'
  BY <1>0, <1>1, <1>5 DEF Kept
<1> QED
  BY <1>10, <1>11, <1>12, <1>13, <1>14, <1>15, <1>16, <1>17, <1>18, <1>19, <1>20 DEF Inv

\* A response is more than the socket takes.
LEMMA BlockKeeps ==
  ASSUME Inv, NEW k \in tasks, Block(k)
  PROVE  Inv'
<1>0. Types /\ Unread /\ AllIsRead /\ Awaited /\ Told /\ Shaking /\ OneTask /\ Fresh /\ Partly /\ Once /\ Kept
  BY DEF Inv
<1>1. /\ k.kind = "request" /\ k.at = "running" /\ tasks' = (tasks \ {k}) \cup {[k EXCEPT !.at = "writing"]}
      /\ UNCHANGED <<client, sent, inbox, incomplete, open, at, taken>>
  BY DEF Block, Running, channelVars, waiterVars
<1>2. \A j \in tasks : j \in AnyTask /\ j.channel \in Channels
  BY <1>0 DEF Types, AnyTask
<1>3. PICK r \in AnyTask : /\ r = [k EXCEPT !.at = "writing"]
                        /\ r.channel = k.channel /\ r.kind = k.kind /\ r.n = k.n /\ r.at = "writing"
  BY <1>2, TaskGoesOn
<1>4. \A j \in tasks' : j = r \/ (j \in tasks /\ j # k /\ j.channel # k.channel)
  BY <1>0, <1>1, <1>3 DEF OneTask
<1>5. /\ \A d \in Channels : Bytes(d)' = Bytes(d)
      /\ \A d \in Channels : RequestOf(d) # {} => RequestOf(d)' # {}
  BY <1>1, <1>3 DEF Types, Bytes, RequestOf
<1>6. Types'
  BY <1>0, <1>1 DEF Types, AnyTask
<1>7. Unread'
  BY <1>0, <1>1 DEF Unread
<1>8. AllIsRead'
  BY <1>0, <1>1, <1>2, <1>3, <1>5 DEF AllIsRead
<1>9. Awaited'
  BY <1>0, <1>1, <1>3 DEF Awaited
<1>10. Told'
  BY <1>0, <1>1, <1>3 DEF Told
<1>11. Shaking'
  BY <1>0, <1>1, <1>3 DEF Shaking
<1>12. OneTask'
  BY <1>0, <1>2, <1>3, <1>4, <1>5 DEF OneTask
<1>13. Fresh'
  BY <1>0, <1>1, <1>5 DEF Fresh
<1>14. Partly'
  BY <1>0, <1>1, <1>5 DEF Partly
<1>15. Once'
  BY <1>0, <1>1 DEF Types, Once, Bytes
<1>16. Kept'
  BY <1>0, <1>1, <1>5 DEF Kept
<1> QED
  BY <1>6, <1>7, <1>8, <1>9, <1>10, <1>11, <1>12, <1>13, <1>14, <1>15, <1>16 DEF Inv

\* The client reads a response.
LEMMA ReadKeeps ==
  ASSUME Inv, NEW k \in tasks, Read(k)
  PROVE  Inv'
<1>0. Types /\ Unread /\ AllIsRead /\ Awaited /\ Told /\ Shaking /\ OneTask /\ Fresh /\ Partly /\ Once /\ Kept
  BY DEF Inv
<1>1. /\ k.at = "writing" /\ tasks' = (tasks \ {k}) \cup {[k EXCEPT !.at = "answered"]}
      /\ UNCHANGED <<sent, inbox, incomplete, open, at, taken>>
      /\ client' = IF client[k.channel] = "waiting" /\ open[k.channel]
                   THEN [client EXCEPT ![k.channel] = "idle"] ELSE client
  BY DEF Read, Answered, Set, channelVars, waiterVars
<1>2. \A j \in tasks : j \in AnyTask /\ j.channel \in Channels
  BY <1>0 DEF Types, AnyTask
<1>3. PICK r \in AnyTask : /\ r = [k EXCEPT !.at = "answered"]
                        /\ r.channel = k.channel /\ r.kind = k.kind /\ r.n = k.n /\ r.at = "answered"
  BY <1>2, TaskGoesOn
<1>4. \A j \in tasks' : j = r \/ (j \in tasks /\ j # k /\ j.channel # k.channel)
  BY <1>0, <1>1, <1>3 DEF OneTask
<1>5. /\ \A d \in Channels : Bytes(d)' = Bytes(d)
      /\ \A d \in Channels : RequestOf(d) # {} => RequestOf(d)' # {}
  BY <1>1, <1>3 DEF Types, Bytes, RequestOf
<1>6. \A d \in Channels \ {k.channel} : client'[d] = client[d]
  BY <1>1 DEF Types
<1>7. /\ client'[k.channel] # "waiting" \/ ~open[k.channel]
      /\ client'[k.channel] \in {client[k.channel], "idle"}
  BY <1>0, <1>1, <1>2 DEF Types
<1>8. Bytes(k.channel) = {} /\ client[k.channel] \notin {"out", "half"}
  BY <1>0 DEF AllIsRead
<1>9. \A j \in tasks : j # k => j.channel # k.channel
  BY <1>0 DEF OneTask
<1>10. Types'
  BY <1>0, <1>1 DEF Types, AnyTask
<1>11. Unread'
  BY <1>0, <1>1 DEF Unread
<1>12. AllIsRead'
  BY <1>0, <1>1, <1>2, <1>3, <1>5, <1>6, <1>7, <1>8, <1>9 DEF AllIsRead
<1>13. Awaited'
  BY <1>0, <1>1, <1>2, <1>3, <1>4, <1>6 DEF Awaited
<1>14. Told'
  <2>1. open' = open /\ r.channel = k.channel
    BY <1>1, <1>3
  <2>2. \A j \in tasks' : j = r \/ (j \in tasks /\ j.channel \in Channels \ {k.channel})
    BY <1>2, <1>4
  <2>3. \A j \in tasks : j.at = "answered" => client[j.channel] # "waiting" \/ ~open[j.channel]
    BY <1>0 DEF Told
  <2>4. \A j \in tasks' : j.at = "answered" => client'[j.channel] # "waiting" \/ ~open[j.channel]
    BY <1>6, <1>7, <2>1, <2>2, <2>3
  <2> QED
    BY <2>1, <2>4 DEF Told
<1>15. Shaking'
  BY <1>0, <1>1, <1>2, <1>3, <1>6 DEF Shaking
<1>16. OneTask'
  BY <1>0, <1>3, <1>4 DEF OneTask
<1>17. Fresh'
  BY <1>0, <1>1, <1>5, <1>8 DEF Fresh
<1>18. Partly'
  BY <1>0, <1>1, <1>5 DEF Partly
<1>19. Once'
  BY <1>0, <1>1 DEF Once
<1>20. Kept'
  BY <1>0, <1>1, <1>5 DEF Kept
<1> QED
  BY <1>10, <1>11, <1>12, <1>13, <1>14, <1>15, <1>16, <1>17, <1>18, <1>19, <1>20 DEF Inv

\* A worker hands its channel over.
LEMMA HandOverKeeps ==
  ASSUME Inv, NEW k \in tasks, HandOver(k)
  PROVE  Inv'
<1>0. Types /\ Unread /\ AllIsRead /\ Awaited /\ Told /\ Shaking /\ OneTask /\ Fresh /\ Partly /\ Once /\ Kept
  BY DEF Inv
<1>1. /\ k.kind = "request" /\ k.at = "running" /\ tasks' = (tasks \ {k}) \cup {[k EXCEPT !.at = "answered"]}
      /\ UNCHANGED <<sent, inbox, incomplete, open, at, taken>>
      /\ client' = IF client[k.channel] = "waiting" /\ open[k.channel]
                   THEN [client EXCEPT ![k.channel] = "idle"] ELSE client
  BY DEF HandOver, Running, Answered, Set, waiterVars
<1>2. \A j \in tasks : j \in AnyTask /\ j.channel \in Channels
  BY <1>0 DEF Types, AnyTask
<1>3. PICK r \in AnyTask : /\ r = [k EXCEPT !.at = "answered"]
                        /\ r.channel = k.channel /\ r.kind = k.kind /\ r.n = k.n /\ r.at = "answered"
  BY <1>2, TaskGoesOn
<1>4. \A j \in tasks' : j = r \/ (j \in tasks /\ j # k /\ j.channel # k.channel)
  BY <1>0, <1>1, <1>3 DEF OneTask
<1>5. /\ \A d \in Channels : Bytes(d)' = Bytes(d)
      /\ \A d \in Channels : RequestOf(d) # {} => RequestOf(d)' # {}
  BY <1>1, <1>3 DEF Types, Bytes, RequestOf
<1>6. \A d \in Channels \ {k.channel} : client'[d] = client[d]
  BY <1>1 DEF Types
<1>7. /\ client'[k.channel] # "waiting" \/ ~open[k.channel]
      /\ client'[k.channel] \in {client[k.channel], "idle"}
  BY <1>0, <1>1, <1>2 DEF Types
<1>8. Bytes(k.channel) = {} /\ client[k.channel] \notin {"out", "half"}
  BY <1>0 DEF AllIsRead
<1>9. \A j \in tasks : j # k => j.channel # k.channel
  BY <1>0 DEF OneTask
<1>10. Types'
  BY <1>0, <1>1 DEF Types, AnyTask
<1>11. Unread'
  BY <1>0, <1>1 DEF Unread
<1>12. AllIsRead'
  BY <1>0, <1>1, <1>2, <1>3, <1>5, <1>6, <1>7, <1>8, <1>9 DEF AllIsRead
<1>13. Awaited'
  BY <1>0, <1>1, <1>2, <1>3, <1>4, <1>6 DEF Awaited
<1>14. Told'
  <2>1. open' = open /\ r.channel = k.channel
    BY <1>1, <1>3
  <2>2. \A j \in tasks' : j = r \/ (j \in tasks /\ j.channel \in Channels \ {k.channel})
    BY <1>2, <1>4
  <2>3. \A j \in tasks : j.at = "answered" => client[j.channel] # "waiting" \/ ~open[j.channel]
    BY <1>0 DEF Told
  <2>4. \A j \in tasks' : j.at = "answered" => client'[j.channel] # "waiting" \/ ~open[j.channel]
    BY <1>6, <1>7, <2>1, <2>2, <2>3
  <2> QED
    BY <2>1, <2>4 DEF Told
<1>15. Shaking'
  BY <1>0, <1>1, <1>2, <1>3, <1>6 DEF Shaking
<1>16. OneTask'
  BY <1>0, <1>3, <1>4 DEF OneTask
<1>17. Fresh'
  BY <1>0, <1>1, <1>5, <1>8 DEF Fresh
<1>18. Partly'
  BY <1>0, <1>1, <1>5 DEF Partly
<1>19. Once'
  BY <1>0, <1>1 DEF Once
<1>20. Kept'
  BY <1>0, <1>1, <1>5 DEF Kept
<1> QED
  BY <1>10, <1>11, <1>12, <1>13, <1>14, <1>15, <1>16, <1>17, <1>18, <1>19, <1>20 DEF Inv

\* A worker is done, and gives the buffer back.
LEMMA FinishKeeps ==
  ASSUME Inv, NEW k \in tasks, Finish(k)
  PROVE  Inv'
<1>0. Types /\ Unread /\ AllIsRead /\ Awaited /\ Told /\ Shaking /\ OneTask /\ Fresh /\ Partly /\ Once /\ Kept
  BY DEF Inv
<1>1. /\ k.at = "answered" /\ tasks' = tasks \ {k} /\ UNCHANGED <<client, sent, inbox, incomplete, open, at>>
      /\ taken' = IF at = k.channel THEN {} ELSE taken
  BY DEF Finish
<1>2. \A j \in tasks : j.channel \in Channels
  BY <1>0 DEF Types, AnyTask
<1>3. Bytes(k.channel) = {}
  BY <1>0 DEF AllIsRead
<1>4. \A d \in Channels : Bytes(d)' = Bytes(d)
  BY <1>1, <1>3 DEF Types, Bytes
<1>5. \A j \in tasks' : j \in tasks /\ j # k /\ j.channel # k.channel
  BY <1>0, <1>1 DEF OneTask
<1>6. \A d \in Channels \ {k.channel} : RequestOf(d)' = RequestOf(d)
  BY <1>0, <1>1 DEF Types, RequestOf
<1>7. client[k.channel] # "waiting" \/ ~open[k.channel]
  BY <1>0, <1>1 DEF Told
<1>8. Types'
  BY <1>0, <1>1 DEF Types, AnyTask
<1>9. Unread'
  BY <1>0, <1>1 DEF Unread
<1>10. AllIsRead'
  BY <1>0, <1>1, <1>2, <1>4 DEF AllIsRead
<1>11. Awaited'
  BY <1>0, <1>1 DEF Awaited
<1>12. Told'
  BY <1>0, <1>1 DEF Told
<1>13. Shaking'
  BY <1>0, <1>1 DEF Shaking
<1>14. OneTask'
  BY <1>0, <1>1 DEF OneTask
<1>15. Fresh'
  BY <1>0, <1>1, <1>4 DEF Fresh
<1>16. Partly'
  BY <1>0, <1>1, <1>4 DEF Partly
<1>17. Once'
  BY <1>0, <1>1 DEF Types, Once, Bytes
<1>18. Kept'
  BY <1>0, <1>1, <1>4, <1>6, <1>7 DEF Kept
<1> QED
  BY <1>8, <1>9, <1>10, <1>11, <1>12, <1>13, <1>14, <1>15, <1>16, <1>17, <1>18 DEF Inv

\* A worker fails, and closes the channel.
LEMMA FailKeeps ==
  ASSUME Inv, NEW k \in tasks, Fail(k)
  PROVE  Inv'
<1>0. Types /\ Unread /\ AllIsRead /\ Awaited /\ Told /\ Shaking /\ OneTask /\ Fresh /\ Partly /\ Once /\ Kept
  BY DEF Inv
<1>1. /\ tasks' = tasks \ {k} /\ UNCHANGED <<client, sent, inbox, incomplete, at, taken>>
      /\ open' = [open EXCEPT ![k.channel] = FALSE]
  BY DEF Fail, Closed, Set, waiterVars
<1>2. \A j \in tasks : j.channel \in Channels
  BY <1>0 DEF Types, AnyTask
<1>3. Bytes(k.channel) = {}
  BY <1>0 DEF AllIsRead
<1>4. \A d \in Channels : Bytes(d)' = Bytes(d)
  BY <1>1 DEF Types, Bytes
<1>5. \A j \in tasks' : j \in tasks /\ j # k /\ j.channel # k.channel
  BY <1>0, <1>1 DEF OneTask
<1>6. \A d \in Channels \ {k.channel} : RequestOf(d)' = RequestOf(d)
  BY <1>0, <1>1 DEF Types, RequestOf
<1>7. /\ open' \in [Channels -> BOOLEAN] /\ ~open'[k.channel]
      /\ \A d \in Channels \ {k.channel} : open'[d] = open[d]
  BY <1>0, <1>1, <1>2 DEF Types
<1>8. Types'
  BY <1>0, <1>1 DEF Types, AnyTask
<1>9. Unread'
  BY <1>0, <1>1 DEF Unread
<1>10. AllIsRead'
  BY <1>0, <1>1, <1>2, <1>4 DEF AllIsRead
<1>11. Awaited'
  BY <1>0, <1>1 DEF Awaited
<1>12. Told'
  BY <1>0, <1>1 DEF Told
<1>13. Shaking'
  BY <1>0, <1>1 DEF Shaking
<1>14. OneTask'
  BY <1>0, <1>1 DEF OneTask
<1>15. Fresh'
  BY <1>0, <1>1, <1>4 DEF Fresh
<1>16. Partly'
  BY <1>0, <1>1, <1>4 DEF Partly
<1>17. Once'
  BY <1>0, <1>1 DEF Types, Once, Bytes
<1>18. Kept'
  BY <1>0, <1>1, <1>4, <1>6, <1>7 DEF Kept
<1> QED
  BY <1>8, <1>9, <1>10, <1>11, <1>12, <1>13, <1>14, <1>15, <1>16, <1>17, <1>18 DEF Inv

\* The reaper refuses a request that takes too long.
LEMMA RefuseKeeps ==
  ASSUME Inv, NEW c \in Channels, Refuse(c)
  PROVE  Inv'
<1>0. Types /\ Unread /\ AllIsRead /\ Awaited /\ Told /\ Shaking /\ OneTask /\ Fresh /\ Partly /\ Once /\ Kept
  BY DEF Inv
<1>1. /\ UNCHANGED <<client, sent, inbox, at, taken, tasks>> /\ incomplete' = [incomplete EXCEPT ![c] = {}]
      /\ open' = [open EXCEPT ![c] = FALSE]
  BY DEF Refuse, Closed, Set
<1>2. /\ open' \in [Channels -> BOOLEAN] /\ \A d \in Channels : open'[d] => open[d]
      /\ \A d \in Channels \ {c} : open'[d] = open[d]
      /\ incomplete'[c] = incomplete[c] \/ ~open'[c]
  BY <1>0, <1>1 DEF Types
<1>3. /\ \A d \in Channels \ {c} : Bytes(d)' = Bytes(d)
      /\ Bytes(c)' \subseteq Bytes(c) /\ (Bytes(c)' = Bytes(c) \/ ~open'[c])
  BY <1>0, <1>1 DEF Types, Bytes
<1>4. \A d \in Channels : RequestOf(d)' = RequestOf(d)
  BY <1>0, <1>1 DEF Types, RequestOf
<1>5. \A k \in tasks : k.channel \in Channels
  BY <1>0 DEF Types, AnyTask
<1>6. Types'
  BY <1>0, <1>1 DEF Types, AnyTask
<1>7. Unread'
  BY <1>0, <1>1 DEF Unread
<1>8. AllIsRead'
  BY <1>0, <1>1, <1>3, <1>5 DEF AllIsRead
<1>9. Awaited'
  BY <1>0, <1>1 DEF Awaited
<1>10. Told'
  BY <1>0, <1>1 DEF Told
<1>11. Shaking'
  BY <1>0, <1>1 DEF Shaking
<1>12. OneTask'
  BY <1>0, <1>1 DEF OneTask
<1>13. Fresh'
  BY <1>0, <1>1, <1>3 DEF Fresh
<1>14. Partly'
  BY <1>0, <1>1, <1>3 DEF Partly
<1>15. Once'
  BY <1>0, <1>1 DEF Types, Once, Bytes
<1>16. Kept'
  BY <1>0, <1>1, <1>3, <1>4 DEF Kept
<1> QED
  BY <1>6, <1>7, <1>8, <1>9, <1>10, <1>11, <1>12, <1>13, <1>14, <1>15, <1>16 DEF Inv

\* The reaper forgets or closes a channel.
LEMMA ExpireKeeps ==
  ASSUME Inv, NEW c \in Channels, Expire(c)
  PROVE  Inv'
<1>0. Types /\ Unread /\ AllIsRead /\ Awaited /\ Told /\ Shaking /\ OneTask /\ Fresh /\ Partly /\ Once /\ Kept
  BY DEF Inv
<1>1. /\ UNCHANGED <<client, sent, inbox, incomplete, at, taken, tasks>>
      /\ open' = open \/ open' = [open EXCEPT ![c] = FALSE]
  BY DEF Expire, Closed, Set, waiterVars
<1>2. /\ open' \in [Channels -> BOOLEAN] /\ \A d \in Channels : open'[d] => open[d]
      /\ \A d \in Channels \ {c} : open'[d] = open[d]
      /\ incomplete'[c] = incomplete[c] \/ ~open'[c]
  BY <1>0, <1>1 DEF Types
<1>3. /\ \A d \in Channels \ {c} : Bytes(d)' = Bytes(d)
      /\ Bytes(c)' \subseteq Bytes(c) /\ (Bytes(c)' = Bytes(c) \/ ~open'[c])
  BY <1>1 DEF Types, Bytes
<1>4. \A d \in Channels : RequestOf(d)' = RequestOf(d)
  BY <1>0, <1>1 DEF Types, RequestOf
<1>5. \A k \in tasks : k.channel \in Channels
  BY <1>0 DEF Types, AnyTask
<1>6. Types'
  BY <1>0, <1>1 DEF Types, AnyTask
<1>7. Unread'
  BY <1>0, <1>1 DEF Unread
<1>8. AllIsRead'
  BY <1>0, <1>1, <1>3, <1>5 DEF AllIsRead
<1>9. Awaited'
  BY <1>0, <1>1, <1>2, <1>5 DEF Awaited
<1>10. Told'
  BY <1>0, <1>1, <1>2, <1>5 DEF Told
<1>11. Shaking'
  BY <1>0, <1>1 DEF Shaking
<1>12. OneTask'
  BY <1>0, <1>1 DEF OneTask
<1>13. Fresh'
  BY <1>0, <1>1, <1>3 DEF Fresh
<1>14. Partly'
  BY <1>0, <1>1, <1>3 DEF Partly
<1>15. Once'
  BY <1>0, <1>1 DEF Types, Once, Bytes
<1>16. Kept'
  BY <1>0, <1>1, <1>2, <1>3, <1>4 DEF Kept
<1> QED
  BY <1>6, <1>7, <1>8, <1>9, <1>10, <1>11, <1>12, <1>13, <1>14, <1>15, <1>16 DEF Inv

\* The other steps move the waiter or the reaper on.
Moves ==
  /\ UNCHANGED <<client, sent, inbox, incomplete, open, taken, tasks>>
  /\ \/ at' = at
     \/ at \in {"select", "iterate"} /\ at' \in {"select", "iterate"}

\* They preserve it too.
LEMMA MovesKeep ==
  ASSUME Inv, Moves
  PROVE  Inv'
<1>0. Types /\ Unread /\ AllIsRead /\ Awaited /\ Told /\ Shaking /\ OneTask /\ Fresh /\ Partly /\ Once /\ Kept
  BY DEF Inv
<1>1. /\ UNCHANGED <<client, sent, inbox, incomplete, open, taken, tasks>>
      /\ at' \in {"select", "iterate"} \cup Channels /\ (at' = at \/ taken = {})
  BY <1>0 DEF Moves, Unread, Types
<1>2. \A d \in Channels : Bytes(d)' = Bytes(d)
  BY <1>0, <1>1 DEF Types, Bytes
<1>3. \A d \in Channels : RequestOf(d)' = RequestOf(d)
  BY <1>0, <1>1 DEF Types, RequestOf
<1>4. \A k \in tasks : k.channel \in Channels
  BY <1>0 DEF Types, AnyTask
<1>5. Types'
  BY <1>0, <1>1 DEF Types, AnyTask
<1>6. Unread'
  BY <1>0 DEF Unread, Moves
<1>7. AllIsRead'
  BY <1>0, <1>1, <1>2, <1>4 DEF AllIsRead
<1>8. Awaited'
  BY <1>0, <1>1 DEF Awaited
<1>9. Told'
  BY <1>0, <1>1 DEF Told
<1>10. Shaking'
  BY <1>0, <1>1 DEF Shaking
<1>11. OneTask'
  BY <1>0, <1>1 DEF OneTask
<1>12. Fresh'
  BY <1>0, <1>1, <1>2 DEF Fresh
<1>13. Partly'
  BY <1>0, <1>1, <1>2 DEF Partly
<1>14. Once'
  BY <1>0, <1>1 DEF Types, Once, Bytes
<1>15. Kept'
  BY <1>0, <1>1, <1>2, <1>3 DEF Kept
<1> QED
  BY <1>5, <1>6, <1>7, <1>8, <1>9, <1>10, <1>11, <1>12, <1>13, <1>14, <1>15 DEF Inv

-----------------------------------------------------------------------------
(* The theorem. *)

LEMMA Initially == Init => Inv
<1>1. SUFFICES ASSUME Init PROVE Inv
  OBVIOUS
<1>2. Types /\ tasks = {} /\ taken = {}
  BY <1>1 DEF Init, Types, Halves
<1>3. \A c \in Channels : client[c] = "out" /\ Bytes(c) = {}
  BY <1>1 DEF Init, Bytes
<1>4. Unread /\ AllIsRead /\ Awaited /\ Told /\ Shaking /\ OneTask
  BY <1>2 DEF Unread, AllIsRead, Awaited, Told, Shaking, OneTask
<1>5. Fresh /\ Partly /\ Once /\ Kept
  BY <1>1, <1>3 DEF Fresh, Partly, Once, Kept, Init
<1> QED
  BY <1>2, <1>4, <1>5 DEF Inv

LEMMA OtherSteps ==
  ASSUME [Next]_vars
  PROVE  \/ Moves
         \/ \E c \in Channels : Accept(c) \/ Shake(c) \/ SendHead(c) \/ SendTail(c) \/ Leave(c)
         \/ \E c \in Channels : StartRead(c) \/ EndRead(c) \/ Refuse(c) \/ Expire(c)
         \/ \E k \in tasks : Run(k) \/ HandshakeEnds(k) \/ HandshakeRefused(k) \/ Respond(k)
                              \/ Block(k) \/ Read(k) \/ HandOver(k) \/ Finish(k) \/ Fail(k)
<1>1. CASE UNCHANGED vars
  BY <1>1 DEF vars, waiterVars, channelVars, Moves
<1>2. CASE Register \/ Select \/ EndOfIteration \/ \E c \in Channels : Interrupt(c)
  BY <1>2 DEF Register, Select, EndOfIteration, Interrupt, waiterVars, channelVars, Moves
<1>3. CASE Wake \/ StartCopy \/ EndCopy \/ Sleep \/ \E c \in Channels : Visit(c)
  BY <1>3 DEF Wake, StartCopy, EndCopy, Sleep, Visit, waiterVars, channelVars, Moves
<1> QED
  BY <1>1, <1>2, <1>3 DEF Next, Waiter, Reaper, Client, Pool

LEMMA InvIsKept ==
  ASSUME Inv, Patient, [Next]_vars
  PROVE  Inv'
<1>1. CASE Moves
  BY <1>1, MovesKeep
<1>2. CASE \E c \in Channels : Accept(c) \/ Shake(c) \/ SendHead(c) \/ SendTail(c) \/ Leave(c)
  BY <1>2, AcceptKeeps, ShakeKeeps, SendHeadKeeps, SendTailKeeps, LeaveKeeps
<1>3. CASE \E c \in Channels : StartRead(c) \/ EndRead(c) \/ Refuse(c) \/ Expire(c)
  BY <1>3, StartReadKeeps, EndReadKeeps, RefuseKeeps, ExpireKeeps
<1>4. CASE \E k \in tasks : Run(k) \/ HandshakeEnds(k) \/ HandshakeRefused(k) \/ Respond(k)
                              \/ Block(k) \/ Read(k) \/ HandOver(k) \/ Finish(k) \/ Fail(k)
  BY <1>4, RunKeeps, HandshakeEndsKeeps, HandshakeRefusedKeeps, RespondKeeps, BlockKeeps,
     ReadKeeps, HandOverKeeps, FinishKeeps, FailKeeps
<1> QED
  BY <1>1, <1>2, <1>3, <1>4, OtherSteps

\* If clients that have a response let the worker finish before they send the next request,
\* a request that was sent is on its way, read, incomplete or with a worker until it is
\* answered or its connection closed (HTTPWaiter.run, HTTPChannel.read).
THEOREM RequestsAreNotLost ==
  ASSUME Patient
  PROVE  Spec => []NothingLost
<1>1. Init => Inv
  BY Initially
<1>2. Inv /\ [Next]_vars => Inv'
  BY InvIsKept
<1>3. Inv => NothingLost
  BY DEF Inv, Kept, Bytes, NothingLost
<1> QED
  BY <1>1, <1>2, <1>3, PTL DEF Spec
=============================================================================
