-------------------------- MODULE QueryChainProofs --------------------------
(***************************************************************************)
(* Theorems about the queries of a form.                                   *)
(***************************************************************************)
EXTENDS QueryChain, SequenceTheorems, FiniteSetTheorems, TLAPS

-----------------------------------------------------------------------------
(* The inductive invariant.  A call is known by its height: calls come and  *)
(* go at the front of a stack, and those below keep their heights.          *)

Shows(call, b) == call.block = b /\ call.at \in {"query", "fetch", "shown"}

\* The heights at which the calls of a stack display rows in a block.
Heights(s, b) == {h \in 1..Len(s) : Shows(s[Len(s) + 1 - h], b)}

\* What a call of each kind is; q is the newest chain.
Fine(call, q) ==
  /\ call = Frame(call.at, call.block, call.id, call.left)
  /\ call.at \in {"details", "wait", "query", "fetch"} => call.id \in 1..q

\* These are called by nobody, and what they go on with replaces them.
Outermost(call) == call.at \in {"prequery", "stop", "close"}

\* A master that displays its rows waits for the details it has called.
Calls(s, q) ==
  /\ \E C : s \in Seq(C)
  /\ \A i \in 1..Len(s) : Fine(s[i], q)
  /\ \A i \in 1..Len(s) : s[i].at = "shown" /\ i > 1 =>
       s[i - 1].at = "details" /\ s[i - 1].block = s[i].block

Nested(s) == \A i \in 1..Len(s) : ~Outermost(s[i])

Sound(s, q) ==
  /\ Calls(s, q)
  /\ s # <<>> => s[1].at # "shown"
  /\ Len(s) > 1 => Nested(s)

\* The query manager knows whether a block displays rows, and one call does; a block
\* that a query has left is taken as displaying rows, and no call does.
Free(b) == \A e \in Events : Heights(stack[e], b) = {}
Taken(b) ==
  \E e \in Events : /\ \E h \in Nat : Heights(stack[e], b) = {h}
                    /\ \A g \in Events \ {e} : Heights(stack[g], b) = {}
Known ==
  \A b \in Blocks : /\ (b \in stuck => running[b] # 0)
                     /\ (running[b] = 0 \/ b \in stuck => Free(b))
                     /\ (running[b] # 0 /\ b \notin stuck => Taken(b))

Types ==
  /\ qid \in Nat
  /\ running \in [Blocks -> Nat]
  /\ stack = [e \in Events |-> stack[e]]

Inv == Types /\ (\A e \in Events : Sound(stack[e], qid)) /\ Known

-----------------------------------------------------------------------------
(* Stacks. *)

\* Numbers of chains only grow.
LEMMA SoundLater ==
  ASSUME NEW s, NEW q \in Nat, NEW r \in Nat, q <= r, Sound(s, q)
  PROVE  Sound(s, r)
<1>1. \A i \in 1..Len(s) : Fine(s[i], r)
  BY DEF Sound, Calls, Fine
<1> QED
  BY <1>1 DEF Sound, Calls

\* The shape of a stack on which a call is put.
LEMMA Pushed ==
  ASSUME NEW s, NEW q, Calls(s, q), NEW f
  PROVE  LET t == <<f>> \o s IN
         /\ \E C : t \in Seq(C)
         /\ Len(s) \in Nat /\ Len(t) = Len(s) + 1 /\ t # <<>>
         /\ t[1] = f /\ \A i \in 1..Len(s) : t[i + 1] = s[i]
<1> PICK C : s \in Seq(C)
  BY DEF Calls
<1>1. <<f>> \o s \in Seq(C \cup {f})
  OBVIOUS
<1>2. /\ Len(s) \in Nat /\ Len(<<f>> \o s) = Len(s) + 1 /\ <<f>> \o s # <<>>
      /\ (<<f>> \o s)[1] = f /\ \A i \in 1..Len(s) : (<<f>> \o s)[i + 1] = s[i]
  OBVIOUS
<1> QED
  BY <1>1, <1>2

\* What is below a new call stays where it is.
LEMMA HeightsPushed ==
  ASSUME NEW s, NEW q, Calls(s, q), NEW f, NEW b
  PROVE  /\ Shows(f, b) => Heights(<<f>> \o s, b) = Heights(s, b) \cup {Len(s) + 1}
         /\ ~Shows(f, b) => Heights(<<f>> \o s, b) = Heights(s, b)
         /\ Heights(s, b) \subseteq 1..Len(s) /\ Len(s) \in Nat
<1> DEFINE t == <<f>> \o s
<1>1. /\ Len(s) \in Nat /\ Len(t) = Len(s) + 1
      /\ t[1] = f /\ \A i \in 1..Len(s) : t[i + 1] = s[i]
  BY Pushed
<1> HIDE DEF t
<1>2. \A h \in 1..Len(s) : t[Len(t) + 1 - h] = s[Len(s) + 1 - h]
  <2> TAKE h \in 1..Len(s)
  <2>1. Len(s) + 1 - h \in 1..Len(s) /\ Len(t) + 1 - h = (Len(s) + 1 - h) + 1
    BY <1>1
  <2> QED
    BY <1>1, <2>1
<1>3. t[Len(t) + 1 - (Len(s) + 1)] = f
  BY <1>1
<1>4. 1..Len(t) = 1..Len(s) \cup {Len(s) + 1}
  BY <1>1
<1>5. \A h \in 1..Len(t) : h \in Heights(t, b) <=> (h \in Heights(s, b) \/ (h = Len(s) + 1 /\ Shows(f, b)))
  BY <1>1, <1>2, <1>3, <1>4 DEF Heights
<1> QED
  BY <1>1, <1>4, <1>5 DEF t, Heights

\* A stack with calls is its innermost call on top of its callers.
LEMMA Popped ==
  ASSUME NEW s, NEW q, Calls(s, q), s # <<>>
  PROVE  /\ s = <<Head(s)>> \o Tail(s) /\ Head(s) = s[1]
         /\ Calls(Tail(s), q) /\ Fine(Head(s), q)
         /\ Nested(s) => Nested(Tail(s)) /\ ~Outermost(Head(s))
         /\ Len(s) > 1 <=> Tail(s) # <<>>
         /\ Tail(s) # <<>> /\ Head(Tail(s)).at = "shown" =>
              Head(s).at = "details" /\ Head(s).block = Head(Tail(s)).block
<1> PICK C : s \in Seq(C)
  BY DEF Calls
<1>1. /\ Tail(s) \in Seq(C) /\ Len(s) \in Nat \ {0} /\ Len(Tail(s)) = Len(s) - 1
      /\ \A i \in 1..Len(Tail(s)) : Tail(s)[i] = s[i + 1]
      /\ Head(s) = s[1] /\ s = <<Head(s)>> \o Tail(s)
  OBVIOUS
<1>2. \A i \in 1..Len(Tail(s)) : i + 1 \in 1..Len(s) /\ i + 1 > 1 /\ i + 1 - 1 = i /\ (i > 1 => i - 1 \in 1..Len(Tail(s)))
  BY <1>1
<1>3. Calls(Tail(s), q)
  <2>1. \A i \in 1..Len(Tail(s)) : Fine(Tail(s)[i], q)
    BY <1>1, <1>2 DEF Calls
  <2>2. ASSUME NEW i \in 1..Len(Tail(s)), Tail(s)[i].at = "shown", i > 1
        PROVE  Tail(s)[i - 1].at = "details" /\ Tail(s)[i - 1].block = Tail(s)[i].block
    <3>1. s[i + 1].at = "shown" /\ i + 1 \in 1..Len(s)
      BY <1>1, <1>2, <2>2
    <3>2. s[(i + 1) - 1].at = "details" /\ s[(i + 1) - 1].block = s[i + 1].block
      BY <3>1, <1>2 DEF Calls
    <3>3. (i - 1) + 1 = i /\ (i + 1) - 1 = i /\ i - 1 \in 1..Len(Tail(s))
      BY <1>1, <2>2
    <3>4. Tail(s)[i - 1] = s[i] /\ Tail(s)[i] = s[i + 1]
      BY <1>1, <3>3
    <3> QED
      BY <3>2, <3>3, <3>4
  <2> QED
    BY <1>1, <2>1, <2>2 DEF Calls
<1>4. Fine(Head(s), q)
  BY <1>1 DEF Calls
<1>5. Tail(s) # <<>> => Len(s) > 1 /\ Len(Tail(s)) > 0 /\ Head(Tail(s)) = s[2] /\ 2 \in 1..Len(s)
  BY <1>1
<1>6. Nested(s) => Nested(Tail(s)) /\ ~Outermost(Head(s))
  BY <1>1, <1>2 DEF Nested
<1>7. Len(s) > 1 <=> Tail(s) # <<>>
  BY <1>1
<1>8. Tail(s) # <<>> /\ Head(Tail(s)).at = "shown" =>
        Head(s).at = "details" /\ Head(s).block = Head(Tail(s)).block
  <2> SUFFICES ASSUME Tail(s) # <<>>, Head(Tail(s)).at = "shown"
               PROVE  s[2 - 1].at = "details" /\ s[2 - 1].block = s[2].block
    BY <1>1, <1>5
  <2> QED
    BY <1>5 DEF Calls
<1> QED
  BY <1>1, <1>3, <1>4, <1>6, <1>7, <1>8

\* The same of the stack of an event.
LEMMA SoundPopped ==
  ASSUME NEW s, NEW q, Sound(s, q), s # <<>>
  PROVE  /\ Nested(Tail(s))
         /\ Outermost(Head(s)) => Tail(s) = <<>>
         /\ Head(s).at # "shown"
<1>1. /\ Calls(s, q) /\ Head(s) = s[1]
      /\ Nested(s) => Nested(Tail(s)) /\ ~Outermost(Head(s))
      /\ Len(s) > 1 <=> Tail(s) # <<>>
  BY Popped DEF Sound
<1>2. Head(s).at # "shown"
  BY <1>1 DEF Sound
<1>3. CASE Len(s) > 1
  BY <1>1, <1>2, <1>3 DEF Sound
<1>4. CASE ~(Len(s) > 1)
  <2>1. Tail(s) = <<>>
    BY <1>1, <1>4
  <2>2. Nested(<<>>)
    BY DEF Nested
  <2> QED
    BY <1>2, <2>1, <2>2
<1> QED
  BY <1>3, <1>4

\* A stack remains sound when a call is put on callers that wait for it.
LEMMA SoundPush ==
  ASSUME NEW s, NEW q, Calls(s, q), Nested(s), NEW f, Fine(f, q), f.at # "shown",
         Outermost(f) => s = <<>>,
         s # <<>> /\ s[1].at = "shown" => f.at = "details" /\ f.block = s[1].block
  PROVE  Sound(<<f>> \o s, q)
<1> DEFINE t == <<f>> \o s
<1>1. /\ \E C : t \in Seq(C)
      /\ Len(s) \in Nat /\ Len(t) = Len(s) + 1 /\ t # <<>>
      /\ t[1] = f /\ \A i \in 1..Len(s) : t[i + 1] = s[i]
  BY Pushed
<1>2. Len(s) = 0 => s = <<>>
  BY DEF Calls
<1>3. s # <<>> <=> Len(s) > 0
  BY <1>1, <1>2
<1> HIDE DEF t
<1>4. \A i \in 1..Len(t) : i = 1 \/ (i - 1 \in 1..Len(s) /\ t[i] = s[i - 1])
  <2> TAKE i \in 1..Len(t)
  <2>1. CASE i # 1
    <3>1. i - 1 \in 1..Len(s) /\ (i - 1) + 1 = i
      BY <1>1, <2>1
    <3> QED
      BY <1>1, <3>1
  <2> QED
    BY <2>1
<1>5. \A i \in 1..Len(t) : Fine(t[i], q)
  BY <1>1, <1>4 DEF Calls
<1>6. ASSUME NEW i \in 1..Len(t), t[i].at = "shown", i > 1
      PROVE  t[i - 1].at = "details" /\ t[i - 1].block = t[i].block
  <2>1. i - 1 \in 1..Len(s) /\ t[i] = s[i - 1]
    BY <1>4, <1>6
  <2>2. CASE i = 2
    <3>1. i - 1 = 1 /\ t[i] = s[1] /\ t[i - 1] = f
      BY <1>1, <2>1, <2>2
    <3>2. s # <<>> /\ s[1].at = "shown"
      BY <1>1, <1>3, <1>6, <2>1, <3>1
    <3> QED
      BY <3>1, <3>2
  <2>3. CASE i # 2
    <3>1. i - 1 \in 1..Len(t) /\ i - 1 # 1 /\ i - 1 > 1
      BY <1>1, <1>6, <2>3
    <3>2. t[i - 1] = s[(i - 1) - 1]
      BY <1>4, <3>1
    <3> QED
      BY <1>6, <2>1, <3>1, <3>2 DEF Calls
  <2> QED
    BY <2>2, <2>3
<1>7. Calls(t, q)
  BY <1>1, <1>5, <1>6 DEF Calls
<1>8. ASSUME Len(t) > 1 PROVE Nested(t)
  <2>1. ~Outermost(f)
    BY <1>1, <1>3, <1>8
  <2> QED
    BY <1>1, <1>4, <2>1 DEF Nested
<1> QED
  BY <1>1, <1>7, <1>8 DEF Sound, t

\* A call that displays the rows of a master is put below its details.
LEMMA CallsPush ==
  ASSUME NEW s, NEW q, Calls(s, q), Nested(s), NEW f, Fine(f, q), f.at = "shown",
         s # <<>> => s[1].at # "shown"
  PROVE  Calls(<<f>> \o s, q) /\ Nested(<<f>> \o s)
<1> DEFINE t == <<f>> \o s
<1>1. /\ \E C : t \in Seq(C)
      /\ Len(s) \in Nat /\ Len(t) = Len(s) + 1 /\ t # <<>>
      /\ t[1] = f /\ \A i \in 1..Len(s) : t[i + 1] = s[i]
  BY Pushed
<1>2. s # <<>> <=> Len(s) > 0
  BY <1>1 DEF Calls
<1> HIDE DEF t
<1>4. \A i \in 1..Len(t) : i = 1 \/ (i - 1 \in 1..Len(s) /\ t[i] = s[i - 1])
  <2> TAKE i \in 1..Len(t)
  <2>1. CASE i # 1
    <3>1. i - 1 \in 1..Len(s) /\ (i - 1) + 1 = i
      BY <1>1, <2>1
    <3> QED
      BY <1>1, <3>1
  <2> QED
    BY <2>1
<1>5. \A i \in 1..Len(t) : Fine(t[i], q) /\ ~Outermost(t[i])
  BY <1>1, <1>4 DEF Calls, Nested, Outermost
<1>6. ASSUME NEW i \in 1..Len(t), t[i].at = "shown", i > 1
      PROVE  t[i - 1].at = "details" /\ t[i - 1].block = t[i].block
  <2>1. i - 1 \in 1..Len(s) /\ t[i] = s[i - 1]
    BY <1>4, <1>6
  <2>2. i # 2
    BY <1>2, <1>6, <2>1, <1>1
  <2>3. i - 1 \in 1..Len(t) /\ i - 1 # 1 /\ i - 1 > 1
    BY <1>1, <1>6, <2>2
  <2>4. t[i - 1] = s[(i - 1) - 1]
    BY <1>4, <2>3
  <2> QED
    BY <1>6, <2>1, <2>3, <2>4 DEF Calls
<1> QED
  BY <1>1, <1>5, <1>6 DEF Calls, Nested, t

\* Callers that do not display a master that waits go on as a stack.
LEMMA SoundReturn ==
  ASSUME NEW s, NEW q, Calls(s, q), Nested(s), s # <<>> => s[1].at # "shown"
  PROVE  Sound(s, q)
BY DEF Sound

LEMMA EmptySound ==
  ASSUME NEW q
  PROVE  /\ Sound(<<>>, q) /\ Calls(<<>>, q) /\ Nested(<<>>)
         /\ \A b : Heights(<<>>, b) = {}
BY DEF Sound, Calls, Nested, Heights

-----------------------------------------------------------------------------
(* What a step does to the blocks. *)

\* The calls of one event become s.
Becomes(e, s) ==
  /\ stack' = [stack EXCEPT ![e] = s] /\ stuck' = stuck
  /\ qid' \in Nat /\ qid <= qid' /\ Sound(s, qid')

\* They display what the event displayed,
Staying(e, s) ==
  /\ Becomes(e, s) /\ running' = running
  /\ \A b \in Blocks : Heights(s, b) = Heights(stack[e], b)

\* one call more,
Beginning(e, s, b, id) ==
  /\ Becomes(e, s) /\ running' = [running EXCEPT ![b] = id] /\ id \in Nat \ {0}
  /\ b \in Blocks /\ running[b] = 0
  /\ \E h \in Nat : Heights(s, b) = Heights(stack[e], b) \cup {h}
  /\ \A c \in Blocks : c # b => Heights(s, c) = Heights(stack[e], c)

\* or one call less.
Ending(e, s, b) ==
  /\ Becomes(e, s) /\ running' = [running EXCEPT ![b] = 0]
  /\ Heights(s, b) \subseteq Heights(stack[e], b) /\ Heights(s, b) # Heights(stack[e], b)
  /\ \A c \in Blocks : c # b => Heights(s, c) = Heights(stack[e], c)

LEMMA SameCalls ==
  ASSUME NEW c, \A g \in Events : Heights(stack'[g], c) = Heights(stack[g], c)
  PROVE  (Free(c)' <=> Free(c)) /\ (Taken(c)' <=> Taken(c))
<1>1. Free(c)' <=> Free(c)
  BY DEF Free
<1>2. Taken(c)' <=> Taken(c)
  BY DEF Taken
<1> QED
  BY <1>1, <1>2

\* The calls of one event change and display what they displayed.
LEMMA Quietly ==
  ASSUME Inv, NEW e \in Events, NEW s, Staying(e, s)
  PROVE  Inv'
<1> USE DEF Staying, Becomes
<1>1. \A g \in Events : stack'[g] = IF g = e THEN s ELSE stack[g]
  BY DEF Inv, Types
<1>2. Types'
  BY DEF Inv, Types
<1>3. \A g \in Events : Sound(stack'[g], qid')
  BY <1>1, SoundLater DEF Inv, Types
<1>4. \A g \in Events : \A b \in Blocks : Heights(stack'[g], b) = Heights(stack[g], b)
  BY <1>1
<1>5. ASSUME NEW c \in Blocks
      PROVE  /\ (c \in stuck' => running'[c] # 0)
             /\ (running'[c] = 0 \/ c \in stuck' => Free(c)')
             /\ (running'[c] # 0 /\ c \notin stuck' => Taken(c)')
  <2>1. (Free(c)' <=> Free(c)) /\ (Taken(c)' <=> Taken(c))
    BY <1>4, SameCalls
  <2> QED
    BY <2>1 DEF Inv, Known
<1> QED
  BY <1>2, <1>3, <1>5 DEF Inv, Known

\* A call begins to display rows in a block in which none did.
LEMMA Begins ==
  ASSUME Inv, NEW e \in Events, NEW s, NEW b, NEW id, Beginning(e, s, b, id)
  PROVE  Inv'
<1> USE DEF Beginning, Becomes
<1>1. \A g \in Events : stack'[g] = IF g = e THEN s ELSE stack[g]
  BY DEF Inv, Types
<1>2. Types'
  BY DEF Inv, Types
<1>3. \A g \in Events : Sound(stack'[g], qid')
  BY <1>1, SoundLater DEF Inv, Types
<1>4. ASSUME NEW c \in Blocks
      PROVE  /\ (c \in stuck' => running'[c] # 0)
             /\ (running'[c] = 0 \/ c \in stuck' => Free(c)')
             /\ (running'[c] # 0 /\ c \notin stuck' => Taken(c)')
  <2>1. CASE c # b
    <3>1. running'[c] = running[c]
      BY <2>1 DEF Inv, Types
    <3>2. \A g \in Events : Heights(stack'[g], c) = Heights(stack[g], c)
      BY <1>1, <2>1
    <3>3. (Free(c)' <=> Free(c)) /\ (Taken(c)' <=> Taken(c))
      BY <3>2, SameCalls
    <3> QED
      BY <3>1, <3>3 DEF Inv, Known
  <2>2. CASE c = b
    <3>1. running'[c] = id
      BY <2>2 DEF Inv, Types
    <3>2. \A g \in Events : Heights(stack[g], c) = {}
      BY <2>2 DEF Inv, Known, Free
    <3>3. (\E h \in Nat : Heights(stack'[e], c) = {h}) /\ \A g \in Events \ {e} : Heights(stack'[g], c) = {}
      BY <1>1, <2>2, <3>2
    <3>4. c \notin stuck'
      BY <2>2 DEF Inv, Known
    <3> QED
      BY <3>1, <3>3, <3>4 DEF Taken
  <2> QED
    BY <2>1, <2>2
<1> QED
  BY <1>2, <1>3, <1>4 DEF Inv, Known

\* The call that displays rows in a block ends.
LEMMA Ends ==
  ASSUME Inv, NEW e \in Events, NEW s, NEW b, Ending(e, s, b)
  PROVE  Inv'
<1> USE DEF Ending, Becomes
<1>1. \A g \in Events : stack'[g] = IF g = e THEN s ELSE stack[g]
  BY DEF Inv, Types
<1>2. Types'
  BY DEF Inv, Types
<1>3. \A g \in Events : Sound(stack'[g], qid')
  BY <1>1, SoundLater DEF Inv, Types
<1>4. ASSUME NEW c \in Blocks
      PROVE  /\ (c \in stuck' => running'[c] # 0)
             /\ (running'[c] = 0 \/ c \in stuck' => Free(c)')
             /\ (running'[c] # 0 /\ c \notin stuck' => Taken(c)')
  <2>1. CASE c # b
    <3>1. running'[c] = running[c]
      BY <2>1 DEF Inv, Types
    <3>2. \A g \in Events : Heights(stack'[g], c) = Heights(stack[g], c)
      BY <1>1, <2>1
    <3>3. (Free(c)' <=> Free(c)) /\ (Taken(c)' <=> Taken(c))
      BY <3>2, SameCalls
    <3> QED
      BY <3>1, <3>3 DEF Inv, Known
  <2>2. CASE c = b
    <3>1. running'[c] = 0
      BY <2>2 DEF Inv, Types
    <3>2. Taken(c)
      BY <2>2 DEF Inv, Known, Free
    <3>3. PICK g \in Events : /\ \E i \in Nat : Heights(stack[g], c) = {i}
                              /\ \A f \in Events \ {g} : Heights(stack[f], c) = {}
      BY <3>2 DEF Taken
    <3>4. g = e /\ Heights(stack'[e], c) = {}
      <4>1. Heights(s, c) \subseteq Heights(stack[e], c) /\ Heights(s, c) # Heights(stack[e], c)
        BY <2>2
      <4>2. g = e /\ Heights(s, c) = {}
        BY <3>3, <4>1
      <4> QED
        BY <1>1, <4>2
    <3>5. \A f \in Events : Heights(stack'[f], c) = {}
      BY <1>1, <2>2, <3>3, <3>4
    <3>6. c \notin stuck'
      BY <3>3, <3>2, <2>2 DEF Inv, Known, Free
    <3> QED
      BY <3>1, <3>5, <3>6 DEF Free
  <2> QED
    BY <2>1, <2>2
<1> QED
  BY <1>2, <1>3, <1>4 DEF Inv, Known

-----------------------------------------------------------------------------
(* Calls that begin and end. *)

\* A call that displays nothing takes the place of another that does not either,
\* or is put on the callers.
LEMMA Heights1 ==
  ASSUME NEW s, NEW q, Calls(s, q), NEW f, NEW b, ~Shows(f, b)
  PROVE  Heights(<<f>> \o s, b) = Heights(s, b)
BY HeightsPushed

\* The innermost call of a stack, and what is displayed below it.
LEMMA HeightsPopped ==
  ASSUME NEW s, NEW q, Calls(s, q), s # <<>>, NEW b
  PROVE  /\ ~Shows(Head(s), b) => Heights(s, b) = Heights(Tail(s), b)
         /\ Shows(Head(s), b) => /\ Heights(s, b) = Heights(Tail(s), b) \cup {Len(Tail(s)) + 1}
                                 /\ Len(Tail(s)) + 1 \notin Heights(Tail(s), b)
         /\ Len(Tail(s)) \in Nat
<1>1. s = <<Head(s)>> \o Tail(s) /\ Calls(Tail(s), q)
  BY Popped
<1> DEFINE f == Head(s)
           t == Tail(s)
<1>2. s = <<f>> \o t /\ Calls(t, q)
  BY <1>1
<1> HIDE DEF f, t
<1>3. /\ Shows(f, b) => Heights(<<f>> \o t, b) = Heights(t, b) \cup {Len(t) + 1}
      /\ ~Shows(f, b) => Heights(<<f>> \o t, b) = Heights(t, b)
      /\ Heights(t, b) \subseteq 1..Len(t) /\ Len(t) \in Nat
  BY <1>2, HeightsPushed
<1>4. Len(t) + 1 \notin Heights(t, b)
  BY <1>3
<1> QED
  BY <1>2, <1>3, <1>4 DEF f, t

\* Block.executeQuery of a block, for callers that display what the event displayed.
LEMMA QueryKeeps ==
  ASSUME Inv, NEW e \in Events, NEW below, NEW b, NEW id, NEW current,
         qid' \in Nat, qid <= qid', id \in 1..qid',
         Sound(below, qid'), Nested(below), stuck' = stuck,
         \A c \in Blocks : Heights(below, c) = Heights(stack[e], c),
         Query(e, below, b, id, current)
  PROVE  Inv'
<1>1. Calls(below, qid') /\ (below # <<>> => below[1].at # "shown")
  BY DEF Sound
<1>2. CASE Return(e, below) /\ UNCHANGED running
  <2>1. Staying(e, below)
    BY <1>2 DEF Return, Staying, Becomes
  <2> QED
    BY <2>1, Quietly
<1>3. CASE Push(e, below, Frame("wait", b, id, <<>>)) /\ UNCHANGED running
  <2> DEFINE f == Frame("wait", b, id, <<>>)
  <2>1. Fine(f, qid') /\ f.at # "shown" /\ ~Outermost(f) /\ \A c : ~Shows(f, c)
    BY DEF Fine, Frame, Outermost, Shows
  <2>2. stack' = [stack EXCEPT ![e] = <<f>> \o below] /\ running' = running
    BY <1>3 DEF Push
  <2> HIDE DEF f
  <2>3. Sound(<<f>> \o below, qid')
    BY <1>1, <2>1, SoundPush
  <2>4. \A c \in Blocks : Heights(<<f>> \o below, c) = Heights(stack[e], c)
    BY <1>1, <2>1, Heights1
  <2>5. Staying(e, <<f>> \o below)
    BY <2>2, <2>3, <2>4 DEF Staying, Becomes
  <2> QED
    BY <2>5, Quietly
<1>4. CASE /\ running[b] = 0 /\ running' = [running EXCEPT ![b] = id]
           /\ Push(e, below, Frame("query", b, id, <<>>))
  <2> DEFINE f == Frame("query", b, id, <<>>)
  <2>1. /\ Fine(f, qid') /\ f.at # "shown" /\ ~Outermost(f)
        /\ Shows(f, b) /\ \A c \in Blocks \ {b} : ~Shows(f, c)
    BY DEF Fine, Frame, Outermost, Shows
  <2>2. stack' = [stack EXCEPT ![e] = <<f>> \o below]
    BY <1>4 DEF Push
  <2> HIDE DEF f
  <2>3. Sound(<<f>> \o below, qid')
    BY <1>1, <2>1, SoundPush
  <2>4. \A c \in Blocks \ {b} : Heights(<<f>> \o below, c) = Heights(stack[e], c)
    BY <1>1, <2>1, Heights1
  <2>5. Heights(<<f>> \o below, b) = Heights(below, b) \cup {Len(below) + 1} /\ Len(below) + 1 \in Nat
    BY <1>1, <2>1, HeightsPushed
  <2>6. b \in Blocks => Heights(<<f>> \o below, b) = Heights(stack[e], b) \cup {Len(below) + 1}
    BY <2>5
  <2>7. id \in Nat \ {0}
    OBVIOUS
  <2>8. CASE b \in Blocks
    <3>1. Beginning(e, <<f>> \o below, b, id)
      BY <1>4, <2>2, <2>3, <2>4, <2>5, <2>6, <2>7, <2>8 DEF Beginning, Becomes
    <3> QED
      BY <3>1, Begins
  <2>9. CASE b \notin Blocks
    <3>1. running' = running
      BY <1>4, <2>9 DEF Inv, Types
    <3>2. Staying(e, <<f>> \o below)
      BY <2>2, <2>3, <2>4, <2>9, <3>1 DEF Staying, Becomes
    <3> QED
      BY <3>2, Quietly
  <2> QED
    BY <2>8, <2>9
<1> QED
  BY <1>2, <1>3, <1>4 DEF Query, Start

\* Another call goes on in the place of the innermost call.
LEMMA Exchanged ==
  ASSUME NEW s, NEW q, Sound(s, q), s # <<>>, NEW g, Fine(g, q), g.at # "shown",
         Outermost(g) => Outermost(Head(s)),
         Head(s).at = "details" => g.at = "details" /\ g.block = Head(s).block
  PROVE  Sound(<<g>> \o Tail(s), q)
<1> DEFINE t == Tail(s)
<1>1. /\ Calls(t, q) /\ Nested(t)
      /\ Outermost(Head(s)) => t = <<>>
      /\ t # <<>> /\ Head(t).at = "shown" => Head(s).at = "details" /\ Head(s).block = Head(t).block
  BY Popped, SoundPopped DEF Sound
<1>2. t # <<>> => t[1] = Head(t)
  BY <1>1, Popped
<1> HIDE DEF t
<1>3. Outermost(g) => t = <<>>
  BY <1>1
<1>4. t # <<>> /\ t[1].at = "shown" => g.at = "details" /\ g.block = t[1].block
  BY <1>1, <1>2
<1>5. Sound(<<g>> \o t, q)
  BY <1>1, <1>3, <1>4, SoundPush
<1> QED
  BY <1>5 DEF t

LEMMA HeightsExchanged ==
  ASSUME NEW s, NEW q, Calls(s, q), s # <<>>, NEW g, NEW b,
         Shows(g, b) <=> Shows(Head(s), b)
  PROVE  Heights(<<g>> \o Tail(s), b) = Heights(s, b)
<1> DEFINE t == Tail(s)
           f == Head(s)
<1>1. Calls(t, q) /\ s = <<f>> \o t
  BY Popped
<1> HIDE DEF t, f
<1>2. (Shows(f, b) => Heights(<<f>> \o t, b) = Heights(t, b) \cup {Len(t) + 1})
      /\ (~Shows(f, b) => Heights(<<f>> \o t, b) = Heights(t, b))
  BY <1>1, HeightsPushed
<1>3. (Shows(g, b) => Heights(<<g>> \o t, b) = Heights(t, b) \cup {Len(t) + 1})
      /\ (~Shows(g, b) => Heights(<<g>> \o t, b) = Heights(t, b))
  BY <1>1, HeightsPushed
<1>4. Shows(g, b) <=> Shows(f, b)
  BY DEF f
<1>5. Heights(<<g>> \o t, b) = Heights(s, b)
  BY <1>1, <1>2, <1>3, <1>4
<1> QED
  BY <1>5 DEF t

\* The innermost call ends.
LEMMA SoundTail ==
  ASSUME NEW s, NEW q, Sound(s, q), s # <<>>,
         Head(s).at = "details" => Tail(s) = <<>> \/ Head(Tail(s)).at # "shown"
  PROVE  Sound(Tail(s), q)
<1> DEFINE t == Tail(s)
<1>1. /\ Calls(t, q) /\ Nested(t)
      /\ t # <<>> => Head(t).at # "shown"
  BY Popped, SoundPopped DEF Sound
<1>2. t # <<>> => t[1] = Head(t)
  BY <1>1, Popped
<1> HIDE DEF t
<1>3. Sound(t, q)
  BY <1>1, <1>2, SoundReturn
<1> QED
  BY <1>3 DEF t

\* A call that displays nothing takes the place of one that displays nothing, or one
\* that displays the rows of a block the place of one that displays them.
LEMMA GoesOn ==
  ASSUME Inv, NEW e \in Events, stack[e] # <<>>, UNCHANGED <<qid, running, stuck>>,
         NEW g, Fine(g, qid), g.at # "shown",
         Outermost(g) => Outermost(Top(e)),
         Top(e).at = "details" => g.at = "details" /\ g.block = Top(e).block,
         \A b \in Blocks : Shows(g, b) <=> Shows(Top(e), b),
         Push(e, Callers(e), g)
  PROVE  Inv'
<1> DEFINE s == stack[e]
<1>1. Sound(s, qid) /\ Calls(s, qid) /\ s # <<>>
  BY DEF Inv, Sound
<1>2. Top(e) = Head(s) /\ Callers(e) = Tail(s) /\ stack' = [stack EXCEPT ![e] = <<g>> \o Tail(s)]
  BY DEF Top, Callers, Push
<1> HIDE DEF s
<1>3. Sound(<<g>> \o Tail(s), qid)
  BY <1>1, <1>2, Exchanged
<1>4. \A b \in Blocks : Heights(<<g>> \o Tail(s), b) = Heights(s, b)
  BY <1>1, <1>2, HeightsExchanged
<1>5. qid' \in Nat /\ qid <= qid'
  BY DEF Inv, Types
<1>6. Staying(e, <<g>> \o Tail(s))
  BY <1>2, <1>3, <1>4, <1>5 DEF s, Staying, Becomes
<1> QED
  BY <1>6, Quietly

\* A call that displays nothing ends.
LEMMA GoesBack ==
  ASSUME Inv, NEW e \in Events, stack[e] # <<>>, UNCHANGED <<qid, running, stuck>>,
         Top(e).at = "details" => Callers(e) = <<>> \/ Head(Callers(e)).at # "shown",
         \A b \in Blocks : ~Shows(Top(e), b),
         Return(e, Callers(e))
  PROVE  Inv'
<1> DEFINE s == stack[e]
<1>1. Sound(s, qid) /\ Calls(s, qid) /\ s # <<>>
  BY DEF Inv, Sound
<1>2. Top(e) = Head(s) /\ Callers(e) = Tail(s) /\ stack' = [stack EXCEPT ![e] = Tail(s)]
  BY DEF Top, Callers, Return
<1> HIDE DEF s
<1>3. Sound(Tail(s), qid)
  BY <1>1, <1>2, SoundTail
<1>4. \A b \in Blocks : Heights(Tail(s), b) = Heights(s, b)
  BY <1>1, <1>2, HeightsPopped
<1>5. qid' \in Nat /\ qid <= qid'
  BY DEF Inv, Types
<1>6. Staying(e, Tail(s))
  BY <1>2, <1>3, <1>4, <1>5 DEF s, Staying, Becomes
<1> QED
  BY <1>6, Quietly

\* The innermost call has displayed its rows.
LEMMA Finishes ==
  ASSUME Inv, NEW e \in Events, stack[e] # <<>>, UNCHANGED <<qid, stuck>>,
         Top(e).at \in {"query", "fetch"},
         running' = [running EXCEPT ![Top(e).block] = 0],
         Return(e, Callers(e))
  PROVE  Inv'
<1> DEFINE s == stack[e]
           b == Head(s).block
           h == Len(Tail(s)) + 1
<1>1. Sound(s, qid) /\ Calls(s, qid) /\ s # <<>>
  BY DEF Inv, Sound
<1>2. /\ Head(s).at \in {"query", "fetch"} /\ running' = [running EXCEPT ![b] = 0]
      /\ stack' = [stack EXCEPT ![e] = Tail(s)]
  BY DEF Top, Callers, Return
<1>3. Shows(Head(s), b) /\ \A c : c # b => ~Shows(Head(s), c)
  BY <1>2 DEF Shows
<1>4. qid' \in Nat /\ qid <= qid'
  BY DEF Inv, Types
<1> HIDE DEF s, b
<1>5. Sound(Tail(s), qid')
  BY <1>1, <1>2, SoundTail
<1>6. Heights(s, b) = Heights(Tail(s), b) \cup {h} /\ h \notin Heights(Tail(s), b)
  BY <1>1, <1>3, HeightsPopped
<1>7. \A c : c # b => Heights(Tail(s), c) = Heights(s, c)
  BY <1>1, <1>3, HeightsPopped
<1>8. Heights(Tail(s), b) \subseteq Heights(s, b) /\ Heights(Tail(s), b) # Heights(s, b)
  BY <1>6
<1>9. Ending(e, Tail(s), b)
  BY <1>2, <1>4, <1>5, <1>7, <1>8 DEF s, Ending, Becomes
<1> QED
  BY <1>9, Ends

\* The innermost call returns and leaves the block as running.
LEMMA Leaves ==
  ASSUME Inv, NEW e \in Events, stack[e] # <<>>, UNCHANGED <<qid, running>>,
         Top(e).at = "query", stuck' = stuck \cup {Top(e).block},
         Return(e, Callers(e))
  PROVE  Inv'
<1> DEFINE s == stack[e]
           b == Head(s).block
           h == Len(Tail(s)) + 1
<1>1. Sound(s, qid) /\ Calls(s, qid) /\ s # <<>>
  BY DEF Inv, Sound
<1>2. /\ Head(s).at = "query" /\ stuck' = stuck \cup {b}
      /\ stack' = [stack EXCEPT ![e] = Tail(s)]
  BY DEF Top, Callers, Return
<1>3. Shows(Head(s), b) /\ \A c : c # b => ~Shows(Head(s), c)
  BY <1>2 DEF Shows
<1>4. \A g \in Events : stack'[g] = IF g = e THEN Tail(s) ELSE stack[g]
  BY <1>2 DEF Inv, Types
<1> HIDE DEF s, b
<1>5. Sound(Tail(s), qid)
  BY <1>1, <1>2, SoundTail
<1>6. Heights(s, b) = Heights(Tail(s), b) \cup {h} /\ h \notin Heights(Tail(s), b)
  BY <1>1, <1>3, HeightsPopped
<1>7. \A c : c # b => Heights(Tail(s), c) = Heights(s, c)
  BY <1>1, <1>3, HeightsPopped
<1>8. Types' /\ \A g \in Events : Sound(stack'[g], qid')
  BY <1>2, <1>4, <1>5 DEF Inv, Types
<1>9. ASSUME NEW c \in Blocks
      PROVE  /\ (c \in stuck' => running'[c] # 0)
             /\ (running'[c] = 0 \/ c \in stuck' => Free(c)')
             /\ (running'[c] # 0 /\ c \notin stuck' => Taken(c)')
  <2>1. CASE c # b
    <3>1. \A g \in Events : Heights(stack'[g], c) = Heights(stack[g], c)
      BY <1>4, <1>7, <2>1 DEF s
    <3>2. (Free(c)' <=> Free(c)) /\ (Taken(c)' <=> Taken(c))
      BY <3>1, SameCalls
    <3> QED
      BY <1>2, <2>1, <3>2 DEF Inv, Known
  <2>2. CASE c = b
    <3>1. Heights(stack[e], c) # {} /\ ~Free(c)
      BY <1>6, <2>2 DEF s, Free
    <3>2. Taken(c) /\ running[c] # 0
      BY <3>1 DEF Inv, Known
    <3>3. PICK g \in Events : /\ \E i \in Nat : Heights(stack[g], c) = {i}
                              /\ \A f \in Events \ {g} : Heights(stack[f], c) = {}
      BY <3>2 DEF Taken
    <3>4. g = e /\ Heights(Tail(s), c) = {}
      BY <1>6, <2>2, <3>1, <3>3 DEF s
    <3>5. Free(c)'
      BY <1>4, <3>3, <3>4 DEF Free
    <3> QED
      BY <1>2, <2>2, <3>2, <3>5
  <2> QED
    BY <2>1, <2>2
<1> QED
  BY <1>8, <1>9 DEF Inv, Known

\* An event whose only call is such a call displays nothing.
LEMMA AloneShowsNothing ==
  ASSUME Inv, NEW e \in Events, stack[e] = <<>> \/ Outermost(Top(e))
  PROVE  \A b \in Blocks : Heights(stack[e], b) = {}
<1>1. CASE stack[e] = <<>>
  BY <1>1, EmptySound
<1>2. CASE stack[e] # <<>>
  <2> DEFINE s == stack[e]
  <2>1. Sound(s, qid) /\ Calls(s, qid) /\ s # <<>>
    BY <1>2 DEF Inv, Sound
  <2>2. Outermost(Head(s)) /\ \A b : ~Shows(Head(s), b)
    BY <1>2 DEF Top, Outermost, Shows
  <2> HIDE DEF s
  <2>3. Tail(s) = <<>>
    BY <2>1, <2>2, SoundPopped
  <2>4. \A b \in Blocks : Heights(s, b) = Heights(Tail(s), b)
    BY <2>1, <2>2, HeightsPopped
  <2> QED
    BY <2>3, <2>4, EmptySound DEF s
<1> QED
  BY <1>1, <1>2

\* An event begins, or another call takes the place of its only call.
LEMMA GoesAlone ==
  ASSUME Inv, NEW e \in Events, stack[e] = <<>> \/ Outermost(Top(e)),
         qid' \in Nat, qid <= qid', UNCHANGED <<running, stuck>>,
         NEW g, Fine(g, qid'), g.at # "shown", \A b \in Blocks : ~Shows(g, b),
         Push(e, <<>>, g)
  PROVE  Inv'
<1>1. Sound(<<g>> \o <<>>, qid')
  BY EmptySound, SoundPush
<1>2. \A b \in Blocks : Heights(<<g>> \o <<>>, b) = Heights(stack[e], b)
  BY EmptySound, Heights1, AloneShowsNothing
<1>3. Staying(e, <<g>> \o <<>>)
  BY <1>1, <1>2 DEF Push, Staying, Becomes
<1> QED
  BY <1>3, Quietly

\* An event of a single call ends.
LEMMA GoesAway ==
  ASSUME Inv, NEW e \in Events, stack[e] = <<>> \/ Outermost(Top(e)),
         UNCHANGED <<qid, running, stuck>>, Return(e, <<>>)
  PROVE  Inv'
<1>1. Sound(<<>>, qid') /\ qid' \in Nat /\ qid <= qid'
  BY EmptySound DEF Inv, Types
<1>2. \A b \in Blocks : Heights(<<>>, b) = Heights(stack[e], b)
  BY EmptySound, AloneShowsNothing
<1>3. Staying(e, <<>>)
  BY <1>1, <1>2 DEF Return, Staying, Becomes
<1> QED
  BY <1>3, Quietly

\* Nothing happens to the calls.
LEMMA NoCall ==
  ASSUME Inv, UNCHANGED <<qid, running, stuck, stack>>
  PROVE  Inv'
<1>1. \A b : (Free(b)' <=> Free(b)) /\ (Taken(b)' <=> Taken(b))
  BY SameCalls
<1> QED
  BY <1>1 DEF Inv, Types, Known

\* The innermost call of an event.
LEMMA TopIs ==
  ASSUME Inv, NEW e \in Events, NEW at, At(e, at)
  PROVE  /\ stack[e] # <<>> /\ Top(e).at = at /\ Fine(Top(e), qid)
         /\ Sound(stack[e], qid) /\ Calls(stack[e], qid)
         /\ Top(e) = Head(stack[e]) /\ Callers(e) = Tail(stack[e])
         /\ Calls(Callers(e), qid) /\ Nested(Callers(e))
         /\ qid \in Nat
<1>1. stack[e] # <<>> /\ Top(e).at = at /\ Top(e) = Head(stack[e]) /\ Callers(e) = Tail(stack[e])
  BY DEF At, Top, Callers
<1>2. Sound(stack[e], qid) /\ Calls(stack[e], qid) /\ qid \in Nat
  BY DEF Inv, Types, Sound
<1>3. Fine(Head(stack[e]), qid) /\ Calls(Tail(stack[e]), qid) /\ Nested(Tail(stack[e]))
  BY <1>1, <1>2, Popped, SoundPopped
<1> QED
  BY <1>1, <1>2, <1>3

-----------------------------------------------------------------------------
(* The steps of a chain. *)

LEMMA LeftChanged ==
  ASSUME NEW f, NEW x, f = Frame(f.at, f.block, f.id, f.left)
  PROVE  [f EXCEPT !.left = x] = Frame(f.at, f.block, f.id, x)
BY DEF Frame

LEMMA NextDetailKeeps ==
  ASSUME Inv, NEW e \in Events, NextDetail(e)
  PROVE  Inv'
<1> DEFINE s == stack[e]
           g == [Top(e) EXCEPT !.left = Tail(@)]
           below == <<g>> \o Callers(e)
<1>1. /\ s # <<>> /\ Top(e).at = "details" /\ Fine(Top(e), qid) /\ Sound(s, qid) /\ Calls(s, qid)
      /\ Top(e) = Head(s) /\ Callers(e) = Tail(s)
      /\ Calls(Callers(e), qid) /\ Nested(Callers(e)) /\ qid \in Nat
  BY TopIs DEF NextDetail
<1>2. /\ qid' = qid /\ stuck' = stuck
      /\ Query(e, below, Head(Top(e).left), Top(e).id, qid)
  BY DEF NextDetail
<1>3. /\ g.at = "details" /\ g.block = Top(e).block /\ g.id = Top(e).id
      /\ Fine(g, qid) /\ ~Outermost(g) /\ \A b : ~Shows(g, b) /\ ~Shows(Top(e), b)
  <2>1. Top(e) = Frame(Top(e).at, Top(e).block, Top(e).id, Top(e).left)
    BY <1>1 DEF Fine
  <2>2. g = Frame("details", Top(e).block, Top(e).id, Tail(Top(e).left))
    BY <1>1, <2>1, LeftChanged
  <2> HIDE DEF g
  <2> QED
    BY <1>1, <2>1, <2>2 DEF Fine, Frame, Outermost, Shows
<1> HIDE DEF s, g
<1>4. Sound(below, qid)
  BY <1>1, <1>3, Exchanged
<1>5. \A b \in Blocks : Heights(below, b) = Heights(s, b)
  BY <1>1, <1>3, HeightsExchanged
<1>6. Nested(below)
  <2> DEFINE t == Callers(e)
  <2>1. Calls(t, qid) /\ Nested(t)
    BY <1>1
  <2> HIDE DEF t
  <2>2. \A i \in 1..Len(<<g>> \o t) :
          (<<g>> \o t)[i] = g \/ \E j \in 1..Len(t) : (<<g>> \o t)[i] = t[j]
    <3>1. /\ Len(t) \in Nat /\ Len(<<g>> \o t) = Len(t) + 1
          /\ (<<g>> \o t)[1] = g /\ \A i \in 1..Len(t) : (<<g>> \o t)[i + 1] = t[i]
      BY <2>1, Pushed
    <3> TAKE i \in 1..Len(<<g>> \o t)
    <3>2. CASE i = 1
      BY <3>1, <3>2
    <3>3. CASE i # 1
      <4>1. i - 1 \in 1..Len(t) /\ (i - 1) + 1 = i
        BY <3>1, <3>3
      <4> QED
        BY <3>1, <4>1
    <3> QED
      BY <3>2, <3>3
  <2>3. Nested(<<g>> \o t)
    BY <1>3, <2>1, <2>2 DEF Nested
  <2> QED
    BY <2>3 DEF t
<1> HIDE DEF below
<1>7. Top(e).id \in 1..qid
  BY <1>1 DEF Fine
<1>8. \A b \in Blocks : Heights(below, b) = Heights(stack[e], b)
  BY <1>5 DEF s
<1> QED
  BY <1>1, <1>2, <1>4, <1>6, <1>7, <1>8, QueryKeeps

LEMMA EndDetailsKeeps ==
  ASSUME Inv, NEW e \in Events, EndDetails(e)
  PROVE  Inv'
<1> DEFINE s == stack[e]
           t == Callers(e)
           b == Top(e).block
<1>1. /\ s # <<>> /\ Top(e).at = "details" /\ Sound(s, qid) /\ Calls(s, qid)
      /\ Top(e) = Head(s) /\ t = Tail(s)
      /\ Calls(t, qid) /\ Nested(t) /\ qid \in Nat /\ UNCHANGED <<qid, stuck>>
      /\ \A c : ~Shows(Head(s), c)
  BY TopIs DEF EndDetails, Shows
<1>2. CASE t # <<>> /\ Head(t).at = "shown"
  <2>1. running' = [running EXCEPT ![b] = 0] /\ stack' = [stack EXCEPT ![e] = Tail(t)]
    BY <1>2 DEF EndDetails, Return
  <2>2. Head(t).block = Head(s).block
    BY <1>1, <1>2, Popped
  <2>3. Shows(Head(t), b) /\ \A c : c # b => ~Shows(Head(t), c)
    BY <1>1, <1>2, <2>2 DEF Shows
  <2> HIDE DEF s, t, b
  <2>4. \A c : Heights(s, c) = Heights(t, c)
    BY <1>1, HeightsPopped
  <2>5. /\ \A c : c # b => Heights(t, c) = Heights(Tail(t), c)
        /\ Heights(t, b) = Heights(Tail(t), b) \cup {Len(Tail(t)) + 1}
        /\ Len(Tail(t)) + 1 \notin Heights(Tail(t), b)
    BY <1>1, <1>2, <2>3, HeightsPopped
  <2>6. /\ Calls(Tail(t), qid) /\ Nested(Tail(t))
        /\ Tail(t) # <<>> => Head(Tail(t)).at # "shown"
    BY <1>1, <1>2, Popped
  <2>7. Tail(t) # <<>> => Tail(t)[1] = Head(Tail(t))
    BY <2>6, Popped
  <2>8. Sound(Tail(t), qid)
    BY <2>6, <2>7, SoundReturn
  <2>9. Heights(Tail(t), b) \subseteq Heights(s, b) /\ Heights(Tail(t), b) # Heights(s, b)
    BY <2>4, <2>5
  <2>10. \A c \in Blocks : c # b => Heights(Tail(t), c) = Heights(s, c)
    BY <2>4, <2>5
  <2>11. Ending(e, Tail(t), b)
    BY <1>1, <2>1, <2>8, <2>9, <2>10 DEF s, Ending, Becomes
  <2> QED
    BY <2>11, Ends
<1>3. CASE ~(t # <<>> /\ Head(t).at = "shown")
  <2>1. Return(e, Callers(e)) /\ running' = running
    BY <1>3 DEF EndDetails
  <2> QED
    BY <1>1, <1>3, <2>1, GoesBack
<1> QED
  BY <1>2, <1>3

LEMMA WakeKeeps ==
  ASSUME Inv, NEW e \in Events, Wake(e)
  PROVE  Inv'
<1> DEFINE s == stack[e]
           b == Top(e).block
           g == Frame("query", b, Top(e).id, <<>>)
<1>1. /\ s # <<>> /\ Top(e).at = "wait" /\ Fine(Top(e), qid) /\ Sound(s, qid) /\ Calls(s, qid)
      /\ Top(e) = Head(s) /\ Callers(e) = Tail(s)
      /\ Calls(Callers(e), qid) /\ Nested(Callers(e)) /\ qid \in Nat /\ UNCHANGED <<qid, stuck>>
      /\ \A c : ~Shows(Head(s), c)
  BY TopIs DEF Wake, Shows
<1>2. CASE Return(e, Callers(e)) /\ UNCHANGED running
  BY <1>1, <1>2, GoesBack
<1>3. CASE /\ running[b] = 0 /\ running' = [running EXCEPT ![b] = Top(e).id]
           /\ Push(e, Callers(e), g)
  <2>1. /\ Fine(g, qid) /\ g.at # "shown" /\ ~Outermost(g)
        /\ Shows(g, b) /\ \A c : c # b => ~Shows(g, c)
    BY <1>1 DEF Fine, Frame, Outermost, Shows
  <2>2. stack' = [stack EXCEPT ![e] = <<g>> \o Tail(s)]
    BY <1>1, <1>3 DEF Push
  <2>3. Top(e).id \in Nat \ {0}
    BY <1>1 DEF Fine
  <2> HIDE DEF s, g, b
  <2>4. Sound(<<g>> \o Tail(s), qid)
    BY <1>1, <2>1, Exchanged
  <2>5. \A c : c # b => Heights(<<g>> \o Tail(s), c) = Heights(s, c)
    BY <1>1, <2>1, HeightsExchanged
  <2>6. /\ Heights(<<g>> \o Tail(s), b) = Heights(Tail(s), b) \cup {Len(Tail(s)) + 1}
        /\ Len(Tail(s)) + 1 \in Nat
    <3> DEFINE u == Tail(s)
    <3>1. Calls(u, qid) /\ Shows(g, b)
      BY <1>1, <2>1
    <3> HIDE DEF u
    <3>2. Heights(<<g>> \o u, b) = Heights(u, b) \cup {Len(u) + 1} /\ Len(u) \in Nat
      BY <3>1, HeightsPushed
    <3> QED
      BY <3>2 DEF u
  <2>7. Heights(Tail(s), b) = Heights(s, b)
    BY <1>1, HeightsPopped
  <2>8. CASE b \in Blocks
    <3>1. Beginning(e, <<g>> \o Tail(s), b, Top(e).id)
      BY <1>1, <1>3, <2>2, <2>3, <2>4, <2>5, <2>6, <2>7, <2>8 DEF Beginning, Becomes, s
    <3> QED
      BY <3>1, Begins
  <2>9. CASE b \notin Blocks
    <3>1. running' = running
      BY <1>3, <2>9 DEF Inv, Types
    <3>2. Staying(e, <<g>> \o Tail(s))
      BY <1>1, <2>2, <2>4, <2>5, <2>9, <3>1 DEF Staying, Becomes, s
    <3> QED
      BY <3>2, Quietly
  <2> QED
    BY <2>8, <2>9
<1> QED
  BY <1>2, <1>3 DEF Wake

LEMMA AnswerKeeps ==
  ASSUME Inv, NEW e \in Events, NEW n, Answer(e, n)
  PROVE  Inv'
<1> DEFINE g == Frame("fetch", Top(e).block, Top(e).id, <<>>)
           b == Top(e).block
<1>1. /\ stack[e] # <<>> /\ Top(e).at = "query" /\ Fine(Top(e), qid)
      /\ qid' = qid /\ running' = running
  BY TopIs DEF Answer
<1>2. Fine(g, qid) /\ g.at # "shown" /\ ~Outermost(g) /\ \A c \in Blocks : Shows(g, c) <=> Shows(Top(e), c)
  BY <1>1 DEF Fine, Frame, Outermost, Shows
<1>3. CASE Push(e, Callers(e), g) /\ UNCHANGED stuck
  <2> HIDE DEF g
  <2>1. Top(e).at # "details"
    BY <1>1
  <2> QED
    BY <1>1, <1>2, <1>3, <2>1, GoesOn
<1>4. CASE Return(e, Callers(e)) /\ stuck' = stuck \cup {b}
  BY <1>1, <1>4, Leaves
<1> QED
  BY <1>3, <1>4 DEF Answer

LEMMA QueryFailsKeeps ==
  ASSUME Inv, NEW e \in Events, QueryFails(e)
  PROVE  Inv'
<1>1. stack[e] # <<>> /\ Top(e).at \in {"query", "fetch"}
  BY TopIs DEF QueryFails
<1> QED
  BY <1>1, Finishes DEF QueryFails

\* The rows have been displayed, and the details are queried if there are any to query.
LEMMA EndRowsKeeps ==
  ASSUME Inv, NEW e \in Events, At(e, "fetch"), NEW v, EndRows(e, v), UNCHANGED <<qid, stuck>>
  PROVE  Inv'
<1> DEFINE s == stack[e]
           t == Callers(e)
           b == Top(e).block
           f == Frame("shown", b, Top(e).id, <<>>)
           g == Frame("details", b, qid, Details[b])
<1>1. /\ s # <<>> /\ Top(e).at = "fetch" /\ Fine(Top(e), qid) /\ Sound(s, qid) /\ Calls(s, qid)
      /\ Top(e) = Head(s) /\ t = Tail(s)
      /\ Calls(t, qid) /\ Nested(t) /\ qid \in Nat
  BY TopIs
<1>2. CASE running' = [running EXCEPT ![b] = 0] /\ Return(e, Callers(e))
  BY <1>1, <1>2, Finishes
<1>3. CASE QueryDetails(e, <<f>> \o Callers(e), b, qid) /\ UNCHANGED running
  <2>1. /\ Fine(f, qid) /\ f.at = "shown" /\ Fine(g, qid) /\ g.at = "details" /\ g.block = f.block
        /\ ~Outermost(g) /\ \A c : ~Shows(g, c) /\ (Shows(f, c) <=> Shows(Head(s), c))
    BY <1>1 DEF Fine, Frame, Outermost, Shows
  <2>2. stack' = [stack EXCEPT ![e] = <<g>> \o (<<f>> \o t)] /\ running' = running
    BY <1>3 DEF QueryDetails, Push
  <2> HIDE DEF s, t, f, g
  <2>3. t # <<>> => t[1] = Head(t) /\ Head(t).at # "shown"
    BY <1>1, Popped
  <2>4. Calls(<<f>> \o t, qid) /\ Nested(<<f>> \o t)
    BY <1>1, <2>1, <2>3, CallsPush
  <2>5. <<f>> \o t # <<>> /\ (<<f>> \o t)[1] = f
    BY <1>1, Pushed
  <2>6. Sound(<<g>> \o (<<f>> \o t), qid)
    BY <2>1, <2>4, <2>5, SoundPush
  <2>7. \A c : Heights(<<f>> \o t, c) = Heights(s, c)
    BY <1>1, <2>1, HeightsExchanged
  <2>8. \A c : Heights(<<g>> \o (<<f>> \o t), c) = Heights(<<f>> \o t, c)
    <3> DEFINE u == <<f>> \o t
    <3>1. Calls(u, qid) /\ \A c : ~Shows(g, c)
      BY <2>1, <2>4
    <3> HIDE DEF u
    <3>2. \A c : Heights(<<g>> \o u, c) = Heights(u, c)
      BY <3>1, Heights1
    <3> QED
      BY <3>2 DEF u
  <2>9. \A c \in Blocks : Heights(<<g>> \o (<<f>> \o t), c) = Heights(stack[e], c)
    BY <2>7, <2>8 DEF s
  <2>10. qid' \in Nat /\ qid <= qid' /\ Sound(<<g>> \o (<<f>> \o t), qid')
    BY <1>1, <2>6
  <2>11. Staying(e, <<g>> \o (<<f>> \o t))
    BY <2>2, <2>9, <2>10 DEF Staying, Becomes
  <2> QED
    BY <2>11, Quietly
<1> QED
  BY <1>2, <1>3 DEF EndRows

LEMMA FetchKeeps ==
  ASSUME Inv, NEW e \in Events, Fetch(e)
  PROVE  Inv'
<1>1. At(e, "fetch") /\ UNCHANGED <<qid, stuck>>
  BY DEF Fetch
<1>2. \/ \E v : EndRows(e, v)
      \/ \E x : Push(e, Callers(e), [Top(e) EXCEPT !.left = Append(@, x)]) /\ running' = running
  BY DEF Fetch
<1>3. CASE \E v : EndRows(e, v)
  BY <1>1, <1>3, EndRowsKeeps
<1>4. ASSUME NEW x, Push(e, Callers(e), [Top(e) EXCEPT !.left = Append(@, x)]), running' = running
      PROVE  Inv'
  <2> DEFINE g == [Top(e) EXCEPT !.left = Append(@, x)]
  <2>1. stack[e] # <<>> /\ Top(e).at = "fetch" /\ Fine(Top(e), qid)
    BY <1>1, TopIs
  <2>2. Fine(g, qid) /\ g.at = "fetch" /\ ~Outermost(g) /\ \A b : Shows(g, b) <=> Shows(Top(e), b)
    BY <2>1 DEF Fine, Frame, Outermost, Shows
  <2>3. Push(e, Callers(e), g)
    BY <1>4
  <2> HIDE DEF g
  <2> QED
    BY <1>1, <1>4, <2>1, <2>2, <2>3, GoesOn
<1> QED
  BY <1>2, <1>3, <1>4

LEMMA NoMoreRowsKeeps ==
  ASSUME Inv, NEW e \in Events, NoMoreRows(e)
  PROVE  Inv'
<1>1. At(e, "fetch") /\ UNCHANGED <<qid, stuck>>
  BY DEF NoMoreRows
<1>2. \/ \E v : EndRows(e, v)
      \/ running' = [running EXCEPT ![Top(e).block] = 0] /\ Return(e, Callers(e))
  BY DEF NoMoreRows
<1>3. stack[e] # <<>> /\ Top(e).at = "fetch"
  BY <1>1, TopIs
<1> QED
  BY <1>1, <1>2, <1>3, EndRowsKeeps, Finishes

-----------------------------------------------------------------------------
(* The steps of the other calls, and the events. *)

LEMMA PreQueryKeeps ==
  ASSUME Inv, NEW e \in Events, PreQuery(e)
  PROVE  Inv'
<1>1. /\ stack[e] # <<>> /\ Top(e).at = "prequery" /\ Fine(Top(e), qid) /\ qid \in Nat
  BY TopIs DEF PreQuery
<1>2. Outermost(Top(e))
  BY <1>1 DEF Outermost
<1> stuck' = stuck
  BY DEF PreQuery
<1>3. ASSUME NEW left, Push(e, <<>>, [Top(e) EXCEPT !.left = left]), UNCHANGED <<qid, running>>
      PROVE  Inv'
  <2> DEFINE g == [Top(e) EXCEPT !.left = left]
  <2>1. g = Frame("prequery", Top(e).block, Top(e).id, left)
    BY <1>1 DEF Fine, Frame
  <2>2. Fine(g, qid) /\ g.at # "shown" /\ \A b : ~Shows(g, b)
    BY <2>1 DEF Fine, Frame, Shows
  <2>3. Push(e, <<>>, g)
    BY <1>3
  <2> HIDE DEF g
  <2> QED
    BY <1>1, <1>2, <1>3, <2>2, <2>3, GoesAlone
<1>4. CASE Return(e, <<>>) /\ UNCHANGED <<qid, running>>
  BY <1>2, <1>4, GoesAway
<1>5. CASE qid' = qid + 1 /\ Query(e, <<>>, Top(e).block, qid', qid')
  <2>1. /\ Sound(<<>>, qid') /\ Nested(<<>>)
        /\ \A b \in Blocks : Heights(<<>>, b) = Heights(stack[e], b)
    BY <1>2, EmptySound, AloneShowsNothing
  <2>2. qid' \in Nat /\ qid <= qid' /\ qid' \in 1..qid'
    BY <1>1, <1>5
  <2> QED
    BY <1>5, <2>1, <2>2, QueryKeeps
<1> QED
  BY <1>3, <1>4, <1>5 DEF PreQuery

LEMMA StoppedKeeps ==
  ASSUME Inv, NEW e \in Events, Stopped(e)
  PROVE  Inv'
<1>1. Outermost(Top(e)) /\ qid \in Nat
  BY TopIs DEF Stopped, Outermost
<1>2. CASE Return(e, <<>>)
  BY <1>1, <1>2, GoesAway DEF Stopped
<1>3. ASSUME NEW b, NEW left, Close(e, b, left) PROVE Inv'
  <2> DEFINE g == Frame("close", b, 0, left)
  <2>1. Fine(g, qid) /\ g.at # "shown" /\ \A c : ~Shows(g, c)
    BY DEF Fine, Frame, Shows
  <2>2. Push(e, <<>>, g)
    BY <1>3 DEF Close
  <2>3. UNCHANGED <<qid, running, stuck>>
    BY DEF Stopped
  <2> HIDE DEF g
  <2> QED
    BY <1>1, <2>1, <2>2, <2>3, GoesAlone
<1> QED
  BY <1>2, <1>3 DEF Stopped

LEMMA ClosedKeeps ==
  ASSUME Inv, NEW e \in Events, Closed(e) \/ CloseFails(e)
  PROVE  Inv'
<1>1. Outermost(Top(e)) /\ qid \in Nat
  BY TopIs DEF Closed, CloseFails, Outermost
<1>2. UNCHANGED <<qid, running, stuck>>
  BY DEF Closed, CloseFails
<1>3. CASE Return(e, <<>>)
  BY <1>1, <1>2, <1>3, GoesAway
<1>4. ASSUME NEW b, NEW left, Push(e, <<>>, Frame("close", b, 0, left)) PROVE Inv'
  <2> DEFINE g == Frame("close", b, 0, left)
  <2>1. Fine(g, qid) /\ g.at # "shown" /\ \A c : ~Shows(g, c)
    BY DEF Fine, Frame, Shows
  <2>2. Push(e, <<>>, g)
    BY <1>4
  <2> HIDE DEF g
  <2> QED
    BY <1>1, <1>2, <2>1, <2>2, GoesAlone
<1> QED
  BY <1>3, <1>4 DEF Closed, CloseFails

LEMMA EventKeeps ==
  ASSUME Inv, NEW e \in Events, Event(e)
  PROVE  Inv'
<1>1. PICK b \in Blocks :
        \/ ExecuteQuery(e, b) \/ EnterQuery(e, b)
        \/ \E r \in 1..Rows : Navigate(e, b, r)
        \/ \E f \in Fields : Edit(e, b, f)
  BY DEF Event
<1>2. qid \in Nat /\ stuck' = stuck
  BY <1>1 DEF Inv, Types, ExecuteQuery, EnterQuery, Navigate, Edit
<1>3. ASSUME NEW c, NEW left, stack[e] = <<>>, UNCHANGED <<qid, running>>,
             Push(e, <<>>, Frame("prequery", c, 0, left))
      PROVE  Inv'
  <2> DEFINE g == Frame("prequery", c, 0, left)
  <2>1. Fine(g, qid') /\ g.at # "shown" /\ \A d : ~Shows(g, d)
    BY DEF Fine, Frame, Shows
  <2>2. Push(e, <<>>, g)
    BY <1>3
  <2> HIDE DEF g
  <2> QED
    BY <1>2, <1>3, <2>1, <2>2, GoesAlone
<1>4. ASSUME NEW c, NEW left, stack[e] = <<>>, qid' = qid + 1, running' = running,
             \/ Push(e, <<>>, Frame("details", c, qid', left))
             \/ Push(e, <<>>, Frame("stop", c, 0, left))
      PROVE  Inv'
  <2>1. qid' \in Nat /\ qid <= qid' /\ qid' \in 1..qid'
    BY <1>2, <1>4
  <2>2. ASSUME NEW g, g \in {Frame("details", c, qid', left), Frame("stop", c, 0, left)}
        PROVE  Fine(g, qid') /\ g.at # "shown" /\ \A d : ~Shows(g, d)
    BY <2>1, <2>2 DEF Fine, Frame, Shows
  <2>3. PICK g \in {Frame("details", c, qid', left), Frame("stop", c, 0, left)} : Push(e, <<>>, g)
    BY <1>4
  <2> QED
    BY <1>2, <1>4, <2>1, <2>2, <2>3, GoesAlone
<1>5. CASE ExecuteQuery(e, b)
  <2>1. stack[e] = <<>> /\ qid' = qid /\ running' = running
    BY <1>5 DEF ExecuteQuery, Idle
  <2>2. \/ stack' = stack
        \/ \E c : Push(e, <<>>, Frame("prequery", c, 0, WithDetails[c]))
    BY <1>5 DEF ExecuteQuery
  <2> QED
    BY <1>2, <1>3, <2>1, <2>2, NoCall
<1>6. CASE EnterQuery(e, b)
  BY <1>4, <1>6 DEF EnterQuery, Idle
<1>7. CASE \E r \in 1..Rows : Navigate(e, b, r)
  BY <1>4, <1>7 DEF Navigate, Idle, QueryDetails
<1>8. CASE \E f \in Fields : Edit(e, b, f)
  BY <1>4, <1>8 DEF Edit, Idle
<1> QED
  BY <1>1, <1>5, <1>6, <1>7, <1>8

-----------------------------------------------------------------------------
(* The theorem. *)

LEMMA Initially == Init => Inv
<1> SUFFICES ASSUME Init PROVE Inv
  OBVIOUS
<1>1. Types
  BY DEF Init, Types
<1>2. \A e \in Events : stack[e] = <<>>
  BY DEF Init
<1>3. \A e \in Events : Sound(stack[e], qid)
  BY <1>2, EmptySound
<1>4. stuck = {} /\ \A b \in Blocks : running[b] = 0 /\ Free(b)
  BY <1>2, EmptySound DEF Init, Free
<1> QED
  BY <1>1, <1>3, <1>4 DEF Inv, Known

LEMMA Inductive == Inv /\ [Next]_vars => Inv'
<1> SUFFICES ASSUME Inv, [Next]_vars PROVE Inv'
  OBVIOUS
<1>1. ASSUME NEW e \in Events, Event(e) PROVE Inv'
  BY <1>1, EventKeeps
<1>2. ASSUME NEW e \in Events, Continue(e) PROVE Inv'
  BY <1>2, NextDetailKeeps, EndDetailsKeeps, WakeKeeps, AnswerKeeps, QueryFailsKeeps, FetchKeeps,
     NoMoreRowsKeeps, PreQueryKeeps, StoppedKeeps, ClosedKeeps DEF Continue
<1>3. ASSUME NEW b \in Blocks, CancelQuery(b) \/ Insert(b) PROVE Inv'
  BY <1>3, NoCall DEF CancelQuery, Insert
<1>4. CASE UNCHANGED vars
  BY <1>4, NoCall DEF vars
<1> QED
  BY <1>1, <1>2, <1>3, <1>4 DEF Next

\* The calls that display rows in a block are in the stacks at those heights.
LEMMA DisplayingIs ==
  ASSUME Inv, NEW b
  PROVE  /\ Free(b) => Displaying(b) = {}
         /\ Taken(b) => \E c : Displaying(b) = {c}
<1>1. ASSUME NEW e \in Events
      PROVE  /\ Len(stack[e]) \in Nat /\ DOMAIN stack[e] = 1..Len(stack[e])
             /\ \A i \in 1..Len(stack[e]) :
                  Shows(stack[e][i], b) <=> Len(stack[e]) + 1 - i \in Heights(stack[e], b)
             /\ \A h \in Heights(stack[e], b) :
                  /\ h \in 1..Len(stack[e]) /\ Len(stack[e]) + 1 - h \in 1..Len(stack[e])
                  /\ Shows(stack[e][Len(stack[e]) + 1 - h], b)
  <2> DEFINE s == stack[e]
  <2> PICK C : s \in Seq(C)
    BY DEF Inv, Sound, Calls
  <2>1. Len(s) \in Nat /\ DOMAIN s = 1..Len(s)
    OBVIOUS
  <2> HIDE DEF s
  <2>2. ASSUME NEW i \in 1..Len(s)
        PROVE  Shows(s[i], b) <=> Len(s) + 1 - i \in Heights(s, b)
    <3>1. Len(s) + 1 - i \in 1..Len(s) /\ Len(s) + 1 - (Len(s) + 1 - i) = i
      BY <2>1
    <3> QED
      BY <3>1 DEF Heights
  <2>3. ASSUME NEW h \in Heights(s, b)
        PROVE  /\ h \in 1..Len(s) /\ Len(s) + 1 - h \in 1..Len(s)
               /\ Shows(s[Len(s) + 1 - h], b)
    <3>1. h \in 1..Len(s) /\ Shows(s[Len(s) + 1 - h], b)
      BY DEF Heights
    <3> QED
      BY <2>1, <3>1
  <2> QED
    BY <2>1, <2>2, <2>3 DEF s
<1>2. \A c : c \in Displaying(b) <=>
        \E e \in Events : \E i \in 1..Len(stack[e]) : c = <<e, i>> /\ Shows(stack[e][i], b)
  <2>1. \A c : c \in UNION {{e} \X DOMAIN stack[e] : e \in Events} <=>
          \E e \in Events : \E i \in 1..Len(stack[e]) : c = <<e, i>>
    BY <1>1
  <2>2. \A c : c \in Displaying(b) <=>
          c \in UNION {{e} \X DOMAIN stack[e] : e \in Events} /\ Shows(stack[c[1]][c[2]], b)
    BY DEF Displaying, Shows
  <2>3. \A e, i : <<e, i>>[1] = e /\ <<e, i>>[2] = i
    OBVIOUS
  <2> QED
    BY <2>1, <2>2, <2>3
<1>3. ASSUME Free(b) PROVE Displaying(b) = {}
  BY <1>1, <1>2, <1>3 DEF Free
<1>4. ASSUME Taken(b) PROVE \E c : Displaying(b) = {c}
  <2>1. PICK e \in Events : /\ \E h \in Nat : Heights(stack[e], b) = {h}
                            /\ \A g \in Events \ {e} : Heights(stack[g], b) = {}
    BY <1>4 DEF Taken
  <2>2. PICK h \in Nat : Heights(stack[e], b) = {h}
    BY <2>1
  <2> DEFINE i == Len(stack[e]) + 1 - h
  <2>3. i \in 1..Len(stack[e]) /\ Shows(stack[e][i], b)
    BY <1>1, <2>2
  <2>4. <<e, i>> \in Displaying(b)
    BY <1>2, <2>3
  <2>5. ASSUME NEW c \in Displaying(b) PROVE c = <<e, i>>
    <3>1. PICK g \in Events : \E j \in 1..Len(stack[g]) : c = <<g, j>> /\ Shows(stack[g][j], b)
      BY <1>2, <2>5
    <3>2. PICK j \in 1..Len(stack[g]) : c = <<g, j>> /\ Shows(stack[g][j], b)
      BY <3>1
    <3>3. Len(stack[g]) + 1 - j \in Heights(stack[g], b)
      BY <1>1, <3>2
    <3>4. g = e
      BY <2>1, <3>3
    <3>5. Len(stack[e]) + 1 - j = h /\ Len(stack[e]) \in Nat
      BY <1>1, <2>2, <3>3, <3>4
    <3>6. j = i
      BY <3>5
    <3> QED
      BY <3>2, <3>4, <3>6
  <2> QED
    BY <2>4, <2>5
<1> QED
  BY <1>3, <1>4

\* A block displays the rows of one query at a time, and the query manager knows which,
\* however deep the details are and however many events are under way
\* (Block.executeQuery, QueryManager.setRunning).
THEOREM OneQueryAtATime == Spec => []OneQuery
<1>1. Inv => OneQuery
  <2> SUFFICES ASSUME Inv, NEW b \in Blocks
               PROVE  Cardinality(Displaying(b)) = IF running[b] = 0 \/ b \in stuck THEN 0 ELSE 1
    BY DEF OneQuery
  <2>1. /\ (running[b] = 0 \/ b \in stuck => Free(b))
        /\ (running[b] # 0 /\ b \notin stuck => Taken(b))
    BY DEF Inv, Known
  <2>2. CASE running[b] = 0 \/ b \in stuck
    BY <2>1, <2>2, DisplayingIs, FS_EmptySet
  <2>3. CASE ~(running[b] = 0 \/ b \in stuck)
    BY <2>1, <2>3, DisplayingIs, FS_Singleton
  <2> QED
    BY <2>2, <2>3
<1> QED
  BY <1>1, Initially, Inductive, PTL DEF Spec
=============================================================================
