---------------------------- MODULE EventsProofs ----------------------------
(***************************************************************************)
(* What a list of the UI shows, for any number of resources, pages and      *)
(* changes and any capacity of the channels.                                *)
(*                                                                          *)
(* The events on their way to a list tell a story of each resource: the     *)
(* forms it had from before the first of them to the one in the store.      *)
(* What the list shows is one of these forms, not always the oldest: the    *)
(* list was read from a store that is ahead of the events.  To apply an     *)
(* event is to leave the oldest form behind, whichever one is shown.        *)
(***************************************************************************)
EXTENDS Events, SequenceTheorems, FiniteSetTheorems, WellFoundedInduction, TLAPS

\* Every leaf is tried with Zenon first and, when that fails, with the SMT solver.
USE ZenonT(10), SMTT(30)

\* The event takes the resource from the form a to the form b.
Turns(e, a, b) ==
    CASE e.type = "ADDED"    -> a = 0 /\ b # 0 /\ b = e.version
      [] e.type = "MODIFIED" -> a # 0 /\ b # 0 /\ b = e.version
      [] e.type = "DELETED"  -> b = 0

\* h gives the forms of resource o before, between and after the events, up to form last.
Story(events, o, last, h) ==
    /\ h \in [0 .. Len(events) -> Versions]
    /\ h[Len(events)] = last
    /\ \A i \in 1 .. Len(events) :
         IF events[i].object = o THEN Turns(events[i], h[i - 1], h[i]) ELSE h[i] = h[i - 1]

\* Form x of resource o is one of those that the events tell of.
Told(events, o, last, x) ==
    \E h \in [0 .. Len(events) -> Versions] :
        Story(events, o, last, h) /\ \E j \in 0 .. Len(events) : x = h[j]

\* The events on their way to list p, in their order.
Coming(p) == pending[p] \o (chan[p] \o notes)

\* Where a list is in its life.
Order(p) ==
    /\ stream[p] = "closed" => pending[p] = << >> /\ missed[p] = {}
    /\ stream[p] \notin {"subscribed", "resubscribed", "open"} => chan[p] = << >>
    /\ fetch[p] # "none" => stream[p] = "open"

Shows(p) ==
    stream[p] # "closed" => \A o \in Objects \ missed[p] : Told(Coming(p), o, cache[o], view[p][o])
Fetched(p) ==
    fetch[p] = "read" => \A o \in Objects \ late[p] : Told(Coming(p), o, cache[o], fetched[p][o])

NotesTell == \A o \in Objects : Told(notes, o, cache[o], cache[o])

IInv ==
    /\ TypeOK
    /\ NotesTell
    /\ \A p \in Lists : Order(p) /\ Shows(p) /\ Fetched(p)
-----------------------------------------------------------------------------
(* The rows after each of the events.                                       *)

\* A set of numbers that is not empty has a least element.
LEMMA Least ==
    ASSUME NEW S \in SUBSET Nat, S # {}
    PROVE  \E x \in S : \A y \in S : x <= y
<1>1. PICK x \in S : \A y \in S : ~ (<<y, x>> \in OpToRel(<, Nat))
  BY WFMin, NatLessThanWellFounded
<1>2. \A y \in Nat : y < x => <<y, x>> \in OpToRel(<, Nat)
  BY DEF OpToRel
<1>3. ASSUME NEW y \in S PROVE x <= y
  <2>1. x \in Nat /\ y \in Nat /\ ~ (y < x)
    BY <1>1, <1>2
  <2>q. QED
    BY <2>1
<1>q. QED
  BY <1>3

\* g gives the rows after the first n of the events, up to m of them.
Rows(rows, events, m, g) ==
    g = [n \in 0 .. m |-> IF n = 0 THEN rows ELSE applyEvent(g[n - 1], events[n])]

\* The recursion of flush has a value: for every number of events there are such rows.
LEMMA RowsExist ==
    ASSUME NEW rows, NEW events, NEW m \in Nat
    PROVE  \E g : Rows(rows, events, m, g)
<1> DEFINE Bad == {k \in Nat : ~ \E g : Rows(rows, events, k, g)}
<1>1. SUFFICES ASSUME Bad # {} PROVE FALSE
  OBVIOUS
<1>2. PICK k \in Bad : \A y \in Bad : k <= y
  <2>1. Bad \in SUBSET Nat
    OBVIOUS
  <2>q. QED
    BY <1>1, <2>1, Least
<1>3. k \in Nat /\ ~ \E g : Rows(rows, events, k, g)
  BY <1>2
<1>4. CASE k = 0
  <2> DEFINE g == [n \in 0 .. 0 |-> rows]
  <2>1. g = [n \in 0 .. 0 |-> IF n = 0 THEN rows ELSE applyEvent(g[n - 1], events[n])]
    OBVIOUS
  <2>2. Rows(rows, events, 0, g)
    BY <2>1 DEF Rows
  <2>q. QED
    BY <1>3, <1>4, <2>2
<1>5. CASE k # 0
  <2>1. k - 1 \in Nat /\ k - 1 \notin Bad
    BY <1>2, <1>3, <1>5
  <2>2. PICK f : Rows(rows, events, k - 1, f)
    BY <2>1
  <2> DEFINE g == [n \in 0 .. k |-> IF n = k THEN applyEvent(f[k - 1], events[k]) ELSE f[n]]
  <2>3. DOMAIN f = 0 .. k - 1 /\ \A n \in 0 .. k - 1 :
          f[n] = IF n = 0 THEN rows ELSE applyEvent(f[n - 1], events[n])
    BY <2>2 DEF Rows
  <2>4. ASSUME NEW n \in 0 .. k
        PROVE  g[n] = IF n = 0 THEN rows ELSE applyEvent(g[n - 1], events[n])
    <3>1. CASE n = k
      <4>1. n # 0 /\ n - 1 \in 0 .. k /\ n - 1 # k
        BY <1>3, <1>5, <3>1
      <4>2. g[n - 1] = f[n - 1]
        BY <4>1
      <4>q. QED
        BY <3>1, <4>1, <4>2
    <3>2. CASE n # k /\ n # 0
      <4>1. n - 1 \in 0 .. k /\ n - 1 # k /\ n \in 0 .. k - 1
        BY <1>3, <3>2
      <4>2. g[n - 1] = f[n - 1] /\ g[n] = f[n]
        BY <3>2, <4>1
      <4>q. QED
        BY <3>2, <4>1, <4>2, <2>3
    <3>3. CASE n = 0
      <4>1. n # k /\ n \in 0 .. k - 1
        BY <1>3, <1>5, <3>3
      <4>q. QED
        BY <3>3, <4>1, <2>3
    <3>q. QED
      BY <3>1, <3>2, <3>3
  <2>5. g = [n \in 0 .. k |-> IF n = 0 THEN rows ELSE applyEvent(g[n - 1], events[n])]
    <3> DEFINE G == g
    <3>1. G = [n \in 0 .. k |-> G[n]]
      OBVIOUS
    <3>2. \A n \in 0 .. k : G[n] = IF n = 0 THEN rows ELSE applyEvent(G[n - 1], events[n])
      BY <2>4
    <3> HIDE DEF G
    <3>3. G = [n \in 0 .. k |-> IF n = 0 THEN rows ELSE applyEvent(G[n - 1], events[n])]
      BY <3>1, <3>2
    <3>q. QED
      BY <3>3 DEF G
  <2>6. Rows(rows, events, k, g)
    BY <2>5 DEF Rows
  <2>q. QED
    BY <1>3, <2>6
<1>q. QED
  BY <1>4, <1>5

\* What flush computes: the rows given, and after each event those it makes of the ones before.
LEMMA RowsUnfold ==
    ASSUME NEW rows, NEW events \in Seq(Event)
    PROVE  /\ RowsAfter(rows, events)[0] = rows
           /\ \A n \in 1 .. Len(events) :
                RowsAfter(rows, events)[n] = applyEvent(RowsAfter(rows, events)[n - 1], events[n])
<1> DEFINE f == RowsAfter(rows, events)
<1>1. f = CHOOSE g : Rows(rows, events, Len(events), g)
  BY DEF RowsAfter, Rows
<1>2. Len(events) \in Nat
  OBVIOUS
<1>3. Rows(rows, events, Len(events), f)
  BY <1>1, <1>2, RowsExist
<1> HIDE DEF f
<1>4. \A n \in 0 .. Len(events) : f[n] = IF n = 0 THEN rows ELSE applyEvent(f[n - 1], events[n])
  BY <1>3 DEF Rows
<1>5. 0 \in 0 .. Len(events) /\ \A n \in 1 .. Len(events) : n \in 0 .. Len(events) /\ n # 0
  BY <1>2
<1>6. f[0] = rows /\ \A n \in 1 .. Len(events) : f[n] = applyEvent(f[n - 1], events[n])
  BY <1>4, <1>5
<1>q. QED
  BY <1>6 DEF f

\* What applyEvent makes of the row of a resource: a row that shows the form before the
\* event comes to show the one after it, any other row keeps its form or comes to show that.
LEMMA ApplyOne ==
    ASSUME NEW rows \in Views, NEW e \in Event, NEW o \in Objects, NEW a, NEW b
    PROVE  /\ e.object = o /\ Turns(e, a, b) =>
                /\ applyEvent(rows, e)[o] \in {rows[o], b}
                /\ rows[o] = a => applyEvent(rows, e)[o] = b
<1>1. /\ e.type \in {"ADDED", "MODIFIED", "DELETED"} /\ e.object \in Objects
      /\ e.version \in Versions /\ 0 \in Versions
  BY EventsAssumption DEF Event, Versions
<1>2. rows \in [Objects -> Versions]
  BY DEF Views
<1>3. CASE e.type = "ADDED"
  <2>1. applyEvent(rows, e) =
          [rows EXCEPT ![e.object] = IF rows[e.object] = 0 THEN e.version ELSE rows[e.object]]
    BY <1>3 DEF applyEvent
  <2>q. QED
    BY <1>1, <1>2, <1>3, <2>1 DEF Views, Turns
<1>4. CASE e.type = "MODIFIED"
  <2>1. applyEvent(rows, e) =
          [rows EXCEPT ![e.object] = IF rows[e.object] = 0 THEN rows[e.object] ELSE e.version]
    BY <1>4 DEF applyEvent
  <2>q. QED
    BY <1>1, <1>2, <1>4, <2>1 DEF Views, Turns
<1>5. CASE e.type = "DELETED"
  <2>1. applyEvent(rows, e) = [rows EXCEPT ![e.object] = 0]
    BY <1>5 DEF applyEvent
  <2>q. QED
    BY <1>1, <1>2, <1>5, <2>1 DEF Views, Turns
<1>q. QED
  BY <1>1, <1>3, <1>4, <1>5

\* applyEvent makes rows of rows, and leaves the rows of other resources alone.
LEMMA ApplyOthers ==
    ASSUME NEW rows \in Views, NEW e \in Event
    PROVE  /\ applyEvent(rows, e) \in Views
           /\ \A o \in Objects : e.object # o => applyEvent(rows, e)[o] = rows[o]
<1>1. e.object \in Objects /\ e.version \in Versions /\ 0 \in Versions
  BY EventsAssumption DEF Event, Versions
<1>2. rows \in [Objects -> Versions]
  BY DEF Views
<1>3. \E x \in Versions : applyEvent(rows, e) = [rows EXCEPT ![e.object] = x]
  <2>1. e.type \in {"ADDED", "MODIFIED", "DELETED"}
    BY DEF Event
  <2>2. CASE e.type = "ADDED"
    BY <1>1, <1>2, <2>2 DEF applyEvent
  <2>3. CASE e.type = "MODIFIED"
    BY <1>1, <1>2, <2>3 DEF applyEvent
  <2>4. CASE e.type = "DELETED"
    BY <1>1, <1>2, <2>4 DEF applyEvent
  <2>q. QED
    BY <2>1, <2>2, <2>3, <2>4
<1>q. QED
  BY <1>1, <1>2, <1>3 DEF Views

\* The rows of a list stay rows of resources.
LEMMA RowsType ==
    ASSUME NEW rows \in Views, NEW events \in Seq(Event)
    PROVE  \A n \in 0 .. Len(events) : RowsAfter(rows, events)[n] \in Views
<1> DEFINE f   == RowsAfter(rows, events)
           Bad == {n \in 0 .. Len(events) : f[n] \notin Views}
<1>1. Len(events) \in Nat
  OBVIOUS
<1>2. f[0] = rows /\ \A n \in 1 .. Len(events) : f[n] = applyEvent(f[n - 1], events[n])
  BY RowsUnfold
<1> HIDE DEF f
<1>3. SUFFICES ASSUME Bad # {} PROVE FALSE
  BY DEF f
<1>4. PICK k \in Bad : \A y \in Bad : k <= y
  <2>1. Bad \in SUBSET Nat
    BY <1>1
  <2>q. QED
    BY <1>3, <2>1, Least
<1>5. k # 0 /\ k \in 1 .. Len(events)
  BY <1>1, <1>2, <1>4
<1>6. k - 1 \in 0 .. Len(events) /\ k - 1 \notin Bad
  BY <1>1, <1>4, <1>5
<1>7. f[k - 1] \in Views /\ events[k] \in Event
  BY <1>5, <1>6
<1>8. f[k] \in Views
  BY <1>2, <1>5, <1>7, ApplyOthers
<1>q. QED
  BY <1>4, <1>8
-----------------------------------------------------------------------------
(* The stories that events tell.                                            *)

\* A resource keeps its form over events of others.
LEMMA StoryRests ==
    ASSUME NEW S \in Seq(Event), NEW o \in Objects, NEW last, NEW h, Story(S, o, last, h),
           NEW a \in 0 .. Len(S), NEW b \in 0 .. Len(S),
           \A i \in a + 1 .. b : S[i].object # o
    PROVE  \A i \in a .. b : h[i] = h[a]
<1> DEFINE Bad == {n \in a .. b : h[n] # h[a]}
<1>1. Len(S) \in Nat /\ a \in Nat /\ b \in Nat /\ b <= Len(S)
  OBVIOUS
<1>2. SUFFICES ASSUME Bad # {} PROVE FALSE
  OBVIOUS
<1>3. PICK k \in Bad : \A y \in Bad : k <= y
  <2>1. Bad \in SUBSET Nat
    BY <1>1
  <2>q. QED
    BY <1>2, <2>1, Least
<1>4. k \in a + 1 .. b /\ k - 1 \in a .. b /\ k \in 1 .. Len(S)
  BY <1>1, <1>3
<1>5. k - 1 \notin Bad
  BY <1>1, <1>3, <1>4
<1>6. h[k] = h[k - 1]
  BY <1>4 DEF Story
<1>q. QED
  BY <1>3, <1>4, <1>5, <1>6

\* What flush leaves of a story: when the events at its front are applied to a row that
\* shows one of its forms, the row shows one of the forms that the rest tells of.
LEMMA FlushTold ==
    ASSUME NEW rows \in Views, NEW P \in Seq(Event), NEW R \in Seq(Event), NEW o \in Objects,
           NEW last, Told(P \o R, o, last, rows[o])
    PROVE  Told(R, o, last, RowsAfter(rows, P)[Len(P)][o])
<1> DEFINE f == RowsAfter(rows, P)
           S == P \o R
           L == Len(P)
           M == Len(R)
<1>1. L \in Nat /\ M \in Nat /\ S \in Seq(Event) /\ Len(S) = L + M
  BY ConcatProperties
<1>2. \A i \in 1 .. L + M : S[i] = IF i <= L THEN P[i] ELSE R[i - L]
  BY ConcatProperties
<1>3. f[0] = rows /\ \A n \in 1 .. L : f[n] = applyEvent(f[n - 1], P[n])
  BY RowsUnfold
<1>4. \A n \in 0 .. L : f[n] \in Views
  BY RowsType
<1>5. PICK h \in [0 .. Len(S) -> Versions] : Story(S, o, last, h) /\ \E j \in 0 .. Len(S) : rows[o] = h[j]
  BY DEF Told
<1> HIDE DEF f, S
<1>6. h \in [0 .. L + M -> Versions] /\ h[L + M] = last
  BY <1>1, <1>5 DEF Story
<1>7. \A i \in 1 .. L + M :
        IF S[i].object = o THEN Turns(S[i], h[i - 1], h[i]) ELSE h[i] = h[i - 1]
  BY <1>1, <1>5 DEF Story
<1> DEFINE Bad == {n \in 0 .. L : ~ \E j \in n .. L + M : f[n][o] = h[j]}
<1>8. Bad = {}
  <2>1. SUFFICES ASSUME Bad # {} PROVE FALSE
    OBVIOUS
  <2>2. PICK k \in Bad : \A y \in Bad : k <= y
    <3>1. Bad \in SUBSET Nat
      BY <1>1
    <3>q. QED
      BY <2>1, <3>1, Least
  <2>3. k # 0
    BY <1>1, <1>3, <1>5, <2>2
  <2>4. k \in 1 .. L /\ k \in 1 .. L + M /\ k - 1 \in 0 .. L /\ k - 1 \notin Bad
    BY <1>1, <2>2, <2>3
  <2>5. PICK j \in k - 1 .. L + M : f[k - 1][o] = h[j]
    BY <2>4
  <2>6. P[k] \in Event /\ S[k] = P[k] /\ f[k - 1] \in Views
    BY <1>1, <1>2, <1>4, <2>4
  <2>7. f[k] = applyEvent(f[k - 1], P[k])
    BY <1>3, <2>4
  <2>8. CASE P[k].object # o
    <3>1. f[k][o] = h[j] /\ h[k] = h[k - 1]
      <4>1. applyEvent(f[k - 1], P[k])[o] = f[k - 1][o]
        BY <2>6, <2>8, ApplyOthers
      <4>2. h[k] = h[k - 1]
        BY <1>7, <2>4, <2>6, <2>8
      <4>q. QED
        BY <2>5, <2>7, <4>1, <4>2
    <3>2. \E i \in k .. L + M : h[j] = h[i]
      BY <1>1, <2>4, <2>5, <3>1
    <3>q. QED
      BY <2>2, <3>1, <3>2
  <2>9. CASE P[k].object = o
    <3>1. Turns(P[k], h[k - 1], h[k])
      BY <1>7, <2>4, <2>6, <2>9
    <3>2. f[k][o] \in {f[k - 1][o], h[k]} /\ (f[k - 1][o] = h[k - 1] => f[k][o] = h[k])
      BY <2>6, <2>7, <2>9, <3>1, ApplyOne
    <3>3. \E i \in k .. L + M : f[k][o] = h[i]
      BY <1>1, <2>4, <2>5, <3>2
    <3>q. QED
      BY <2>2, <3>3
  <2>q. QED
    BY <2>8, <2>9
<1>9. PICK j \in L .. L + M : f[L][o] = h[j]
  BY <1>1, <1>8
<1> DEFINE g == [i \in 0 .. M |-> h[i + L]]
<1>10. g \in [0 .. M -> Versions] /\ g[M] = last
  BY <1>1, <1>6
<1>11. ASSUME NEW i \in 1 .. M
       PROVE  IF R[i].object = o THEN Turns(R[i], g[i - 1], g[i]) ELSE g[i] = g[i - 1]
  <2>1. i + L \in 1 .. L + M /\ ~ (i + L <= L) /\ (i + L) - L = i /\ (i + L) - 1 = (i - 1) + L
    BY <1>1
  <2>2. g[i] = h[i + L] /\ g[i - 1] = h[(i + L) - 1]
    BY <1>1, <2>1
  <2>3. S[i + L] = R[i]
    BY <1>2, <2>1
  <2>q. QED
    BY <1>7, <2>1, <2>2, <2>3
<1>12. Story(R, o, last, g)
  BY <1>10, <1>11 DEF Story
<1>13. j - L \in 0 .. M /\ f[L][o] = g[j - L]
  BY <1>1, <1>9
<1>q. QED
  BY <1>10, <1>12, <1>13 DEF Told, f

\* The form in the store is always one that the events tell of.
LEMMA ToldLast ==
    ASSUME NEW S \in Seq(Event), NEW o, NEW last, NEW x, Told(S, o, last, x)
    PROVE  Told(S, o, last, last)
<1>1. PICK h \in [0 .. Len(S) -> Versions] : Story(S, o, last, h)
  BY DEF Told
<1>2. Len(S) \in 0 .. Len(S) /\ last = h[Len(S)]
  BY <1>1 DEF Story
<1>q. QED
  BY <1>1, <1>2 DEF Told

\* Events of other resources may go from the middle of a story.
LEMMA ToldCut ==
    ASSUME NEW A \in Seq(Event), NEW B \in Seq(Event), NEW C \in Seq(Event), NEW o \in Objects,
           NEW last, NEW x, o \notin ObjectsOf(B), Told(A \o (B \o C), o, last, x)
    PROVE  Told(A \o C, o, last, x)
<1> DEFINE S == A \o (B \o C)
           T == A \o C
           a == Len(A)
           b == Len(B)
           c == Len(C)
<1>1. a \in Nat /\ b \in Nat /\ c \in Nat /\ DOMAIN B = 1 .. b
  OBVIOUS
<1>2. /\ B \o C \in Seq(Event) /\ Len(B \o C) = b + c
      /\ \A i \in 1 .. b + c : (B \o C)[i] = IF i <= b THEN B[i] ELSE C[i - b]
  BY ConcatProperties
<1>3. /\ S \in Seq(Event) /\ Len(S) = a + (b + c)
      /\ \A i \in 1 .. a + (b + c) : S[i] = IF i <= a THEN A[i] ELSE (B \o C)[i - a]
  BY <1>2, ConcatProperties
<1>4. /\ T \in Seq(Event) /\ Len(T) = a + c
      /\ \A i \in 1 .. a + c : T[i] = IF i <= a THEN A[i] ELSE C[i - a]
  BY ConcatProperties
<1>5. PICK h \in [0 .. Len(S) -> Versions] : Story(S, o, last, h) /\ \E j \in 0 .. Len(S) : x = h[j]
  BY DEF Told
<1> HIDE DEF S, T
<1>6. h \in [0 .. a + (b + c) -> Versions] /\ h[a + (b + c)] = last
  BY <1>3, <1>5 DEF Story
<1>7. \A i \in 1 .. a + (b + c) :
        IF S[i].object = o THEN Turns(S[i], h[i - 1], h[i]) ELSE h[i] = h[i - 1]
  BY <1>3, <1>5 DEF Story
<1>8. \A i \in a .. a + b : h[i] = h[a]
  <2>1. a \in 0 .. Len(S) /\ a + b \in 0 .. Len(S)
    BY <1>1, <1>3
  <2>2. ASSUME NEW i \in a + 1 .. a + b PROVE S[i].object # o
    <3>1. i \in 1 .. a + (b + c) /\ ~ (i <= a) /\ i - a \in 1 .. b /\ i - a \in 1 .. b + c /\ i - a <= b
      BY <1>1
    <3>2. S[i] = B[i - a]
      BY <1>2, <1>3, <3>1
    <3>q. QED
      BY <1>1, <3>1, <3>2 DEF ObjectsOf
  <2>3. S \in Seq(Event) /\ Story(S, o, last, h) /\ \A i \in a + 1 .. a + b : S[i].object # o
    BY <1>3, <1>5, <2>2
  <2> DEFINE d == a + b
  <2> HIDE DEF a, d
  <2>4. /\ a \in 0 .. Len(S) /\ d \in 0 .. Len(S) /\ \A i \in a + 1 .. d : S[i].object # o
    BY <2>1, <2>3 DEF d
  <2>5. \A i \in a .. d : h[i] = h[a]
    BY <2>3, <2>4, StoryRests
  <2>q. QED
    BY <2>5 DEF d
<1> DEFINE g == [i \in 0 .. a + c |-> IF i <= a THEN h[i] ELSE h[i + b]]
<1>9. g \in [0 .. a + c -> Versions] /\ g[a + c] = last
  <2>1. a + c \in 0 .. a + c /\ (a + c) + b = a + (b + c) /\ a + b \in a .. a + b
    BY <1>1
  <2>2. CASE c = 0
    <3>1. a + c = a /\ a + (b + c) = a + b
      BY <1>1, <2>2
    <3>q. QED
      BY <1>1, <1>6, <1>8, <2>1, <3>1
  <2>3. CASE c # 0
    BY <1>1, <1>6, <2>1, <2>3
  <2>q. QED
    BY <2>2, <2>3
<1>10. ASSUME NEW i \in 1 .. a + c
       PROVE  IF T[i].object = o THEN Turns(T[i], g[i - 1], g[i]) ELSE g[i] = g[i - 1]
  <2>1. CASE i <= a
    <3>1. i \in 1 .. a + (b + c) /\ i \in 0 .. a + c /\ i - 1 \in 0 .. a + c /\ i - 1 <= a
      BY <1>1, <2>1
    <3>2. S[i] = T[i] /\ g[i] = h[i] /\ g[i - 1] = h[i - 1]
      BY <1>3, <1>4, <2>1, <3>1
    <3>q. QED
      BY <1>7, <3>1, <3>2
  <2>2. CASE ~ (i <= a)
    <3>1. /\ i + b \in 1 .. a + (b + c) /\ ~ (i + b <= a)
          /\ (i + b) - a \in 1 .. b + c /\ ~ ((i + b) - a <= b) /\ ((i + b) - a) - b = i - a
          /\ i \in 0 .. a + c /\ i - 1 \in 0 .. a + c /\ (i - 1) + b = (i + b) - 1
          /\ (i - 1 <= a => i - 1 = a /\ (i + b) - 1 = a + b) /\ a + b \in a .. a + b
      <4> HIDE DEF a, b, c
      <4>1. i \in Int /\ a < i /\ i <= a + c
        BY <1>1, <2>2
      <4>q. QED
        BY <1>1, <4>1
    <3>2. S[i + b] = C[i - a] /\ T[i] = C[i - a]
      BY <1>2, <1>3, <1>4, <2>2, <3>1
    <3>3. g[i] = h[i + b]
      BY <2>2, <3>1
    <3>4. g[i - 1] = h[(i + b) - 1]
      BY <1>8, <3>1
    <3>q. QED
      BY <1>7, <3>1, <3>2, <3>3, <3>4
  <2>q. QED
    BY <2>1, <2>2
<1>11. Story(T, o, last, g)
  BY <1>4, <1>9, <1>10 DEF Story
<1>12. PICK j \in 0 .. a + (b + c) : x = h[j]
  BY <1>3, <1>5
<1>13. \E i \in 0 .. a + c : x = g[i]
  <2>1. CASE j <= a
    BY <1>1, <1>12, <2>1
  <2>2. CASE ~ (j <= a) /\ j <= a + b
    <3>1. j \in a .. a + b /\ a \in 0 .. a + c
      BY <1>1, <2>2
    <3>2. g[a] = h[a] /\ h[j] = h[a]
      BY <1>1, <1>8, <3>1
    <3>q. QED
      BY <1>12, <3>1, <3>2
  <2>3. CASE ~ (j <= a + b)
    <3>1. j - b \in 0 .. a + c /\ ~ (j - b <= a) /\ (j - b) + b = j
      BY <1>1, <2>3
    <3>2. g[j - b] = h[j]
      BY <3>1
    <3>q. QED
      BY <1>12, <3>1, <3>2
  <2>q. QED
    BY <1>1, <2>1, <2>2, <2>3
<1>14. Told(T, o, last, x)
  BY <1>4, <1>9, <1>11, <1>13 DEF Told
<1>q. QED
  BY <1>14 DEF T

\* Events of other resources may come before a story.
LEMMA ToldAfter ==
    ASSUME NEW B \in Seq(Event), NEW C \in Seq(Event), NEW o \in Objects, NEW last, NEW x,
           o \notin ObjectsOf(B), Told(C, o, last, x)
    PROVE  Told(B \o C, o, last, last)
<1> DEFINE T == B \o C
           b == Len(B)
           c == Len(C)
<1>1. b \in Nat /\ c \in Nat /\ DOMAIN B = 1 .. b
  OBVIOUS
<1>2. /\ T \in Seq(Event) /\ Len(T) = b + c
      /\ \A i \in 1 .. b + c : T[i] = IF i <= b THEN B[i] ELSE C[i - b]
  BY ConcatProperties
<1>3. PICK h \in [0 .. c -> Versions] : Story(C, o, last, h)
  BY DEF Told
<1> HIDE DEF T
<1>4. h[c] = last /\ \A i \in 1 .. c :
        IF C[i].object = o THEN Turns(C[i], h[i - 1], h[i]) ELSE h[i] = h[i - 1]
  BY <1>3 DEF Story
<1> DEFINE g == [i \in 0 .. b + c |-> IF i <= b THEN h[0] ELSE h[i - b]]
<1>5. g \in [0 .. b + c -> Versions] /\ g[b + c] = last
  <2>1. g \in [0 .. b + c -> Versions]
    BY <1>1, <1>3
  <2>2. b + c \in 0 .. b + c /\ (b + c) - b = c /\ (b + c <= b => c = 0)
    BY <1>1
  <2>q. QED
    BY <1>4, <2>1, <2>2
<1>6. ASSUME NEW i \in 1 .. b + c
      PROVE  IF T[i].object = o THEN Turns(T[i], g[i - 1], g[i]) ELSE g[i] = g[i - 1]
  <2>1. CASE i <= b
    <3>1. i \in 1 .. b /\ i \in 0 .. b + c /\ i - 1 \in 0 .. b + c /\ i - 1 <= b
      BY <1>1, <2>1
    <3>2. T[i] = B[i] /\ B[i].object # o
      BY <1>1, <1>2, <2>1, <3>1 DEF ObjectsOf
    <3>q. QED
      BY <2>1, <3>1, <3>2
  <2>2. CASE ~ (i <= b)
    <3>1. /\ i - b \in 1 .. c /\ i \in 0 .. b + c /\ i - 1 \in 0 .. b + c
          /\ (i - 1) - b = (i - b) - 1 /\ (i - 1 <= b => (i - b) - 1 = 0)
      BY <1>1, <2>2
    <3>2. T[i] = C[i - b] /\ g[i] = h[i - b] /\ g[i - 1] = h[(i - b) - 1]
      BY <1>2, <2>2, <3>1
    <3>q. QED
      BY <1>4, <3>1, <3>2
  <2>q. QED
    BY <2>1, <2>2
<1>7. Story(T, o, last, g)
  BY <1>2, <1>5, <1>6 DEF Story
<1>8. b + c \in 0 .. b + c
  BY <1>1
<1>9. Told(T, o, last, last)
  BY <1>2, <1>5, <1>7, <1>8 DEF Told
<1>q. QED
  BY <1>9 DEF T

\* A story goes on with the events that take the resource on from its last form.
LEMMA ToldOn ==
    ASSUME NEW S \in Seq(Event), NEW D \in Seq(Event), NEW o \in Objects, NEW last, NEW next, NEW x,
           NEW k, Told(S, o, last, x), Story(D, o, next, k), k[0] = last
    PROVE  Told(S \o D, o, next, x)
<1> DEFINE T == S \o D
           s == Len(S)
           d == Len(D)
<1>1. s \in Nat /\ d \in Nat
  OBVIOUS
<1>2. /\ T \in Seq(Event) /\ Len(T) = s + d
      /\ \A i \in 1 .. s + d : T[i] = IF i <= s THEN S[i] ELSE D[i - s]
  BY ConcatProperties
<1>3. PICK h \in [0 .. s -> Versions] : Story(S, o, last, h) /\ \E j \in 0 .. s : x = h[j]
  BY DEF Told
<1> HIDE DEF T
<1>4. h[s] = last /\ \A i \in 1 .. s :
        IF S[i].object = o THEN Turns(S[i], h[i - 1], h[i]) ELSE h[i] = h[i - 1]
  BY <1>3 DEF Story
<1>5. k \in [0 .. d -> Versions] /\ k[d] = next /\ \A i \in 1 .. d :
        IF D[i].object = o THEN Turns(D[i], k[i - 1], k[i]) ELSE k[i] = k[i - 1]
  BY DEF Story
<1> DEFINE g == [i \in 0 .. s + d |-> IF i <= s THEN h[i] ELSE k[i - s]]
<1>6. g \in [0 .. s + d -> Versions] /\ g[s + d] = next
  <2>1. g \in [0 .. s + d -> Versions]
    BY <1>1, <1>3, <1>5
  <2>2. s + d \in 0 .. s + d /\ (s + d) - s = d /\ (s + d <= s => d = 0 /\ s + d = s)
    BY <1>1
  <2>q. QED
    BY <1>4, <1>5, <2>1, <2>2
<1>7. ASSUME NEW i \in 1 .. s + d
      PROVE  IF T[i].object = o THEN Turns(T[i], g[i - 1], g[i]) ELSE g[i] = g[i - 1]
  <2>1. CASE i <= s
    <3>1. i \in 1 .. s /\ i \in 0 .. s + d /\ i - 1 \in 0 .. s + d /\ i - 1 <= s
      BY <1>1, <2>1
    <3>2. T[i] = S[i] /\ g[i] = h[i] /\ g[i - 1] = h[i - 1]
      BY <1>2, <2>1, <3>1
    <3>q. QED
      BY <1>4, <3>1, <3>2
  <2>2. CASE ~ (i <= s)
    <3>1. /\ i - s \in 1 .. d /\ i \in 0 .. s + d /\ i - 1 \in 0 .. s + d
          /\ (i - 1) - s = (i - s) - 1 /\ (i - 1 <= s => i - 1 = s /\ (i - s) - 1 = 0)
      BY <1>1, <2>2
    <3>2. T[i] = D[i - s] /\ g[i] = k[i - s]
      BY <1>2, <2>2, <3>1
    <3>3. g[i - 1] = k[(i - s) - 1]
      BY <1>4, <3>1
    <3>q. QED
      BY <1>5, <3>1, <3>2, <3>3
  <2>q. QED
    BY <2>1, <2>2
<1>8. Story(T, o, next, g)
  BY <1>2, <1>6, <1>7 DEF Story
<1>9. \E j \in 0 .. s + d : x = g[j]
  BY <1>1, <1>3
<1>10. Told(T, o, next, x)
  BY <1>2, <1>6, <1>8, <1>9 DEF Told
<1>q. QED
  BY <1>10 DEF T

LEMMA Associative ==
    ASSUME NEW s \in Seq(Event), NEW t \in Seq(Event), NEW u \in Seq(Event)
    PROVE  (s \o t) \o u = s \o (t \o u)
BY ConcatAssociative

\* The first event of a queue moves to the end of the queue in front of it.
LEMMA Moves ==
    ASSUME NEW s \in Seq(Event), NEW t \in Seq(Event), t # << >>
    PROVE  /\ Head(t) \in Event /\ Tail(t) \in Seq(Event) /\ Append(s, Head(t)) \in Seq(Event)
           /\ Append(s, Head(t)) \o Tail(t) = s \o t
           /\ <<Head(t)>> \in Seq(Event) /\ t = <<Head(t)>> \o Tail(t)
<1>1. /\ Head(t) \in Event /\ Tail(t) \in Seq(Event) /\ Append(s, Head(t)) \in Seq(Event)
      /\ <<Head(t)>> \in Seq(Event)
  OBVIOUS
<1>2. t = <<Head(t)>> \o Tail(t)
  OBVIOUS
<1>3. Append(s, Head(t)) = s \o <<Head(t)>>
  OBVIOUS
<1>4. (s \o <<Head(t)>>) \o Tail(t) = s \o (<<Head(t)>> \o Tail(t))
  BY <1>1, Associative
<1>q. QED
  BY <1>1, <1>2, <1>3, <1>4
-----------------------------------------------------------------------------
(* The types.                                                               *)

LEMMA InitType == Init => TypeOK
<1> SUFFICES ASSUME Init PROVE TypeOK
  OBVIOUS
<1>1. 0 \in Versions /\ 0 \in 0 .. MaxFaults /\ NoView \in Views
  BY EventsAssumption DEF Versions, NoView, Views
<1>2. cluster \in Views /\ cache \in Views
  BY <1>1 DEF Init, Views
<1>3. /\ notes \in Seq(Event) /\ chan \in [Pages -> Seq(Event)] /\ pending \in [Lists -> Seq(Event)]
      /\ \A p \in Pages : Len(chan[p]) <= Buffer
  BY EventsAssumption DEF Init
<1>4. /\ stream \in [Pages -> {"closed", "loaded", "subscribed", "resubscribed", "open", "lost"}]
      /\ view \in [Pages -> Views] /\ fetched \in [Lists -> Views]
      /\ fetch \in [Lists -> {"none", "asked", "read"}]
      /\ missed \in [Pages -> SUBSET Objects] /\ late \in [Pages -> SUBSET Objects]
  BY <1>1 DEF Init
<1>q. QED
  BY <1>1, <1>2, <1>3, <1>4 DEF Init, TypeOK, Versions

\* The event that the informer makes of a change of its store.
News(o) ==
    [type    |-> CASE cache[o] = 0 -> "ADDED" [] cluster[o] = 0 -> "DELETED" [] OTHER -> "MODIFIED",
     object  |-> o,
     version |-> IF cluster[o] = 0 THEN cache[o] ELSE cluster[o]]

LEMMA NewsType ==
    ASSUME TypeOK, NEW o \in Objects, cache[o] # cluster[o]
    PROVE  /\ News(o) \in Event /\ News(o).object = o
           /\ cluster[o] \in Versions /\ cache[o] \in Versions /\ Turns(News(o), cache[o], cluster[o])
<1>1. cluster[o] \in Versions /\ cache[o] \in Versions
  BY DEF TypeOK, Views
<1>2. News(o).object = o /\ News(o).version = IF cluster[o] = 0 THEN cache[o] ELSE cluster[o]
  BY DEF News
<1>3. CASE cache[o] = 0
  <2>1. News(o).type = "ADDED"
    BY <1>3 DEF News
  <2>q. QED
    BY <1>1, <1>2, <1>3, <2>1 DEF News, Event, Turns
<1>4. CASE cache[o] # 0 /\ cluster[o] = 0
  <2>1. News(o).type = "DELETED"
    BY <1>4 DEF News
  <2>q. QED
    BY <1>1, <1>2, <1>4, <2>1 DEF News, Event, Turns
<1>5. CASE cache[o] # 0 /\ cluster[o] # 0
  <2>1. News(o).type = "MODIFIED"
    BY <1>5 DEF News
  <2>q. QED
    BY <1>1, <1>2, <1>5, <2>1 DEF News, Event, Turns
<1>q. QED
  BY <1>3, <1>4, <1>5

LEMMA ObjectsOfType ==
    ASSUME NEW S \in Seq(Event)
    PROVE  ObjectsOf(S) \subseteq Objects
<1>1. \A i \in DOMAIN S : S[i] \in Event
  OBVIOUS
<1>q. QED
  BY <1>1 DEF ObjectsOf, Event

\* The notifications of a resync are updates of resources there are, in their present form.
LEMMA ResyncNotes ==
    ASSUME TypeOK, resync
    PROVE  /\ notes = << >> /\ notes' \in Seq(Event)
           /\ \A i \in 1 .. Len(notes') :
                notes'[i].object \in Objects =>
                  /\ notes'[i].type = "MODIFIED" /\ notes'[i].version = cache[notes'[i].object]
                  /\ cache[notes'[i].object] # 0
<1>1. PICK order \in [1 .. Cardinality(Present) -> Present] :
        notes' = [i \in DOMAIN order |->
                   [type |-> "MODIFIED", object |-> order[i], version |-> cache[order[i]]]]
  BY DEF resync
<1> DEFINE n == Cardinality(Present)
<1>2. n \in Nat
  <2>1. IsFiniteSet(Present)
    BY EventsAssumption, FS_Subset DEF Present
  <2>q. QED
    BY <2>1, FS_CardinalityType
<1>3. \A i \in 1 .. n : order[i] \in Objects /\ cache[order[i]] # 0 /\ cache[order[i]] \in Versions
  BY <1>1 DEF Present, TypeOK, Views
<1>4. DOMAIN order = 1 .. n
  BY <1>1
<1> HIDE DEF n
<1>5. notes' \in [1 .. n -> Event]
  BY <1>1, <1>3, <1>4 DEF Event
<1>6. notes' \in Seq(Event) /\ Len(notes') = n
  BY <1>2, <1>5
<1>q. QED
  BY <1>1, <1>3, <1>4, <1>6 DEF resync

LEMMA NextType ==
    ASSUME TypeOK, [Next]_vars
    PROVE  TypeOK'
<1> USE EventsAssumption DEF Pages
<1>0. 0 \in Versions /\ NoView \in Views
  BY DEF Versions, NoView, Views
<1>1. ASSUME NEW o \in Objects, change(o) PROVE TypeOK'
  <2>1. PICK v \in {0, changes'} : cluster' = [cluster EXCEPT ![o] = v]
    BY <1>1 DEF change
  <2>2. changes' \in 0 .. MaxChanges /\ changes' \in Versions
    BY <1>1 DEF change, TypeOK, Versions
  <2>3. cluster' \in Views
    BY <1>0, <2>1, <2>2 DEF TypeOK, Views
  <2>q. QED
    BY <1>1, <2>2, <2>3 DEF change, TypeOK
<1>2. ASSUME NEW o \in Objects, informerUpdate(o) PROVE TypeOK'
  <2>1. News(o) \in Event /\ cluster[o] \in Versions
    BY <1>2, NewsType DEF informerUpdate
  <2>2. notes' = Append(notes, News(o))
    BY <1>2 DEF informerUpdate, News
  <2>3. notes' \in Seq(Event) /\ cache' \in Views
    BY <1>2, <2>1, <2>2 DEF informerUpdate, TypeOK, Views
  <2>q. QED
    BY <1>2, <2>3 DEF informerUpdate, TypeOK
<1>3. ASSUME resync PROVE TypeOK'
  <2>1. faults' \in 0 .. MaxFaults
    BY <1>3 DEF resync, Fault, TypeOK
  <2>2. notes' \in Seq(Event)
    BY <1>3, ResyncNotes
  <2>q. QED
    BY <1>3, <2>1, <2>2 DEF resync, TypeOK
<1>4. ASSUME Send PROVE TypeOK'
  <2>1. Head(notes) \in Event /\ notes' \in Seq(Event)
    BY <1>4 DEF Send, TypeOK
  <2>5. Head(notes).object \in Objects
    BY <2>1 DEF Event
  <2>2. chan' \in [Pages -> Seq(Event)] /\ \A p \in Pages : Len(chan'[p]) <= Buffer
    BY <1>4, <2>1 DEF Send, TypeOK
  <2>3. missed' \in [Pages -> SUBSET Objects] /\ late' \in [Pages -> SUBSET Objects]
    BY <1>4, <2>5 DEF Send, TypeOK
  <2>q. QED
    BY <1>4, <2>1, <2>2, <2>3 DEF Send, TypeOK
<1>5. ASSUME NEW p \in Pages, clientLoader(p) PROVE TypeOK'
  <2>1. ItemOf \in Objects /\ cache[ItemOf] \in Versions
    BY DEF TypeOK, Views
  <2>2. Shown(p) \in Views
    BY <1>0, <2>1 DEF Shown, TypeOK, Views
  <2>q. QED
    BY <1>5, <2>2 DEF clientLoader, server, TypeOK
<1>6. ASSUME NEW p \in Pages, connectionLost(p) PROVE TypeOK'
  <2>1. ObjectsOf(chan[p]) \subseteq Objects
    BY ObjectsOfType DEF TypeOK
  <2>2. chan' \in [Pages -> Seq(Event)] /\ \A q \in Pages : Len(chan'[q]) <= Buffer
    BY <1>6 DEF connectionLost, TypeOK
  <2>3. missed' \in [Pages -> SUBSET Objects]
    BY <1>6, <2>1 DEF connectionLost, TypeOK
  <2>4. stream' \in [Pages -> {"closed", "loaded", "subscribed", "resubscribed", "open", "lost"}]
    BY <1>6 DEF connectionLost, TypeOK
  <2>5. faults' \in 0 .. MaxFaults
    BY <1>6 DEF connectionLost, Fault, TypeOK
  <2>q. QED
    BY <1>6, <2>2, <2>3, <2>4, <2>5 DEF connectionLost, server, TypeOK
<1>7. ASSUME NEW p \in Pages, Subscribe(p) PROVE TypeOK'
  BY <1>7 DEF Subscribe, server, TypeOK
<1>8. ASSUME NEW p \in Pages, onopen(p) PROVE TypeOK'
  <2>1. fetch' \in [Lists -> {"none", "asked", "read"}]
    BY <1>8 DEF onopen, TypeOK
  <2>2. stream' \in [Pages -> {"closed", "loaded", "subscribed", "resubscribed", "open", "lost"}]
    BY <1>8 DEF onopen, TypeOK
  <2>q. QED
    BY <1>8, <2>1, <2>2 DEF onopen, server, TypeOK
<1>9. ASSUME NEW p \in Pages, FilteredStreamSSE(p) PROVE TypeOK'
  <2>1. Head(chan[p]) \in Event /\ Tail(chan[p]) \in Seq(Event) /\ Len(Tail(chan[p])) <= Buffer
    BY <1>9 DEF FilteredStreamSSE, TypeOK
  <2>2. chan' \in [Pages -> Seq(Event)] /\ \A q \in Pages : Len(chan'[q]) <= Buffer
    BY <1>9, <2>1 DEF FilteredStreamSSE, TypeOK
  <2>3. pending' \in [Lists -> Seq(Event)]
    <3>1. CASE p \in Lists /\ pending' = [pending EXCEPT ![p] = Append(@, Head(chan[p]))]
      <4>1. pending[p] \in Seq(Event)
        BY <3>1 DEF TypeOK
      <4>2. Append(pending[p], Head(chan[p])) \in Seq(Event)
        BY <2>1, <4>1
      <4>q. QED
        BY <3>1, <4>2 DEF TypeOK
    <3>2. CASE pending' = pending
      BY <3>2 DEF TypeOK
    <3>q. QED
      BY <1>9, <3>1, <3>2 DEF FilteredStreamSSE
  <2>4. view' \in [Pages -> Views]
    <3>1. Head(chan[p]).version \in Versions /\ ItemOf \in Objects
      BY <2>1 DEF Event
    <3>2. [view[p] EXCEPT ![ItemOf] = Head(chan[p]).version] \in Views
      BY <3>1 DEF TypeOK, Views
    <3>3. view' = view \/ view' = [view EXCEPT ![p] = [view[p] EXCEPT ![ItemOf] = Head(chan[p]).version]]
      BY <1>9 DEF FilteredStreamSSE
    <3>q. QED
      BY <3>2, <3>3 DEF TypeOK
  <2>q. QED
    BY <1>9, <2>2, <2>3, <2>4 DEF FilteredStreamSSE, server, TypeOK
<1>10. ASSUME NEW p \in Lists, flush(p) PROVE TypeOK'
  <2>1. pending[p] \in Seq(Event) /\ view[p] \in Views /\ Len(pending[p]) \in 0 .. Len(pending[p])
    BY DEF TypeOK
  <2>2. RowsAfter(view[p], pending[p])[Len(pending[p])] \in Views
    BY <2>1, RowsType
  <2>3. ObjectsOf(pending[p]) \subseteq Objects
    BY <2>1, ObjectsOfType
  <2>q. QED
    BY <1>10, <2>2, <2>3 DEF flush, server, TypeOK
<1>11. ASSUME NEW p \in Lists, List(p) PROVE TypeOK'
  BY <1>11 DEF List, server, TypeOK
<1>12. ASSUME NEW p \in Lists, fetchItems(p) PROVE TypeOK'
  BY <1>0, <1>12 DEF fetchItems, server, TypeOK
<1>13. ASSUME NEW p \in Lists, fetchFails(p) PROVE TypeOK'
  <2>1. view' \in [Pages -> Views] /\ missed' \in [Pages -> SUBSET Objects]
    <3>1. CASE UNCHANGED <<view, missed>>
      BY <3>1 DEF TypeOK
    <3>2. CASE view' = [view EXCEPT ![p] = NoView] /\ missed' = [missed EXCEPT ![p] = Objects]
      BY <1>0, <3>2 DEF TypeOK
    <3>q. QED
      BY <1>13, <3>1, <3>2 DEF fetchFails
  <2>q. QED
    BY <1>0, <1>13, <2>1 DEF fetchFails, server, TypeOK
<1>14. ASSUME UNCHANGED vars PROVE TypeOK'
  BY <1>14 DEF vars, server, TypeOK
<1>q. QED
  BY <1>1, <1>2, <1>3, <1>4, <1>5, <1>6, <1>7, <1>8, <1>9, <1>10, <1>11, <1>12, <1>13, <1>14
  DEF Next, pageStep, listStep

-----------------------------------------------------------------------------
(* The steps.                                                               *)

ListInv(p) == Order(p) /\ Shows(p) /\ Fetched(p)

\* A list that a step does not touch.
LEMMA Untouched ==
    ASSUME NEW p \in Lists, ListInv(p), UNCHANGED <<notes, cache>>,
           UNCHANGED <<stream[p], chan[p], view[p], pending[p], fetch[p], fetched[p], missed[p], late[p]>>
    PROVE  ListInv(p)'
<1>1. Coming(p)' = Coming(p)
  BY DEF Coming
<1>q. QED
  BY <1>1 DEF ListInv, Order, Shows, Fetched

\* What is known of the queues of a list.
LEMMA Queues ==
    ASSUME TypeOK, NEW p \in Lists
    PROVE  /\ p \in Pages /\ pending[p] \in Seq(Event) /\ chan[p] \in Seq(Event) /\ notes \in Seq(Event)
           /\ chan[p] \o notes \in Seq(Event) /\ Coming(p) \in Seq(Event)
<1>1. p \in Pages /\ pending[p] \in Seq(Event) /\ chan[p] \in Seq(Event) /\ notes \in Seq(Event)
  BY DEF Pages, TypeOK
<1>2. chan[p] \o notes \in Seq(Event)
  BY <1>1, ConcatProperties
<1>q. QED
  BY <1>1, <1>2, ConcatProperties DEF Coming

LEMMA ComingOn ==
    ASSUME TypeOK, NEW p \in Lists, NEW D \in Seq(Event)
    PROVE  Coming(p) \o D = pending[p] \o (chan[p] \o (notes \o D))
<1> DEFINE P == pending[p]
           C == chan[p]
           N == notes
<1>1. P \in Seq(Event) /\ C \in Seq(Event) /\ N \in Seq(Event)
  BY Queues
<1> DEFINE W == C \o N
<1> HIDE DEF P, C, N
<1>2. W \in Seq(Event) /\ W \o D = C \o (N \o D)
  BY <1>1, ConcatProperties, Associative
<1> HIDE DEF W
<1>3. (P \o W) \o D = P \o (W \o D)
  BY <1>1, <1>2, Associative
<1>4. (P \o W) \o D = P \o (C \o (N \o D))
  BY <1>2, <1>3
<1>q. QED
  BY <1>4 DEF Coming, P, C, N, W

\* Notifications that take every resource from its form in the store to the new one there.
LEMMA Grows ==
    ASSUME IInv, NEW D \in Seq(Event), notes' = notes \o D,
           \A o \in Objects : \E k : Story(D, o, cache[o]', k) /\ k[0] = cache[o],
           UNCHANGED <<stream, chan, view, pending, fetch, fetched, missed, late>>
    PROVE  NotesTell' /\ \A p \in Lists : ListInv(p)'
<1>1. ASSUME NEW S \in Seq(Event), NEW o \in Objects, NEW x, Told(S, o, cache[o], x)
      PROVE  Told(S \o D, o, cache[o]', x)
  <2>1. PICK k : Story(D, o, cache[o]', k) /\ k[0] = cache[o]
    OBVIOUS
  <2>q. QED
    BY <1>1, <2>1, ToldOn
<1>2. NotesTell'
  <2>1. ASSUME NEW o \in Objects PROVE Told(notes', o, cache[o]', cache[o]')
    <3>1. notes \in Seq(Event) /\ notes' \in Seq(Event) /\ Told(notes, o, cache[o], cache[o])
      BY ConcatProperties DEF IInv, TypeOK, NotesTell
    <3>2. Told(notes', o, cache[o]', cache[o])
      BY <1>1, <3>1
    <3>q. QED
      BY <3>1, <3>2, ToldLast
  <2>q. QED
    BY <2>1 DEF NotesTell
<1>3. ASSUME NEW p \in Lists PROVE ListInv(p)'
  <2>1. /\ pending[p] \in Seq(Event) /\ chan[p] \in Seq(Event) /\ notes \in Seq(Event)
        /\ chan[p] \o notes \in Seq(Event) /\ Coming(p) \in Seq(Event)
    BY Queues DEF IInv
  <2>2. Coming(p)' = Coming(p) \o D
    <3>1. Coming(p) \o D = pending[p] \o (chan[p] \o (notes \o D))
      BY ComingOn DEF IInv
    <3>2. Coming(p)' = pending[p] \o (chan[p] \o (notes \o D))
      BY DEF Coming
    <3>q. QED
      BY <3>1, <3>2
  <2>3. Order(p) /\ Shows(p) /\ Fetched(p)
    BY DEF IInv
  <2>4. Order(p)'
    BY <2>3 DEF Order
  <2>5. Shows(p)'
    BY <1>1, <2>1, <2>2, <2>3 DEF Shows
  <2>6. Fetched(p)'
    BY <1>1, <2>1, <2>2, <2>3 DEF Fetched
  <2>q. QED
    BY <2>4, <2>5, <2>6 DEF ListInv
<1>q. QED
  BY <1>2, <1>3

LEMMA InformerStep ==
    ASSUME IInv, NEW c \in Objects, informerUpdate(c)
    PROVE  NotesTell' /\ \A p \in Lists : ListInv(p)'
<1> DEFINE D == <<News(c)>>
<1>1. /\ TypeOK /\ News(c) \in Event /\ News(c).object = c
      /\ cluster[c] \in Versions /\ cache[c] \in Versions /\ Turns(News(c), cache[c], cluster[c])
  BY NewsType DEF IInv, informerUpdate
<1>2. D \in Seq(Event) /\ Len(D) = 1 /\ D[1] = News(c)
  BY <1>1
<1>3. notes' = notes \o D
  <2>1. notes' = Append(notes, News(c)) /\ notes \in Seq(Event)
    BY <1>1 DEF informerUpdate, News, TypeOK
  <2>q. QED
    BY <1>1, <2>1
<1>4. ASSUME NEW o \in Objects PROVE \E k : Story(D, o, cache[o]', k) /\ k[0] = cache[o]
  <2>1. cache[o] \in Versions /\ cache[o]' \in Versions /\ cache[o]' = IF o = c THEN cluster[c] ELSE cache[o]
    BY <1>1 DEF informerUpdate, TypeOK, Views
  <2> DEFINE k == [i \in 0 .. 1 |-> IF i = 0 THEN cache[o] ELSE cache[o]']
  <2>2. k \in [0 .. 1 -> Versions] /\ k[0] = cache[o] /\ k[1] = cache[o]'
    BY <2>1
  <2> HIDE DEF k, D
  <2>3. ASSUME NEW i \in 1 .. Len(D)
        PROVE  IF D[i].object = o THEN Turns(D[i], k[i - 1], k[i]) ELSE k[i] = k[i - 1]
    <3>1. i = 1 /\ i - 1 = 0
      BY <1>2
    <3>q. QED
      BY <1>1, <1>2, <2>1, <2>2, <3>1
  <2>4. Story(D, o, cache[o]', k)
    BY <1>2, <2>2, <2>3 DEF Story
  <2>q. QED
    BY <2>2, <2>4
<1> HIDE DEF D
<1>q. QED
  BY <1>2, <1>3, <1>4, Grows DEF informerUpdate

LEMMA ResyncStep ==
    ASSUME IInv, resync
    PROVE  NotesTell' /\ \A p \in Lists : ListInv(p)'
<1>1. /\ notes = << >> /\ notes' \in Seq(Event) /\ TypeOK
      /\ \A i \in 1 .. Len(notes') :
           notes'[i].object \in Objects =>
             /\ notes'[i].type = "MODIFIED" /\ notes'[i].version = cache[notes'[i].object]
             /\ cache[notes'[i].object] # 0
  BY ResyncNotes DEF IInv
<1> DEFINE D == notes'
<1>2. notes' = notes \o D
  BY <1>1, ConcatEmptySeq
<1>3. ASSUME NEW o \in Objects PROVE \E k : Story(D, o, cache[o]', k) /\ k[0] = cache[o]
  <2>1. cache[o]' = cache[o] /\ cache[o] \in Versions
    BY <1>1 DEF resync, TypeOK, Views
  <2> HIDE DEF D
  <2>0. Len(D) \in Nat
    BY <1>1 DEF D
  <2> DEFINE k == [i \in 0 .. Len(D) |-> cache[o]]
  <2>2. k \in [0 .. Len(D) -> Versions] /\ k[0] = cache[o] /\ k[Len(D)] = cache[o]
    BY <2>0, <2>1
  <2>3. ASSUME NEW i \in 1 .. Len(D)
        PROVE  IF D[i].object = o THEN Turns(D[i], k[i - 1], k[i]) ELSE k[i] = k[i - 1]
    <3>1. k[i] = cache[o] /\ k[i - 1] = cache[o]
      BY <2>0
    <3>2. D[i].object = o => D[i].type = "MODIFIED" /\ D[i].version = cache[o] /\ cache[o] # 0
      BY <1>1 DEF D
    <3>q. QED
      BY <3>1, <3>2 DEF Turns
  <2>4. Story(D, o, cache[o]', k)
    BY <2>1, <2>2, <2>3 DEF Story
  <2>q. QED
    BY <2>2, <2>4
<1>q. QED
  BY <1>1, <1>2, <1>3, Grows DEF resync

\* An event that is sent goes from the front of the notifications to the end of a channel,
\* or is lost to a page, which is then counted as having missed it.
LEMMA SendStep ==
    ASSUME IInv, Send
    PROVE  NotesTell' /\ \A p \in Lists : ListInv(p)'
<1> DEFINE e == Head(notes)
           gets == {p \in Subscribers : Len(chan[p]) < Buffer}
<1>1. /\ TypeOK /\ notes \in Seq(Event) /\ notes # << >> /\ notes' = Tail(notes)
      /\ e \in Event /\ Tail(notes) \in Seq(Event)
      /\ <<e>> \in Seq(Event) /\ notes = <<e>> \o Tail(notes)
  BY Moves DEF IInv, TypeOK, Send
<1>2. UNCHANGED <<cache, stream, view, pending, fetch, fetched>>
  BY DEF Send
<1>3. NotesTell'
  <2>1. ASSUME NEW o \in Objects PROVE Told(Tail(notes), o, cache[o], cache[o])
    <3>1. cache \in Views /\ Told(<<e>> \o Tail(notes), o, cache[o], cache[o])
      BY <1>1 DEF IInv, NotesTell, TypeOK
    <3> DEFINE x == RowsAfter(cache, <<e>>)[Len(<<e>>)][o]
    <3>2. Told(Tail(notes), o, cache[o], x)
      BY <1>1, <3>1, FlushTold
    <3> HIDE DEF x
    <3>q. QED
      BY <1>1, <3>2, ToldLast
  <2>q. QED
    BY <1>1, <1>2, <2>1 DEF NotesTell
<1>4. ASSUME NEW p \in Lists PROVE ListInv(p)'
  <2>1. /\ p \in Pages /\ pending[p] \in Seq(Event) /\ chan[p] \in Seq(Event)
        /\ Order(p) /\ Shows(p) /\ Fetched(p)
    BY <1>1, Queues DEF IInv
  <2>2. /\ chan'[p] = IF p \in gets THEN Append(chan[p], e) ELSE chan[p]
        /\ missed'[p] = IF p \in Loaded \ gets THEN missed[p] \cup {e.object} ELSE missed[p]
        /\ late'[p] = IF p \in Loaded \ gets THEN late[p] \cup {e.object} ELSE late[p]
    BY <2>1 DEF Send
  <2>3. p \in gets => stream[p] \in {"subscribed", "resubscribed", "open"}
    BY DEF Subscribers
  <2>4. p \in Loaded <=> stream[p] # "closed"
    BY <2>1 DEF Loaded
  <2> HIDE DEF gets, e
  <2>5. Order(p)'
    BY <1>2, <2>1, <2>2, <2>3, <2>4 DEF Order
  <2>6. CASE p \in gets
    <3>1. chan'[p] \o notes' = chan[p] \o notes
      BY <1>1, <2>1, <2>2, <2>6, Moves DEF e
    <3>2. Coming(p)' = Coming(p)
      BY <1>2, <3>1 DEF Coming
    <3>q. QED
      BY <1>2, <2>1, <2>2, <2>5, <2>6, <3>2 DEF ListInv, Shows, Fetched
  <2>7. CASE p \notin gets /\ stream[p] # "closed"
    <3> DEFINE P == pending[p]
               C == chan[p]
               A == P \o C
               N == Tail(notes)
    <3>1. A \in Seq(Event) /\ N \in Seq(Event) /\ P \in Seq(Event) /\ C \in Seq(Event)
      BY <1>1, <2>1, ConcatProperties
    <3>2. Coming(p) = A \o (<<e>> \o N)
      <4>1. notes \in Seq(Event) /\ notes = <<e>> \o N
        BY <1>1
      <4>2. A \o notes = P \o (C \o notes)
        BY <3>1, <4>1, Associative
      <4>q. QED
        BY <4>1, <4>2 DEF Coming
    <3>3. Coming(p)' = A \o N
      <4>1. A \o N = P \o (C \o N)
        BY <3>1, Associative
      <4>2. Coming(p)' = P \o (C \o N)
        BY <1>1, <1>2, <2>2, <2>7 DEF Coming
      <4>q. QED
        BY <4>1, <4>2
    <3> HIDE DEF A, N
    <3>4. ASSUME NEW o \in Objects, o # e.object, NEW x, Told(Coming(p), o, cache[o], x)
          PROVE  Told(Coming(p)', o, cache[o]', x)
      <4>1. o \notin ObjectsOf(<<e>>)
        BY <3>4 DEF ObjectsOf
      <4>2. Told(A \o N, o, cache[o], x)
        BY <1>1, <3>1, <3>2, <3>4, <4>1, ToldCut
      <4>q. QED
        BY <1>2, <3>3, <4>2
    <3>5. missed'[p] = missed[p] \cup {e.object} /\ late'[p] = late[p] \cup {e.object}
      BY <2>2, <2>4, <2>7
    <3>6. Shows(p)'
      BY <1>2, <2>1, <3>4, <3>5 DEF Shows
    <3>7. Fetched(p)'
      BY <1>2, <2>1, <3>4, <3>5 DEF Fetched
    <3>q. QED
      BY <2>5, <3>6, <3>7 DEF ListInv
  <2>8. CASE p \notin gets /\ stream[p] = "closed"
    <3>1. stream'[p] = "closed" /\ fetch'[p] # "read"
      BY <1>2, <2>1, <2>8 DEF Order
    <3>q. QED
      BY <2>5, <3>1 DEF ListInv, Shows, Fetched
  <2>q. QED
    BY <2>6, <2>7, <2>8
<1>q. QED
  BY <1>3, <1>4

\* The steps of one list with its stream: what is read from the store, what is lost with a
\* connection, what is moved on, applied, and replaced by a fetched list.
LEMMA PageStep ==
    ASSUME IInv, NEW q \in Pages,
           clientLoader(q) \/ connectionLost(q) \/ Subscribe(q) \/ onopen(q) \/ FilteredStreamSSE(q)
    PROVE  \A p \in Lists : ListInv(p)'
<1>1. ASSUME NEW p \in Lists PROVE ListInv(p)'
  <2>1. /\ p \in Pages /\ pending[p] \in Seq(Event) /\ chan[p] \in Seq(Event) /\ notes \in Seq(Event)
        /\ chan[p] \o notes \in Seq(Event) /\ TypeOK
        /\ Order(p) /\ Shows(p) /\ Fetched(p) /\ ListInv(p)
    BY Queues DEF IInv, ListInv
  <2>2. UNCHANGED <<notes, cache>>
    BY DEF clientLoader, connectionLost, Subscribe, onopen, FilteredStreamSSE, server
  <2>3. CASE p # q
    <3>1. UNCHANGED <<stream[p], chan[p], pending[p], fetch[p], fetched[p], missed[p], late[p], view[p]>>
      BY <2>1, <2>3 DEF clientLoader, connectionLost, Subscribe, onopen, FilteredStreamSSE, TypeOK
    <3>q. QED
      BY <2>1, <2>2, <3>1, Untouched
  <2>4. CASE p = q /\ clientLoader(q)
    <3>1. stream[p] = "closed" /\ pending[p] = << >> /\ chan[p] = << >> /\ fetch[p] = "none"
      BY <2>1, <2>4 DEF clientLoader, Order
    <3>2. /\ stream'[p] = "loaded" /\ view'[p] = cache
          /\ UNCHANGED <<chan, pending, fetch, fetched, missed, late>>
      BY <2>1, <2>4 DEF clientLoader, Shown, TypeOK
    <3>3. Coming(p)' = notes
      <4>1. << >> \o notes = notes
        BY <2>1, ConcatEmptySeq
      <4>q. QED
        BY <2>2, <3>1, <3>2, <4>1 DEF Coming
    <3>4. Shows(p)'
      BY <2>2, <3>2, <3>3 DEF Shows, IInv, NotesTell
    <3>5. Order(p)' /\ Fetched(p)'
      BY <3>1, <3>2 DEF Order, Fetched
    <3>q. QED
      BY <3>4, <3>5 DEF ListInv
  <2>5. CASE p = q /\ connectionLost(q)
    <3>1. /\ fetch[p] = "none" /\ stream[p] \in {"subscribed", "resubscribed", "open"}
          /\ stream'[p] \in {"loaded", "lost"} /\ chan'[p] = << >>
          /\ missed'[p] = missed[p] \cup ObjectsOf(chan[p])
          /\ UNCHANGED <<view, pending, fetch, fetched, late>>
      BY <2>1, <2>5 DEF connectionLost, Subscribers, TypeOK
    <3>2. Coming(p)' = pending[p] \o notes
      <4>1. << >> \o notes = notes
        BY <2>1, ConcatEmptySeq
      <4>q. QED
        BY <2>2, <3>1, <4>1 DEF Coming
    <3>3. ASSUME NEW o \in Objects \ missed'[p] PROVE Told(Coming(p)', o, cache[o]', view'[p][o])
      <4>1. o \notin ObjectsOf(chan[p]) /\ Told(pending[p] \o (chan[p] \o notes), o, cache[o], view[p][o])
        BY <2>1, <3>1 DEF Shows, Coming
      <4>2. Told(pending[p] \o notes, o, cache[o], view[p][o])
        BY <2>1, <4>1, ToldCut
      <4>q. QED
        BY <2>2, <3>1, <3>2, <4>2
    <3>4. Shows(p)'
      BY <3>3 DEF Shows
    <3>5. Order(p)' /\ Fetched(p)'
      BY <3>1 DEF Order, Fetched
    <3>q. QED
      BY <3>4, <3>5 DEF ListInv
  <2>6. CASE p = q /\ Subscribe(q)
    <3>1. /\ stream[p] \in {"loaded", "lost"} /\ stream'[p] \in {"subscribed", "resubscribed"}
          /\ UNCHANGED <<chan, view, pending, fetch, fetched, missed, late>>
      BY <2>1, <2>6 DEF Subscribe, TypeOK
    <3>2. Coming(p)' = Coming(p)
      BY <2>2, <3>1 DEF Coming
    <3>q. QED
      BY <2>1, <2>2, <3>1, <3>2 DEF ListInv, Order, Shows, Fetched
  <2>7. CASE p = q /\ onopen(q)
    <3>1. /\ stream[p] \in {"subscribed", "resubscribed"} /\ stream'[p] = "open"
          /\ UNCHANGED <<chan, view, pending, fetched, missed, late>> /\ fetch'[p] \in {"asked", fetch[p]}
      BY <2>1, <2>7 DEF onopen, TypeOK
    <3>2. Coming(p)' = Coming(p)
      BY <2>2, <3>1 DEF Coming
    <3>q. QED
      BY <2>1, <2>2, <3>1, <3>2 DEF ListInv, Order, Shows, Fetched
  <2>8. CASE p = q /\ FilteredStreamSSE(q)
    <3>1. /\ stream[p] = "open" /\ chan[p] # << >> /\ chan'[p] = Tail(chan[p])
          /\ UNCHANGED <<stream, fetch, fetched, missed, late>>
      BY <2>1, <2>8 DEF FilteredStreamSSE, TypeOK
    <3>2. p \notin Items
      BY EventsAssumption
    <3>3. pending'[p] = Append(pending[p], Head(chan[p])) /\ UNCHANGED view
      BY <2>1, <2>8, <3>2 DEF FilteredStreamSSE, TypeOK
    <3>4. Coming(p)' = Coming(p)
      <4> DEFINE C == chan[p]
                 N == notes
                 P == pending[p]
      <4>1. C \in Seq(Event) /\ N \in Seq(Event) /\ P \in Seq(Event) /\ C # << >>
        BY <2>1, <3>1
      <4>5. Coming(p)' = Append(P, Head(C)) \o (Tail(C) \o N) /\ Coming(p) = P \o (C \o N)
        BY <2>2, <3>1, <3>3 DEF Coming
      <4> HIDE DEF C, N, P
      <4>2. /\ Tail(C) \in Seq(Event) /\ Append(P, Head(C)) \in Seq(Event)
            /\ Append(P, Head(C)) \o Tail(C) = P \o C
        BY <4>1, Moves
      <4>3. (Append(P, Head(C)) \o Tail(C)) \o N = Append(P, Head(C)) \o (Tail(C) \o N)
        BY <4>1, <4>2, Associative
      <4>4. (P \o C) \o N = P \o (C \o N)
        BY <4>1, Associative
      <4>q. QED
        BY <4>2, <4>3, <4>4, <4>5
    <3>q. QED
      BY <2>1, <2>2, <3>1, <3>3, <3>4 DEF ListInv, Order, Shows, Fetched
  <2>q. QED
    BY <2>3, <2>4, <2>5, <2>6, <2>7, <2>8
<1>q. QED
  BY <1>1

LEMMA ObjectsOfConcat ==
    ASSUME NEW S \in Seq(Event), NEW T \in Seq(Event)
    PROVE  ObjectsOf(S \o T) = ObjectsOf(T \o S)
<1>1. ASSUME NEW A \in Seq(Event), NEW B \in Seq(Event)
      PROVE  ObjectsOf(A \o B) = ObjectsOf(A) \cup ObjectsOf(B)
  <2>1. /\ Len(A) \in Nat /\ Len(B) \in Nat /\ DOMAIN A = 1 .. Len(A) /\ DOMAIN B = 1 .. Len(B)
        /\ DOMAIN (A \o B) = 1 .. Len(A) + Len(B)
        /\ \A i \in 1 .. Len(A) + Len(B) : (A \o B)[i] = IF i <= Len(A) THEN A[i] ELSE B[i - Len(A)]
    BY ConcatProperties, LenProperties
  <2>2. ObjectsOf(A \o B) \subseteq ObjectsOf(A) \cup ObjectsOf(B)
    BY <2>1 DEF ObjectsOf
  <2>3. ASSUME NEW i \in DOMAIN A PROVE A[i].object \in ObjectsOf(A \o B)
    BY <2>1 DEF ObjectsOf
  <2>4. ASSUME NEW i \in DOMAIN B PROVE B[i].object \in ObjectsOf(A \o B)
    <3>1. i + Len(A) \in 1 .. Len(A) + Len(B) /\ ~ (i + Len(A) <= Len(A)) /\ (i + Len(A)) - Len(A) = i
      BY <2>1
    <3>2. (A \o B)[i + Len(A)] = B[i]
      BY <2>1, <3>1
    <3>q. QED
      BY <2>1, <3>1, <3>2 DEF ObjectsOf
  <2>q. QED
    BY <2>2, <2>3, <2>4 DEF ObjectsOf
<1>2. ObjectsOf(S \o T) = ObjectsOf(S) \cup ObjectsOf(T) /\ ObjectsOf(T \o S) = ObjectsOf(T) \cup ObjectsOf(S)
  BY <1>1
<1>q. QED
  BY <1>2

LEMMA ListStep ==
    ASSUME IInv, NEW q \in Lists, flush(q) \/ List(q) \/ fetchItems(q) \/ fetchFails(q)
    PROVE  \A p \in Lists : ListInv(p)'
<1>1. ASSUME NEW p \in Lists PROVE ListInv(p)'
  <2>1. /\ p \in Pages /\ pending[p] \in Seq(Event) /\ chan[p] \in Seq(Event) /\ notes \in Seq(Event)
        /\ chan[p] \o notes \in Seq(Event) /\ Coming(p) \in Seq(Event) /\ TypeOK
        /\ Order(p) /\ Shows(p) /\ Fetched(p) /\ ListInv(p)
    BY Queues DEF IInv, ListInv
  <2>2. UNCHANGED <<notes, cache>>
    BY DEF flush, List, fetchItems, fetchFails, server
  <2>3. CASE p # q
    <3>1. UNCHANGED <<stream[p], chan[p], pending[p], fetch[p], fetched[p], missed[p], late[p], view[p]>>
      BY <2>1, <2>3 DEF flush, List, fetchItems, fetchFails, TypeOK
    <3>q. QED
      BY <2>1, <2>2, <3>1, Untouched
  <2>4. CASE p = q /\ flush(q)
    <3>1. /\ view'[p] = RowsAfter(view[p], pending[p])[Len(pending[p])] /\ pending'[p] = << >>
          /\ late'[p] = late[p] \cup ObjectsOf(pending[p])
          /\ UNCHANGED <<stream, chan, fetch, fetched, missed>>
      BY <2>1, <2>4 DEF flush, TypeOK
    <3> DEFINE R == chan[p] \o notes
    <3>2. R \in Seq(Event) /\ << >> \in Seq(Event) /\ << >> \o R = R
          /\ << >> \o (pending[p] \o R) = pending[p] \o R
      BY <2>1, ConcatEmptySeq, EmptySeq DEF Coming
    <3>3. Coming(p) = pending[p] \o R /\ Coming(p)' = R
      BY <2>2, <3>1, <3>2 DEF Coming
    <3> HIDE DEF R
    <3>4. ASSUME stream[p] # "closed", NEW o \in Objects \ missed[p]
          PROVE  Told(R, o, cache[o], view'[p][o])
      <4>1. view[p] \in Views /\ Told(pending[p] \o R, o, cache[o], view[p][o])
        BY <2>1, <3>3, <3>4 DEF Shows, TypeOK
      <4>q. QED
        BY <2>1, <3>1, <3>2, <4>1, FlushTold
    <3>5. ASSUME fetch[p] = "read", NEW o \in Objects \ late'[p]
          PROVE  Told(R, o, cache[o], fetched[p][o])
      <4>1. o \notin ObjectsOf(pending[p]) /\ Told(<< >> \o (pending[p] \o R), o, cache[o], fetched[p][o])
        BY <2>1, <3>1, <3>2, <3>3, <3>5 DEF Fetched
      <4>2. Told(<< >> \o R, o, cache[o], fetched[p][o])
        BY <2>1, <3>2, <4>1, ToldCut
      <4>q. QED
        BY <3>2, <4>2
    <3>6. Shows(p)' /\ Fetched(p)'
      BY <2>2, <3>1, <3>3, <3>4, <3>5 DEF Shows, Fetched
    <3>7. Order(p)'
      BY <2>1, <3>1 DEF Order
    <3>q. QED
      BY <3>6, <3>7 DEF ListInv
  <2>5. CASE p = q /\ List(q)
    <3>1. /\ fetch[p] = "asked" /\ fetch'[p] = "read" /\ fetched'[p] = cache
          /\ late'[p] = missed[p] \cap ObjectsOf(chan[p] \o pending[p])
          /\ UNCHANGED <<stream, chan, view, pending, missed>>
      BY <2>1, <2>5 DEF List, TypeOK
    <3>2. stream[p] = "open" /\ Coming(p)' = Coming(p)
      BY <2>1, <2>2, <3>1 DEF Order, Coming
    <3>3. ASSUME NEW o \in Objects \ late'[p] PROVE Told(Coming(p), o, cache[o], cache[o])
      <4>1. CASE o \notin missed[p]
        <5>1. Told(Coming(p), o, cache[o], view[p][o])
          BY <2>1, <3>2, <4>1 DEF Shows
        <5>q. QED
          BY <2>1, <5>1, ToldLast
      <4>2. CASE o \notin ObjectsOf(chan[p] \o pending[p])
        <5> DEFINE B == pending[p] \o chan[p]
        <5>s. pending[p] \in Seq(Event) /\ chan[p] \in Seq(Event) /\ notes \in Seq(Event)
          BY <2>1
        <5>b. B \in Seq(Event)
          BY <5>s, ConcatProperties
        <5>c. Coming(p) = B \o notes
          BY <5>s, Associative DEF Coming
        <5>1. B \in Seq(Event) /\ Coming(p) = B \o notes
          BY <5>b, <5>c
        <5>2. o \notin ObjectsOf(B)
          BY <2>1, <4>2, ObjectsOfConcat
        <5>3. Told(notes, o, cache[o], cache[o])
          BY DEF IInv, NotesTell
        <5> HIDE DEF B
        <5>q. QED
          BY <2>1, <5>1, <5>2, <5>3, ToldAfter
      <4>q. QED
        BY <3>1, <4>1, <4>2
    <3>4. Fetched(p)'
      BY <2>2, <3>1, <3>2, <3>3 DEF Fetched
    <3>5. Shows(p)' /\ Order(p)'
      <4>1. Shows(p)'
        BY <2>1, <2>2, <3>1, <3>2 DEF Shows
      <4>2. Order(p)'
        BY <2>1, <3>1, <3>2 DEF Order
      <4> QED BY <4>1, <4>2
    <3>q. QED
      BY <3>4, <3>5 DEF ListInv
  <2>6. CASE p = q /\ fetchItems(q)
    <3>1. /\ fetch[p] = "read" /\ fetch'[p] = "none" /\ view'[p] = fetched[p] /\ missed'[p] = late[p]
          /\ UNCHANGED <<stream, chan, pending, late>>
      BY <2>1, <2>6 DEF fetchItems, TypeOK
    <3>2. stream[p] = "open" /\ Coming(p)' = Coming(p)
      BY <2>1, <2>2, <3>1 DEF Order, Coming
    <3>q. QED
      BY <2>1, <2>2, <3>1, <3>2 DEF ListInv, Shows, Fetched, Order
  <2>7. CASE p = q /\ fetchFails(q)
    <3>1. /\ fetch[p] # "none" /\ fetch'[p] = "none" /\ UNCHANGED <<stream, chan, pending>>
          /\ (view'[p] = view[p] /\ missed'[p] = missed[p]) \/ missed'[p] = Objects
      BY <2>1, <2>7 DEF fetchFails, TypeOK
    <3>2. stream[p] = "open" /\ Coming(p)' = Coming(p)
      BY <2>1, <2>2, <3>1 DEF Order, Coming
    <3>q. QED
      BY <2>1, <2>2, <3>1, <3>2 DEF ListInv, Shows, Fetched, Order
  <2>q. QED
    BY <2>3, <2>4, <2>5, <2>6, <2>7
<1>q. QED
  BY <1>1
-----------------------------------------------------------------------------
(* The theorems.                                                            *)

LEMMA InitIInv == Init => IInv
<1> SUFFICES ASSUME Init PROVE IInv
  OBVIOUS
<1>1. TypeOK
  BY InitType
<1>2. NotesTell
  <2>1. ASSUME NEW o \in Objects PROVE Told(notes, o, cache[o], cache[o])
    <3>1. cache[o] = 0 /\ 0 \in Versions /\ notes = << >> /\ Len(notes) = 0
      BY EventsAssumption DEF Init, Versions
    <3> DEFINE h == [i \in 0 .. 0 |-> 0]
    <3>2. h \in [0 .. Len(notes) -> Versions] /\ h[0] = 0 /\ 0 \in 0 .. Len(notes)
      BY <3>1
    <3> HIDE DEF h
    <3>3. Story(notes, o, cache[o], h)
      BY <3>1, <3>2 DEF Story
    <3>q. QED
      BY <3>1, <3>2, <3>3 DEF Told
  <2>q. QED
    BY <2>1 DEF NotesTell
<1>3. \A p \in Lists : Order(p) /\ Shows(p) /\ Fetched(p)
  BY DEF Init, Order, Shows, Fetched, Pages
<1>q. QED
  BY <1>1, <1>2, <1>3 DEF IInv

LEMMA NextIInv == IInv /\ [Next]_vars => IInv'
<1> SUFFICES ASSUME IInv, [Next]_vars PROVE IInv'
  OBVIOUS
<1>0. TypeOK'
  BY NextType DEF IInv
<1>1. SUFFICES NotesTell' /\ \A p \in Lists : ListInv(p)'
  BY <1>0 DEF IInv, ListInv
<1>2. ASSUME UNCHANGED <<cache, notes>> PROVE NotesTell'
  BY <1>2 DEF IInv, NotesTell
<1>3. ASSUME UNCHANGED <<cache, notes, stream, chan, view, pending, fetch, fetched, missed, late>>
      PROVE  \A p \in Lists : ListInv(p)'
  BY <1>3, Untouched DEF IInv, ListInv
<1>4. ASSUME NEW o \in Objects, change(o) PROVE NotesTell' /\ \A p \in Lists : ListInv(p)'
  BY <1>2, <1>3, <1>4 DEF change
<1>5. ASSUME NEW o \in Objects, informerUpdate(o) PROVE NotesTell' /\ \A p \in Lists : ListInv(p)'
  BY <1>5, InformerStep
<1>6. ASSUME resync PROVE NotesTell' /\ \A p \in Lists : ListInv(p)'
  BY <1>6, ResyncStep
<1>7. ASSUME Send PROVE NotesTell' /\ \A p \in Lists : ListInv(p)'
  BY <1>7, SendStep
<1>8. ASSUME NEW p \in Pages, clientLoader(p) \/ connectionLost(p) \/ pageStep(p)
      PROVE  NotesTell' /\ \A l \in Lists : ListInv(l)'
  <2>1. UNCHANGED <<cache, notes>>
    BY <1>8 DEF clientLoader, connectionLost, pageStep, Subscribe, onopen, FilteredStreamSSE, server
  <2>2. clientLoader(p) \/ connectionLost(p) \/ Subscribe(p) \/ onopen(p) \/ FilteredStreamSSE(p)
    BY <1>8 DEF pageStep
  <2>q. QED
    BY <1>2, <2>1, <2>2, PageStep
<1>9. ASSUME NEW p \in Lists, listStep(p) \/ fetchFails(p)
      PROVE  NotesTell' /\ \A l \in Lists : ListInv(l)'
  <2>1. UNCHANGED <<cache, notes>>
    BY <1>9 DEF listStep, flush, List, fetchItems, fetchFails, server
  <2>2. flush(p) \/ List(p) \/ fetchItems(p) \/ fetchFails(p)
    BY <1>9 DEF listStep
  <2>q. QED
    BY <1>2, <2>1, <2>2, ListStep
<1>10. ASSUME UNCHANGED vars PROVE NotesTell' /\ \A p \in Lists : ListInv(p)'
  BY <1>2, <1>3, <1>10 DEF vars, server
<1>q. QED
  BY <1>4, <1>5, <1>6, <1>7, <1>8, <1>9, <1>10 DEF Next

\* Type correctness: the bounded channels of the Broadcaster are never overfull, and what
\* informer, streams and hooks keep is always of its kind, for any number of pages.
THEOREM TypeCorrect == Spec => []TypeOK
<1>1. Init => TypeOK
  BY InitType
<1>2. TypeOK /\ [Next]_vars => TypeOK'
  BY NextType
<1>q. QED
  BY <1>1, <1>2, PTL DEF Spec

\* Once all events have come through, useSSEList shows every resource that it missed no
\* event of just as it is, although the list is read from a store ahead of the events and
\* is replaced by a fetched one in the middle of a stream.
THEOREM ListsExact == Spec => []ListExact
<1>1. IInv => ListExact
  <2> SUFFICES ASSUME IInv, NEW p \in Lists, Settled(p), NEW o \in Objects \ missed[p]
               PROVE  view[p][o] = cluster[o]
    BY DEF ListExact
  <2>1. /\ stream[p] = "open" /\ cache = cluster
        /\ pending[p] = << >> /\ chan[p] = << >> /\ notes = << >>
    BY DEF Settled
  <2>2. Coming(p) = << >> /\ Len(<< >>) = 0
    <3>1. << >> \o << >> = << >>
      BY ConcatEmptySeq, EmptySeq
    <3>q. QED
      BY <2>1, <3>1 DEF Coming
  <2>3. Told(<< >>, o, cache[o], view[p][o])
    BY <2>1, <2>2 DEF IInv, Shows
  <2>4. PICK h \in [0 .. 0 -> Versions] : h[0] = cache[o] /\ \E j \in 0 .. 0 : view[p][o] = h[j]
    BY <2>2, <2>3 DEF Told, Story
  <2>q. QED
    BY <2>1, <2>4
<1>q. QED
  BY <1>1, InitIInv, NextIInv, PTL DEF Spec
=============================================================================
