------------------------------- MODULE Events -------------------------------
(***************************************************************************)
(* How a change of a resource reaches an open page of the UI: the informer  *)
(* of the API server and its event handlers, the Broadcaster with a bounded *)
(* channel per stream, the stream of Server-Sent Events, and the hooks that *)
(* keep a list (useSSEList) or one object (useSSEItem) up to date.          *)
(*                                                                          *)
(* A resource is known by the number of the change that gave it its present *)
(* form; 0 stands for a resource that is not there.                         *)
(***************************************************************************)
EXTENDS Integers, Sequences, FiniteSets

CONSTANTS
    Objects,        \* the resources of one kind
    Lists,          \* pages with a list of them
    Items,          \* pages with one of them
    ItemOf,         \* the one that a page of Items shows
    Buffer,         \* the capacity of a stream's channel (64 in the code)
    MaxChanges,     \* bound: changes of the resources
    MaxFaults       \* bound: lost connections, early resyncs

ASSUME EventsAssumption ==
    /\ IsFiniteSet(Objects) /\ ItemOf \in Objects
    /\ Lists \cap Items = {}
    /\ Buffer \in Nat \ {0} /\ MaxChanges \in Nat /\ MaxFaults \in Nat

Pages    == Lists \cup Items
Versions == 0 .. MaxChanges
Views    == [Objects -> Versions]
NoView   == [o \in Objects |-> 0]
Event    == [type : {"ADDED", "MODIFIED", "DELETED"}, object : Objects, version : Versions]

VARIABLES
    cluster,    \* the resources
    cache,      \* the store of the informer, which the lists are read from
    notes,      \* the notifications the event handlers have yet to get
    stream,     \* where the stream of a page is
    chan,       \* the channel of the stream
    view,       \* what the page shows
    pending,    \* useSSEList: events to be applied by the next flush
    fetch,      \* useSSEList: the fetch after a reconnection
    fetched,    \* what it read
    missed,     \* history: the resources a page did not get an event of
    late,       \* history: those that the list being fetched is not to be trusted with
    changes, faults

server == <<cluster, cache, notes, changes>>
vars   == <<server, stream, chan, view, pending, fetch, fetched, missed, late, faults>>

Init ==
    /\ cluster \in [Objects -> {0}] /\ cache = cluster /\ notes = << >>
    /\ stream = [p \in Pages |-> "closed"]
    /\ chan = [p \in Pages |-> << >>] /\ pending = [p \in Lists |-> << >>]
    /\ view = [p \in Pages |-> NoView]
    /\ fetch = [p \in Lists |-> "none"] /\ fetched = [p \in Lists |-> NoView]
    /\ missed = [p \in Pages |-> {}] /\ late = missed
    /\ changes = 0 /\ faults = 0

ObjectsOf(events) == {events[i].object : i \in DOMAIN events}

Fault == faults < MaxFaults /\ faults' = faults + 1
-----------------------------------------------------------------------------
(* The cluster, the informer and its event handlers.                        *)

change(o) ==
    /\ changes < MaxChanges
    /\ changes' = changes + 1
    /\ \E v \in {0, changes'} : cluster[o] + v > 0 /\ cluster' = [cluster EXCEPT ![o] = v]
    /\ UNCHANGED <<cache, notes, stream, chan, view, pending, fetch, fetched, missed, late, faults>>

\* The store is updated first and the handlers are called later, in order.  A watch that
\* had to list anew sees several changes as one.
informerUpdate(o) ==
    /\ cache[o] # cluster[o]
    /\ cache' = [cache EXCEPT ![o] = cluster[o]]
    /\ notes' = Append(notes,
         [type    |-> CASE cache[o] = 0 -> "ADDED" [] cluster[o] = 0 -> "DELETED" [] OTHER -> "MODIFIED",
          object  |-> o,
          version |-> IF cluster[o] = 0 THEN cache[o] ELSE cluster[o]])
    /\ UNCHANGED <<cluster, changes, stream, chan, view, pending, fetch, fetched, missed, late, faults>>

Present == {o \in Objects : cache[o] # 0}
Drained == (\A p \in Pages : chan[p] = << >>) /\ (\A p \in Lists : pending[p] = << >>)

\* Mutant: a notification without a change is not passed on.
resyncSkipped ==
    /\ notes = << >> /\ Present # {}
    /\ IF Drained THEN UNCHANGED faults ELSE Fault
    /\ UNCHANGED <<server, stream, chan, view, pending, fetch, fetched, missed, late>>

\* Every five minutes the handlers get all resources again, as updates and in no order.
\* The streams have as a rule been read and applied by then.
resync ==
    /\ notes = << >> /\ Present # {}
    /\ IF Drained THEN UNCHANGED faults ELSE Fault
    /\ \E order \in [1 .. Cardinality(Present) -> Present] :
         /\ \A o \in Present : \E i \in DOMAIN order : order[i] = o
         /\ notes' = [i \in DOMAIN order |->
                       [type |-> "MODIFIED", object |-> order[i], version |-> cache[order[i]]]]
    /\ UNCHANGED <<cluster, cache, changes, stream, chan, view, pending, fetch, fetched, missed, late>>

Subscribers == {p \in Pages : stream[p] \in {"subscribed", "resubscribed", "open"}}
Loaded      == {p \in Pages : stream[p] # "closed"}

\* Mutant: the channel is not bounded.
sendAlways ==
    /\ notes # << >> /\ notes' = Tail(notes)
    /\ chan' = [p \in Pages |-> IF p \in Subscribers THEN Append(chan[p], Head(notes)) ELSE chan[p]]
    /\ UNCHANGED <<cluster, cache, changes, stream, view, pending, fetch, fetched, missed, late, faults>>

\* The next notification goes to every subscriber whose channel has room.
Send ==
    LET e    == Head(notes)
        gets == {p \in Subscribers : Len(chan[p]) < Buffer}
        Missed(h) == [p \in Pages |-> IF p \in Loaded \ gets THEN h[p] \cup {e.object} ELSE h[p]]
    IN /\ notes # << >> /\ notes' = Tail(notes)
       /\ chan' = [p \in Pages |-> IF p \in gets THEN Append(chan[p], e) ELSE chan[p]]
       /\ missed' = Missed(missed) /\ late' = Missed(late)
       /\ UNCHANGED <<cluster, cache, changes, stream, view, pending, fetch, fetched, faults>>
-----------------------------------------------------------------------------
(* A stream of a page.                                                      *)

\* What a page shows of what was read.
Shown(p) == IF p \in Lists THEN cache ELSE [NoView EXCEPT ![ItemOf] = cache[ItemOf]]

\* The loader of the route reads the list before the stream is asked for.
clientLoader(p) ==
    /\ stream[p] = "closed"
    /\ p \in Items => cache[ItemOf] # 0
    /\ stream' = [stream EXCEPT ![p] = "loaded"]
    /\ view' = [view EXCEPT ![p] = Shown(p)]
    /\ UNCHANGED <<server, chan, pending, fetch, fetched, missed, late, faults>>

\* A first request, or one that the browser repeats after a lost connection.
Subscribe(p) ==
    /\ stream[p] \in {"loaded", "lost"}
    /\ stream' = [stream EXCEPT ![p] = IF @ = "loaded" THEN "subscribed" ELSE "resubscribed"]
    /\ UNCHANGED <<server, chan, view, pending, fetch, fetched, missed, late, faults>>

\* The first event or ping also sends the headers, so the stream is open for the browser
\* only after the server has subscribed.  After a reconnection a list is fetched again.
onopen(p) ==
    /\ stream[p] \in {"subscribed", "resubscribed"}
    /\ stream' = [stream EXCEPT ![p] = "open"]
    /\ fetch' = IF stream[p] = "resubscribed" /\ p \in Lists THEN [fetch EXCEPT ![p] = "asked"] ELSE fetch
    /\ UNCHANGED <<server, chan, view, pending, fetched, missed, late, faults>>

\* The connection is lost, and the channel with it; useSSEStream counts a stream as
\* opened from its first onopen.  The fetch of an earlier reconnection is over by then.
connectionLost(p) ==
    /\ p \in Subscribers /\ Fault
    /\ p \in Lists => fetch[p] = "none"
    /\ stream' = [stream EXCEPT ![p] = IF @ = "subscribed" THEN "loaded" ELSE "lost"]
    /\ missed' = [missed EXCEPT ![p] = @ \cup ObjectsOf(chan[p])]
    /\ chan' = [chan EXCEPT ![p] = << >>]
    /\ UNCHANGED <<server, view, pending, fetch, fetched, late>>

\* FilteredStreamSSE writes the next event; a page with one object takes over what
\* matches unless it is a deletion, a list puts the event with those to be applied.
FilteredStreamSSE(p) ==
    LET e == Head(chan[p])
    IN /\ stream[p] = "open" /\ chan[p] # << >>
       /\ chan' = [chan EXCEPT ![p] = Tail(@)]
       /\ \/ /\ p \in Lists
             /\ pending' = [pending EXCEPT ![p] = Append(@, e)]
             /\ UNCHANGED view
          \/ /\ p \in Items
             /\ view' = IF e.object = ItemOf /\ e.type # "DELETED"
                        THEN [view EXCEPT ![p][ItemOf] = e.version] ELSE view
             /\ UNCHANGED pending
       /\ UNCHANGED <<server, stream, fetch, fetched, missed, late, faults>>
-----------------------------------------------------------------------------
(* A list.                                                                  *)

\* Mutant: a deletion does not take the row away.
keepDeleted(rows, e) ==
    IF e.type = "ADDED" => rows[e.object] = 0
    THEN [rows EXCEPT ![e.object] = e.version]
    ELSE rows

\* An addition is taken over if there is no row, an update if there is one.
applyEvent(rows, e) ==
    LET row == rows[e.object]
    IN [rows EXCEPT ![e.object] =
          CASE e.type = "ADDED"    -> IF row = 0 THEN e.version ELSE row
            [] e.type = "MODIFIED" -> IF row = 0 THEN row ELSE e.version
            [] e.type = "DELETED"  -> 0]

\* The rows after the first n of the events, for every n.
RowsAfter(rows, events) ==
    LET after[n \in 0 .. Len(events)] == IF n = 0 THEN rows ELSE applyEvent(after[n - 1], events[n])
    IN after

flush(p) ==
    /\ pending[p] # << >>
    /\ view' = [view EXCEPT ![p] = RowsAfter(@, pending[p])[Len(pending[p])]]
    /\ pending' = [pending EXCEPT ![p] = << >>]
    /\ late' = [late EXCEPT ![p] = @ \cup ObjectsOf(pending[p])]
    /\ UNCHANGED <<server, stream, chan, fetch, fetched, missed, faults>>

\* The API server reads the list for the page.
List(p) ==
    /\ fetch[p] = "asked"
    /\ fetch' = [fetch EXCEPT ![p] = "read"]
    /\ fetched' = [fetched EXCEPT ![p] = cache]
    /\ late' = [late EXCEPT ![p] = missed[p] \cap ObjectsOf(chan[p] \o pending[p])]
    /\ UNCHANGED <<server, stream, chan, view, pending, missed, faults>>

\* The answer replaces the rows.
fetchItems(p) ==
    /\ fetch[p] = "read"
    /\ fetch' = [fetch EXCEPT ![p] = "none"]
    /\ view' = [view EXCEPT ![p] = fetched[p]]
    /\ fetched' = [fetched EXCEPT ![p] = NoView]
    /\ missed' = [missed EXCEPT ![p] = late[p]]
    /\ UNCHANGED <<server, stream, chan, pending, late, faults>>

\* No answer changes nothing.  An answer with an error leaves the loader without data,
\* which it takes for an empty list.
fetchFails(p) ==
    /\ fetch[p] \in {"asked", "read"}
    /\ fetch' = [fetch EXCEPT ![p] = "none"]
    /\ fetched' = [fetched EXCEPT ![p] = NoView]
    /\ \/ UNCHANGED <<view, missed>>
       \/ view' = [view EXCEPT ![p] = NoView] /\ missed' = [missed EXCEPT ![p] = Objects]
    /\ UNCHANGED <<server, stream, chan, pending, late, faults>>

pageStep(p) == Subscribe(p) \/ onopen(p) \/ FilteredStreamSSE(p)
listStep(p) == flush(p) \/ List(p) \/ fetchItems(p)

Next ==
    \/ \E o \in Objects : change(o) \/ informerUpdate(o)
    \/ resync \/ Send
    \/ \E p \in Pages : clientLoader(p) \/ connectionLost(p) \/ pageStep(p)
    \/ \E p \in Lists : listStep(p) \/ fetchFails(p)

Spec == Init /\ [][Next]_vars

\* The informer, its resync and the handlers go on as long as the API server runs; the
\* browser reconnects by itself, and the interval of useSSEList keeps flushing.
Fairness ==
    /\ \A o \in Objects : WF_vars(informerUpdate(o))
    /\ WF_vars(Send) /\ WF_vars(resync)
    /\ \A p \in Pages : WF_vars(Subscribe(p)) /\ WF_vars(onopen(p)) /\ WF_vars(FilteredStreamSSE(p))
    /\ \A p \in Lists : WF_vars(flush(p)) /\ WF_vars(List(p)) /\ WF_vars(fetchItems(p))

FairSpec == Spec /\ Fairness
-----------------------------------------------------------------------------
(* Properties.                                                              *)

\* Every variable has its type; a channel holds no more than its capacity.
TypeOK ==
    /\ cluster \in Views /\ cache \in Views
    /\ notes \in Seq(Event) /\ chan \in [Pages -> Seq(Event)] /\ pending \in [Lists -> Seq(Event)]
    /\ \A p \in Pages : Len(chan[p]) <= Buffer
    /\ stream \in [Pages -> {"closed", "loaded", "subscribed", "resubscribed", "open", "lost"}]
    /\ view \in [Pages -> Views] /\ fetched \in [Lists -> Views]
    /\ fetch \in [Lists -> {"none", "asked", "read"}]
    /\ missed \in [Pages -> SUBSET Objects] /\ late \in [Pages -> SUBSET Objects]
    /\ changes \in 0 .. MaxChanges /\ faults \in 0 .. MaxFaults

\* Everything sent to list p has arrived and been applied.
Settled(p) ==
    /\ cache = cluster /\ notes = << >> /\ chan[p] = << >> /\ stream[p] = "open"
    /\ pending[p] = << >> /\ fetch[p] = "none"

\* A list shows just the resources there are, in their last form, once all events have
\* come through, although it is read from a store that is ahead of the events sent and
\* is replaced in the middle of a stream.  The only resources that may be shown wrong
\* are those with an event that was sent before the stream was subscribed, found the
\* channel full or was lost with it, or was applied before an older list arrived; a new
\* list makes up for this unless older events of the resource are still to be applied.
ListExact ==
    \A p \in Lists : Settled(p) => \A o \in Objects \ missed[p] : view[p][o] = cluster[o]

\* A resource that a page shows is in the end shown in its last form, whatever events
\* were lost, because the resync of the informer sends it again; what is shown and
\* no longer there, or there and not shown, is left.
ShownCatchesUp ==
    \A p \in Pages, o \in Objects :
        <>[](stream[p] = "open") => <>[](cluster[o] = 0 \/ view[p][o] \in {0, cluster[o]})
=============================================================================
