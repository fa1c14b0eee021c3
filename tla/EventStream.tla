----------------------------- MODULE EventStream -----------------------------
(***************************************************************************)
(* The live view of an investigation: the Host saves an event and hands it *)
(* to the subscribers of its stream (src/host/event-store.ts), a client    *)
(* that connects is sent what it missed and then subscribed (openEventStream *)
(* of src/host/server.ts), and the page (src/host/web/app.js) lists the    *)
(* events and asks for the whole investigation again after each of them.   *)
(*                                                                         *)
(* A state of an investigation is the number of changes made to it, and an *)
(* event is its stream and the state it was published in; its id is its    *)
(* place in the table.  A page keeps the answers it waits for in the order *)
(* it asked; they come in any order.                                       *)
(***************************************************************************)
EXTENDS Ordering, SequencesExt

CONSTANTS
  Investigations,
  Pages,             \* browser tabs
  NoInvestigation,   \* a tab that shows none
  ReplayLimit,       \* config.host.sseReplayLimit
  MaxEvents,         \* bound: rows of the events table
  MaxChanges,        \* bound: changes of one investigation
  MaxClicks,         \* bound: what the user of a tab does
  MaxFaults,         \* bound: crashes of the Host and lost connections
  MaxAsked           \* connections a browser opens to the Host at a time

ASSUME EventStreamAssumption ==
  /\ NoInvestigation \notin Investigations
  /\ {ReplayLimit, MaxEvents, MaxChanges, MaxClicks, MaxFaults, MaxAsked} \subseteq Nat

VARIABLES
  hostUp,
  version,           \* the state of each investigation
  events,            \* rows of events in order of id
  current,           \* state.currentId of each page
  source,            \* stream its EventSource is for
  link,              \* "closed", "lost" (it will connect) or "open"
  wire,              \* ids written to the connection and not read
  list,              \* ids in its event list
  asked,             \* its requests for an investigation, oldest first
  timer,             \* refreshTimer is set
  shown,             \* what it has rendered
  clicks, faults

hostVars == <<hostUp, version, events>>
pageVars == <<current, source, link, wire, list, asked, timer, shown>>
vars == <<hostVars, pageVars, clicks, faults>>

Streams == Investigations \cup {NoInvestigation}
Ids == 1 .. MaxEvents
Unanswered == MaxChanges + 1

\* A request is to open an investigation or to refresh it; "late" once an answer
\* to a younger one is there.
Request == [of : Investigations, opens : BOOLEAN, late : BOOLEAN,
            answer : 0 .. Unanswered]

TypeOK ==
  /\ hostUp \in BOOLEAN
  /\ version \in [Investigations -> 0 .. MaxChanges]
  /\ events \in Seq([stream : Investigations, version : 0 .. MaxChanges])
  /\ Len(events) <= MaxEvents
  /\ current \in [Pages -> Streams]
  /\ source \in [Pages -> Streams]
  /\ link \in [Pages -> {"closed", "lost", "open"}]
  /\ wire \in [Pages -> Seq(Ids)]
  /\ list \in [Pages -> Seq(Ids)]
  /\ asked \in [Pages -> Seq(Request)]
  /\ \A p \in Pages : Len(asked[p]) <= MaxAsked
  /\ timer \in [Pages -> BOOLEAN]
  /\ shown \in [Pages -> [of : Streams, version : 0 .. MaxChanges, late : BOOLEAN]]
  /\ clicks \in [Pages -> 0 .. MaxClicks]
  /\ faults \in 0 .. MaxFaults

Init ==
  /\ hostUp = TRUE
  /\ version = [i \in Investigations |-> 0]
  /\ events = <<>>
  /\ current = [p \in Pages |-> NoInvestigation]
  /\ source = [p \in Pages |-> NoInvestigation]
  /\ link = [p \in Pages |-> "closed"]
  /\ wire = [p \in Pages |-> <<>>]
  /\ list = [p \in Pages |-> <<>>]
  /\ asked = [p \in Pages |-> <<>>]
  /\ timer = [p \in Pages |-> FALSE]
  /\ shown = [p \in Pages |-> [of |-> NoInvestigation, version |-> 0, late |-> FALSE]]
  /\ clicks = [p \in Pages |-> 0]
  /\ faults = 0

-----------------------------------------------------------------------------
(* The Host.                                                               *)

\* The ids of the events of a stream.
EventsOf(stream) == {n \in DOMAIN events : events[n].stream = stream}

\* EventStore.replay: the first ReplayLimit events after an id, in order of id.
FirstOf(S) == SubSeq(InOrder(S), 1, Min({ReplayLimit, Cardinality(S)}))

\* A broken replay that begins with the event the client has.
Replay_Inclusive(stream, afterId) == FirstOf({n \in EventsOf(stream) : n >= afterId})

Replay(stream, afterId) == FirstOf({n \in EventsOf(stream) : n > afterId})

IdsOf(stream) == InOrder(EventsOf(stream))

\* A broken publish that leaves the event to the next connection.
Publish_Unheard(stream) ==
  /\ Len(events) < MaxEvents
  /\ events' = Append(events, [stream |-> stream, version |-> version'[stream]])
  /\ UNCHANGED wire

\* EventStore.publish: saved, then written to every subscriber of the stream.
Publish(stream) ==
  LET id == Len(events) + 1 IN
  /\ Len(events) < MaxEvents
  /\ events' = Append(events, [stream |-> stream, version |-> version'[stream]])
  /\ wire' = [p \in Pages |-> IF link[p] = "open" /\ source[p] = stream
                              THEN Append(wire[p], id) ELSE wire[p]]

\* A message is accepted, a run starts, reports, fails or is retried: the change
\* is made and then published.  A cancel is published even if it changes nothing.
Change(i, amount) ==
  /\ hostUp /\ version[i] + amount <= MaxChanges
  /\ version' = [version EXCEPT ![i] = @ + amount]
  /\ Publish(i)
  /\ UNCHANGED <<hostUp, current, source, link, list, asked, timer, shown, clicks, faults>>

\* A lease is swept, which publishes nothing, or the Host is about to die between a
\* change and its event.
ChangeSilently(i) ==
  /\ hostUp /\ version[i] < MaxChanges
  /\ version' = [version EXCEPT ![i] = @ + 1]
  /\ UNCHANGED <<hostUp, events, pageVars, clicks, faults>>

\* The Host dies, and with it its connections and the requests under way.
HostCrash ==
  /\ hostUp /\ faults < MaxFaults
  /\ hostUp' = FALSE /\ faults' = faults + 1
  /\ link' = [p \in Pages |-> IF link[p] = "open" THEN "lost" ELSE link[p]]
  /\ wire' = [p \in Pages |-> <<>>]
  /\ asked' = [p \in Pages |-> <<>>]
  /\ shown' = [p \in Pages |-> IF asked[p] = <<>> THEN shown[p]
                               ELSE [shown[p] EXCEPT !.late = TRUE]]
  /\ UNCHANGED <<version, events, current, source, list, timer, clicks>>

HostRestart ==
  /\ ~hostUp /\ hostUp' = TRUE
  /\ UNCHANGED <<version, events, pageVars, clicks, faults>>

\* GET /api/agent/investigations/:id reads the investigation.
Answer(p, k) ==
  /\ hostUp /\ asked[p][k].answer = Unanswered
  /\ asked' = [asked EXCEPT ![p][k].answer = version[asked[p][k].of]]
  /\ UNCHANGED <<hostVars, current, source, link, wire, list, timer, shown, clicks, faults>>

-----------------------------------------------------------------------------
(* The connection.                                                         *)

\* The id a browser sends as Last-Event-ID when it connects again.
LastEventId(p) == IF list[p] = <<>> THEN 0 ELSE Last(list[p])

\* openEventStream: what was missed and then a subscription, in one turn.
Connect(p) ==
  /\ hostUp /\ link[p] = "lost"
  /\ link' = [link EXCEPT ![p] = "open"]
  /\ wire' = [wire EXCEPT ![p] = Replay(source[p], LastEventId(p))]
  /\ UNCHANGED <<hostVars, current, source, list, asked, timer, shown, clicks, faults>>

\* The connection breaks; what the page has not read of it is lost.
Drop(p) ==
  /\ link[p] = "open" /\ faults < MaxFaults
  /\ faults' = faults + 1
  /\ link' = [link EXCEPT ![p] = "lost"]
  /\ wire' = [wire EXCEPT ![p] = <<>>]
  /\ UNCHANGED <<hostVars, current, source, list, asked, timer, shown, clicks>>

-----------------------------------------------------------------------------
(* The page.                                                               *)

Ask(p, i, opens) ==
  /\ Len(asked[p]) < MaxAsked
  /\ asked' = [asked EXCEPT ![p] =
       Append(@, [of |-> i, opens |-> opens, late |-> FALSE, answer |-> Unanswered])]

\* openInvestigation, up to its await.
Click(p, i) ==
  /\ clicks[p] < MaxClicks
  /\ clicks' = [clicks EXCEPT ![p] = @ + 1]
  /\ current' = [current EXCEPT ![p] = i]
  /\ Ask(p, i, TRUE)
  /\ UNCHANGED <<hostVars, source, link, wire, list, timer, shown, faults>>

\* An event is read: pushEvent, and refreshCurrent unless a refresh is due.
Receive(p) ==
  /\ link[p] = "open" /\ wire[p] # <<>>
  /\ wire' = [wire EXCEPT ![p] = Tail(@)]
  /\ list' = [list EXCEPT ![p] = Append(@, Head(wire[p]))]
  /\ timer' = [timer EXCEPT ![p] = TRUE]
  /\ UNCHANGED <<hostVars, current, source, link, asked, shown, clicks, faults>>

\* The answer to what the user did: it asks for a refresh too.
Acted(p) ==
  /\ hostUp /\ current[p] # NoInvestigation /\ clicks[p] < MaxClicks
  /\ clicks' = [clicks EXCEPT ![p] = @ + 1]
  /\ timer' = [timer EXCEPT ![p] = TRUE]
  /\ UNCHANGED <<hostVars, current, source, link, wire, list, asked, shown, faults>>

\* A broken timer that does not ask while an answer is under way.
RefreshFires_Skipping(p) ==
  /\ timer[p]
  /\ timer' = [timer EXCEPT ![p] = FALSE]
  /\ IF asked[p] = <<>> THEN Ask(p, current[p], FALSE) ELSE UNCHANGED asked
  /\ UNCHANGED <<hostVars, current, source, link, wire, list, shown, clicks, faults>>

\* The timer of refreshCurrent: from now on another event sets it again.
RefreshFires(p) ==
  /\ timer[p]
  /\ timer' = [timer EXCEPT ![p] = FALSE]
  /\ Ask(p, current[p], FALSE)
  /\ UNCHANGED <<hostVars, current, source, link, wire, list, shown, clicks, faults>>

\* Request k is over; the older ones are late from now on.
Done(p, k) ==
  asked' = [asked EXCEPT ![p] =
    [n \in 1 .. k - 1 |-> [asked[p][n] EXCEPT !.late = TRUE]]
      \o SubSeq(asked[p], k + 1, Len(asked[p]))]

\* A broken subscribe that leaves the old EventSource where it is.
Subscribe_KeepList(p, i) ==
  /\ source' = [source EXCEPT ![p] = i]
  /\ link' = [link EXCEPT ![p] = "lost"]
  /\ wire' = [wire EXCEPT ![p] = <<>>]
  /\ UNCHANGED list

\* subscribe: the old EventSource is closed, the list begun anew.
Subscribe(p, i) ==
  /\ source' = [source EXCEPT ![p] = i]
  /\ link' = [link EXCEPT ![p] = "lost"]
  /\ wire' = [wire EXCEPT ![p] = <<>>]
  /\ list' = [list EXCEPT ![p] = <<>>]

\* renderDetail, whichever investigation the page is at by now; the answer to a
\* click subscribes too.
Arrive(p, k) ==
  LET request == asked[p][k] IN
  /\ request.answer # Unanswered
  /\ Done(p, k)
  /\ shown' = [shown EXCEPT ![p] = [of |-> request.of, version |-> request.answer,
                                     late |-> request.late]]
  /\ IF request.opens THEN Subscribe(p, request.of)
                      ELSE UNCHANGED <<source, link, wire, list>>
  /\ UNCHANGED <<hostVars, current, timer, clicks, faults>>

\* A request fails: a refresh quietly, a click with no investigation opened.
Fail(p, k) ==
  /\ faults < MaxFaults
  /\ faults' = faults + 1
  /\ Done(p, k)
  /\ shown' = [shown EXCEPT ![p].late = TRUE]
  /\ UNCHANGED <<hostVars, current, source, link, wire, list, timer, clicks>>

-----------------------------------------------------------------------------
Next ==
  \/ \E i \in Investigations : \/ \E amount \in {0, 1} : Change(i, amount)
                               \/ ChangeSilently(i)
  \/ HostCrash \/ HostRestart
  \/ \E p \in Pages :
       \/ Connect(p) \/ Drop(p) \/ Receive(p)
       \/ Acted(p) \/ RefreshFires(p)
       \/ \E i \in Investigations : Click(p, i)
       \/ \E k \in DOMAIN asked[p] : Answer(p, k) \/ Arrive(p, k) \/ Fail(p, k)

\* The Host is started again (its service manager), a browser connects again every
\* 3 s (retry: 3000) and a page reads what it was sent.
Fairness ==
  /\ WF_vars(HostRestart)
  /\ \A p \in Pages : WF_vars(Connect(p)) /\ WF_vars(Receive(p))

Spec == Init /\ [][Next]_vars /\ Fairness

-----------------------------------------------------------------------------
(* Properties.                                                             *)

Whole(p) == Cardinality(EventsOf(source[p])) <= ReplayLimit

\* TypeOK, and what is under way to a page is of its stream, in order, behind what
\* the page has: nothing of an investigation it has left arrives any more.
StreamInvariant ==
  /\ TypeOK
  /\ \A p \in Pages :
       LET ids == list[p] \o wire[p] IN
       /\ \A n \in DOMAIN ids : events[ids[n]].stream = source[p]
       /\ \A m, n \in DOMAIN ids : m < n => ids[m] < ids[n]
       /\ link[p] # "open" => wire[p] = <<>>

\* "Neither repeated nor left out": whatever connections break, a page has the
\* first events of its stream, each once, and while it is connected the rest is
\* under way; for streams that one replay can hold.
NeitherLostNorRepeated ==
  \A p \in Pages :
    source[p] # NoInvestigation /\ Whole(p) =>
      /\ IsPrefix(list[p] \o wire[p], IdsOf(source[p]))
      /\ link[p] = "open" => list[p] \o wire[p] = IdsOf(source[p])

\* A page at rest shows what was published last or something newer: no event of the
\* investigation falls between what a page asked for and what it subscribed to,
\* and an event that comes while a refresh is under way makes it ask again.
\* (Unless its last answers overtook each other or failed.)
PageAtRestIsCurrent ==
  \A p \in Pages :
    /\ link[p] = "open" /\ wire[p] = <<>> /\ Whole(p)
    /\ ~timer[p] /\ asked[p] = <<>> /\ ~shown[p].late
    /\ source[p] = current[p] /\ IdsOf(source[p]) # <<>>
    => /\ shown[p].of = current[p]
       /\ shown[p].version >= events[Last(IdsOf(source[p]))].version

\* An event that was published is in the list of every page of its investigation,
\* sooner or later, across crashes of the Host and lost connections.
PageCatchesUp ==
  \A p \in Pages :
    []<>(source[p] # NoInvestigation /\ Whole(p) => list[p] = IdsOf(source[p]))
=============================================================================
