------------------------------- MODULE Recorder -------------------------------
(***************************************************************************)
(* The trace of one attempt: the engine and the auditor report their model *)
(* and tool calls as events (src/observability/pi-observer.ts, timedTool   *)
(* of src/agent/pi-engine.ts, phases of src/diagnosis/diagnosis-loop.ts),  *)
(* and the recorder (src/observability/langfuse.ts) builds a tree of nodes *)
(* from them: the attempt's agent, the audits' agents, and under each the  *)
(* calls made for it.  Events may arrive in any order and twice.           *)
(*                                                                         *)
(* A node is identified by what it stands for, an event by its place in    *)
(* the order of emission, which is also its timestamp.                     *)
(***************************************************************************)
EXTENDS Ordering, SequencesExt

CONSTANTS
  MaxCalls,          \* bound: model and tool calls of the attempt
  MaxPhases,         \* bound: engine runs and audits
  MaxPending,        \* maxPendingEvents
  MaxWire,           \* bound: events under way at once
  MaxRepeats         \* bound: events that arrive twice

ASSUME RecorderAssumption == {MaxCalls, MaxPhases, MaxPending, MaxWire, MaxRepeats} \subseteq Nat

VARIABLES
  sent,              \* events in order of emission
  running,           \* the phase under way: a node, or Nobody
  phases,            \* phases begun
  callsBegun,        \* model and tool calls begun
  inFlight,          \* calls whose end was not reported
  wire,              \* places of events that were not delivered
  repeats,
  trace,             \* "absent", "open" or "closed"
  nodes,
  pending,           \* events that wait for their node or its parent, in order
  overflown          \* an event was refused because pending was full

emitterVars == <<sent, running, phases, callsBegun, inFlight>>
recorderVars == <<trace, nodes, pending, overflown>>
traceVars == <<emitterVars, wire, repeats, recorderVars>>

Nobody == <<"nobody", 0>>
Attempt == <<"attempt", 0>>
AuditAgents == {"audit"} \X (1 .. MaxPhases)
Calls == {"call"} \X (1 .. MaxCalls)
Agents == {Attempt} \cup AuditAgents
Nodes == Agents \cup Calls

\* "answered" for a call's own end, ok or not, and "settled" for one it is given.
Status == {"answered", "settled"}
Unended == "none"
Terminal == "attempt_terminal"

Event == [kind : {"start", "end"}, node : Nodes, parent : Agents \cup {Nobody},
          status : Status \cup {Unended}]
Node == [state : {"absent", "open", "ended"}, parent : Agents \cup {Nobody},
         status : Status \cup {Unended, Terminal}, at : Nat]

TraceTypeOK ==
  /\ sent \in Seq(Event)
  /\ running \in Agents \cup {Nobody}
  /\ phases \in 0 .. MaxPhases /\ callsBegun \in 0 .. MaxCalls
  /\ inFlight \subseteq Calls
  /\ wire \subseteq DOMAIN sent
  /\ repeats \in 0 .. MaxRepeats
  /\ trace \in {"absent", "open", "closed"}
  /\ nodes \in [Nodes -> Node]
  /\ pending \in Seq(DOMAIN sent) /\ Len(pending) <= MaxPending
  /\ overflown \in BOOLEAN

Absent == [state |-> "absent", parent |-> Nobody, status |-> Unended, at |-> 0]

TraceInit ==
  /\ sent = <<>> /\ running = Nobody /\ phases = 0 /\ callsBegun = 0 /\ inFlight = {}
  /\ wire = {} /\ repeats = 0
  /\ trace = "absent"
  /\ nodes = [n \in Nodes |-> Absent]
  /\ pending = <<>> /\ overflown = FALSE

-----------------------------------------------------------------------------
(* The engine and the auditor.                                             *)

ParentOf(c) == LET e == CHOOSE e \in Range(sent) : e.node = c IN e.parent

\* What is emitted after the end of the attempt is recorded nowhere.
Emit(events) ==
  /\ trace = "open"
  /\ sent' = sent \o events
  /\ wire' = wire \cup (Len(sent) + 1 .. Len(sent) + Len(events))
  /\ Cardinality(wire') <= MaxWire
  /\ UNCHANGED <<repeats, recorderVars>>

Started(n, parent) == [kind |-> "start", node |-> n, parent |-> parent, status |-> Unended]
Ended(n, parent, status) == [kind |-> "end", node |-> n, parent |-> parent, status |-> status]

\* An engine run, of the one scope of the attempt, or an audit, with one of its own.
\* The start of a run only adds its input to the agent, which is there already.
BeginPhase(agent) ==
  /\ running = Nobody /\ phases < MaxPhases
  /\ agent \in {Attempt, <<"audit", phases + 1>>}
  /\ running' = agent /\ phases' = phases + 1
  /\ Emit(IF agent = Attempt THEN <<>> ELSE <<Started(agent, Nobody)>>)
  /\ UNCHANGED <<callsBegun, inFlight>>

\* streamFunction of the session, or timedTool.
BeginCall ==
  /\ running # Nobody /\ callsBegun < MaxCalls
  /\ LET c == <<"call", callsBegun + 1>> IN
     /\ callsBegun' = callsBegun + 1 /\ inFlight' = inFlight \cup {c}
     /\ Emit(<<Started(c, running)>>)
  /\ UNCHANGED <<running, phases>>

EndCall(c) ==
  /\ c \in inFlight
  /\ inFlight' = inFlight \ {c}
  /\ Emit(<<Ended(c, ParentOf(c), "answered")>>)
  /\ UNCHANGED <<running, phases, callsBegun>>

\* settlePending, for the calls with the numbers ns.
Settlements(ns) ==
  [i \in 1 .. Cardinality(ns) |-> Ended(<<"call", InOrder(ns)[i]>>, running, "settled")]

\* settlePending, then phase_end.  A model call in flight is settled, and its own
\* answer then reports nothing; a tool call may outlive the phase.
EndPhase(cs) ==
  /\ running # Nobody
  /\ cs \subseteq {c \in inFlight : ParentOf(c) = running}
  /\ inFlight' = inFlight \ cs
  /\ Emit(Append(Settlements({c[2] : c \in cs}),
                 Ended(running, Nobody, IF cs = {} THEN "answered" ELSE "settled")))
  /\ running' = Nobody
  /\ UNCHANGED <<phases, callsBegun>>

-----------------------------------------------------------------------------
(* The recorder.                                                           *)

BeginAttempt ==
  /\ trace = "absent" /\ trace' = "open"
  /\ nodes' = [nodes EXCEPT ![Attempt] = [@ EXCEPT !.state = "open"]]
  /\ UNCHANGED <<emitterVars, wire, repeats, pending, overflown>>

Known(ns, n) == ns[n].state # "absent"

\* What an event waits for: a call for the agent it is made for, an end for its start.
Ready(ns, e) ==
  IF e.kind = "end" THEN Known(ns, e.node)
  ELSE e.node \in Agents \/ Known(ns, e.parent)

\* A broken recorder that takes no call for an agent that has ended.
TooLate_Always(ns, k) == ns[sent[k].parent].state = "ended"

\* A call that began after its agent ended.
TooLate(ns, k) ==
  LET p == ns[sent[k].parent] IN p.state = "ended" /\ k > p.at

\* A broken recorder that opens a node again.
Process_Reopening(ns, k) ==
  LET e == sent[k] IN
  IF e.kind = "end"
  THEN [ns EXCEPT ![e.node] = [@ EXCEPT !.state = "ended", !.status = e.status, !.at = k]]
  ELSE [ns EXCEPT ![e.node] = [@ EXCEPT !.state = "open", !.parent = e.parent]]

\* processEvent, of an event that is ready: what repeats is ignored.
Process(ns, k) ==
  LET e == sent[k] IN
  IF e.kind = "end"
  THEN IF ns[e.node].state = "open"
       THEN [ns EXCEPT ![e.node] = [@ EXCEPT !.state = "ended", !.status = e.status, !.at = k]]
       ELSE ns
  ELSE IF Known(ns, e.node) \/ (e.node \in Calls /\ TooLate(ns, k)) THEN ns
  ELSE [ns EXCEPT ![e.node] = [@ EXCEPT !.state = "open", !.parent = e.parent]]

\* An event is processed, or waits (what record and drainPending do with it).
Take(r, k) ==
  IF Ready(r.nodes, sent[k]) THEN [r EXCEPT !.nodes = Process(r.nodes, k)]
  ELSE [r EXCEPT !.pending = Append(r.pending, k)]

\* One pass over the pending events, and as many as make progress (drainPending).
Pass(r) ==
  LET after[n \in 0 .. Len(r.pending)] ==
        IF n = 0 THEN [r EXCEPT !.pending = <<>>] ELSE Take(after[n - 1], r.pending[n])
  IN  after[Len(r.pending)]

\* A broken recorder that does not look at the pending events again.
Drained_Never(r) == r

Drained(r) ==
  LET after[n \in 0 .. Len(r.pending)] == IF n = 0 THEN r ELSE Pass(after[n - 1])
  IN  after[Len(r.pending)]

Overflows(k) == ~Ready(nodes, sent[k]) /\ Len(pending) >= MaxPending

Record(k) ==
  LET now == [nodes |-> nodes, pending |-> pending]
      after == Drained(IF Overflows(k) THEN now ELSE Take(now, k))
  IN /\ nodes' = after.nodes /\ pending' = after.pending
     /\ overflown' = (overflown \/ Overflows(k))
     /\ UNCHANGED trace

\* An event arrives, and may arrive again.
Deliver(k, again) ==
  /\ k \in wire
  /\ again => repeats < MaxRepeats
  /\ wire' = IF again THEN wire ELSE wire \ {k}
  /\ repeats' = IF again THEN repeats + 1 ELSE repeats
  /\ IF trace = "open" THEN Record(k) ELSE UNCHANGED recorderVars
  /\ UNCHANGED emitterVars

\* endAttempt of the executor, or shutdown: everything that is open is ended.
CloseAttempt ==
  /\ trace = "open" /\ trace' = "closed"
  /\ nodes' = [n \in Nodes |->
       IF nodes[n].state # "open" THEN nodes[n]
       ELSE [nodes[n] EXCEPT !.state = "ended", !.status = Terminal]]
  /\ pending' = <<>>
  /\ UNCHANGED <<emitterVars, wire, repeats, overflown>>

TraceNext ==
  \/ BeginAttempt
  \/ \E agent \in Agents : BeginPhase(agent)
  \/ BeginCall
  \/ \E c \in Calls : EndCall(c)
  \/ \E cs \in SUBSET Calls : EndPhase(cs)
  \/ \E k \in wire, again \in BOOLEAN : Deliver(k, again)
  \/ CloseAttempt

TraceSpec == TraceInit /\ [][TraceNext]_traceVars

-----------------------------------------------------------------------------
(* Properties.                                                             *)

Emitted(kind, n) == {k \in DOMAIN sent : sent[k].kind = kind /\ sent[k].node = n}

\* The types; a node hangs under an agent that is known; what is kept waits for
\* something; and nothing is open, or kept, once the attempt has ended
\* (drainPending, closeAttempt).
RecorderInvariant ==
  /\ TraceTypeOK
  /\ \A c \in Calls : Known(nodes, c) => Known(nodes, nodes[c].parent)
  /\ \A i \in DOMAIN pending : ~Ready(nodes, sent[pending[i]])
  /\ trace = "closed" => pending = <<>> /\ \A n \in Nodes : nodes[n].state # "open"

\* A call reports one end at most, and a node that ended has the status of an end
\* that was reported for it, whatever repeats of it or of its start arrive, unless
\* the end of the attempt closed it (emitModelEnd, finishNode).
StatusIsReported ==
  /\ \A c \in Calls : Cardinality(Emitted("end", c)) <= 1
  /\ \A n \in Nodes : nodes[n].state = "ended" =>
       \/ trace = "closed" /\ nodes[n].at = 0
       \/ nodes[n].at \in Emitted("end", n) /\ sent[nodes[n].at].status = nodes[n].status

FirstEnd(agent) ==
  IF Emitted("end", agent) = {} THEN Len(sent) + 1
  ELSE CHOOSE k \in Emitted("end", agent) : \A j \in Emitted("end", agent) : k <= j

AllDelivered == trace = "open" /\ wire = {} /\ ~overflown

Kept(c) ==
  /\ nodes[c].parent = ParentOf(c)
  /\ nodes[c].state = IF Emitted("end", c) = {} THEN "open" ELSE "ended"

\* Whatever the order of arrival, once all events are there every call that began
\* before its agent's phase first ended is under that agent, open or ended as the
\* call is (processEvent).
OrderDoesNotMatter ==
  AllDelivered => \A c \in Calls : \A k \in Emitted("start", c) :
    k < FirstEnd(sent[k].parent) => Kept(c)
=============================================================================
