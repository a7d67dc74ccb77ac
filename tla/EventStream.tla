---------------------------- MODULE EventStream -----------------------------
(***************************************************************************)
(* From the bus to the dashboard: publications by domain threads, the      *)
(* event loop's websocket session (api/app.py, websocket_events), the      *)
(* bootstrap request, and the browser's stream (web/src/api.ts,            *)
(* openEventStream) with its live state (App.tsx, liveState.ts) and its    *)
(* request gate (requestGate.ts).  Connections drop, requests fail, and    *)
(* the server restarts with a new generation.                              *)
(*                                                                         *)
(* A publication is one step here: EventBus implements such a bus          *)
(* (AtomicBus).  calls are the call_soon_threadsafe callbacks not yet run, queue *)
(* the session's bounded queue, wire the messages under way to the         *)
(* browser, of which the handshake is the first.                           *)
(***************************************************************************)
EXTENDS LiveState

CONSTANTS
  QueueLimit,      \* websocket_queue_limit
  WireLimit,       \* messages send_json gets out before it has to wait
  MaxGeneration,   \* bound: generations
  MaxRequests,     \* bound: bootstrap requests after which nobody clicks Resync
  MaxFaults,       \* bound: kinds of fault of a behaviour, each happening once
  Faults           \* the faults that can happen: "drop", "fetch", "restart", "malformed"

ASSUME StreamAssumption ==
  /\ HistoryLimit \in Nat \ {0} /\ QueueLimit \in Nat \ {0} /\ WireLimit \in Nat \ {0}
  /\ MaxSequence \in Nat /\ MaxGeneration \in Nat \ {0}
  /\ MaxRequests \in Nat /\ MaxFaults \in Nat
  /\ Faults \subseteq {"drop", "fetch", "restart", "malformed"}

VARIABLES
  gen,        \* the server's generation
  published,  \* per generation, the sequence watermark
  session,    \* the websocket handler: "none" or "subscribed"
  calls, queue, wire,
  socket,     \* the browser's socket: "closed", "opening", "open" or "closing"
  gate,       \* generation of RequestGate: the current request's ticket
  requests,   \* bootstrap requests without an answer processed yet
  known,      \* hasBootstrapped
  live,       \* LiveState
  faults      \* history: the faults so far

streamVars == <<gen, published, session, calls, queue, wire, socket, gate, requests, known, live, faults>>
server == <<gen, published>>
pipe == <<session, calls, queue>>
browser == <<gate, requests, known, live>>

Generations == 1 .. MaxGeneration
Event == [gen: Generations, seq: 1 .. MaxSequence]
Open == [gen |-> 0, seq |-> 0]       \* the handshake
Lagged == [gen |-> 0, seq |-> 1]     \* the lag marker and the stream_error it becomes
Unanswered == [gen |-> 0, seq |-> 0, events |-> <<>>]

(***************************************************************************)
(* /api/bootstrap: watermark and retained events of one bus snapshot.      *)
(***************************************************************************)
Snapshot ==
  [gen |-> gen, seq |-> published[gen],
   events |-> Newest(Log(gen, 1, published[gen]), HistoryLimit)]

-----------------------------------------------------------------------------
StreamInit ==
  /\ gen = 1
  /\ published = [g \in Generations |-> 0]
  /\ session = "none" /\ calls = <<>> /\ queue = <<>> /\ wire = <<>>
  /\ socket = "closed"
  /\ gate = 0 /\ requests = {} /\ known = FALSE
  /\ live = EmptyLiveState
  /\ faults = {}

(***************************************************************************)
(* The server.                                                             *)
(***************************************************************************)
Publications == FoldFunction(+, 0, published)

Publish ==
  /\ Publications < MaxSequence
  /\ published' = [published EXCEPT ![gen] = @ + 1]
  /\ calls' = IF session = "subscribed" THEN Append(calls, [gen |-> gen, seq |-> published'[gen]])
                                        ELSE calls
  /\ UNCHANGED <<gen, session, queue, wire, socket, browser, faults>>

(***************************************************************************)
(* Mutant of RunCallback: a full queue drops the event.                    *)
(***************************************************************************)
RunCallbackDropping ==
  /\ calls # <<>>
  /\ calls' = Tail(calls)
  /\ queue' = IF Len(queue) >= QueueLimit THEN queue ELSE Append(queue, Head(calls))
  /\ UNCHANGED <<server, session, wire, socket, browser, faults>>

(***************************************************************************)
(* _enqueue_or_lag.                                                        *)
(***************************************************************************)
RunCallback ==
  /\ calls # <<>>
  /\ calls' = Tail(calls)
  /\ queue' = IF Len(queue) >= QueueLimit THEN <<Lagged>> ELSE Append(queue, Head(calls))
  /\ UNCHANGED <<server, session, wire, socket, browser, faults>>

(***************************************************************************)
(* The session sends the next item; the lag marker is its last one.        *)
(***************************************************************************)
SendNext ==
  /\ session = "subscribed" /\ queue # <<>> /\ Len(wire) < WireLimit
  /\ wire' = Append(wire, Head(queue))
  /\ IF Head(queue) = Lagged
     THEN session' = "none" /\ calls' = <<>> /\ queue' = <<>>
     ELSE queue' = Tail(queue) /\ UNCHANGED <<session, calls>>
  /\ UNCHANGED <<server, socket, browser, faults>>

ServeBootstrap(r) ==
  /\ r \in requests /\ r.answer = Unanswered
  /\ requests' = (requests \ {r}) \cup {[r EXCEPT !.answer = Snapshot]}
  /\ UNCHANGED <<server, pipe, wire, socket, gate, known, live, faults>>

-----------------------------------------------------------------------------
(***************************************************************************)
(* The browser.  resync takes a new ticket, which aborts the requests      *)
(* before it; state is the live state it starts from.                      *)
(***************************************************************************)
Resync(state, initial) ==
  /\ gate' = gate + 1
  /\ requests' = requests \cup {[ticket |-> gate', answer |-> Unanswered]}
  /\ live' = BeginResync(state, initial)

(***************************************************************************)
(* A new socket.  The handler subscribes after it accepted the handshake,  *)
(* before anything else runs on the event loop: no await of it up to the   *)
(* first queue.get suspends under the ASGI servers in use.                 *)
(***************************************************************************)
Connect ==
  /\ socket = "closed"
  /\ socket' = "opening" /\ wire' = <<Open>>
  /\ session' = "subscribed"
  /\ UNCHANGED <<server, calls, queue, browser, faults>>

OnOpen ==
  /\ wire # <<>> /\ Head(wire) = Open
  /\ wire' = Tail(wire)
  /\ socket' = "open"
  /\ Resync(live, ~known)
  /\ UNCHANGED <<server, pipe, known, faults>>

(***************************************************************************)
(* onEvent: leaving "live" queues a microtask, which runs resync before    *)
(* anything else happens.                                                  *)
(***************************************************************************)
OnEvent ==
  /\ wire # <<>> /\ Head(wire) \in Event
  /\ wire' = Tail(wire)
  /\ LET next == BufferEvent(live, Head(wire))
     IN IF live.status = "live" /\ next.status = "resynchronizing"
        THEN Resync(next, FALSE)
        ELSE live' = next /\ UNCHANGED <<gate, requests>>
  /\ UNCHANGED <<server, pipe, socket, known, faults>>

\* Mutant of OnStreamError: the socket is left open.
OnStreamErrorKeepsSocket ==
  /\ wire # <<>> /\ Head(wire) = Lagged
  /\ live' = FailLive(live, "malformed")
  /\ wire' = <<>>
  /\ UNCHANGED <<server, pipe, socket, gate, requests, known, faults>>

(***************************************************************************)
(* The stream_error message: the browser gives the socket up.              *)
(***************************************************************************)
OnStreamError ==
  /\ wire # <<>> /\ Head(wire) = Lagged
  /\ live' = FailLive(live, "malformed")
  /\ socket' = "closing" /\ wire' = <<>>
  /\ UNCHANGED <<server, pipe, gate, requests, known, faults>>

OnClose ==
  /\ socket = "closing"
  /\ socket' = "closed"
  /\ live' = FailLive(live, "disconnected")
  /\ UNCHANGED <<server, pipe, wire, gate, requests, known, faults>>

(***************************************************************************)
(* Mutant of ReceiveBootstrap: any answer is applied.                      *)
(***************************************************************************)
ReceiveAnyBootstrap(r) ==
  /\ r \in requests /\ r.answer # Unanswered
  /\ requests' = requests \ {r}
  /\ live' = ApplyBootstrap(live, r.answer) /\ known' = TRUE
  /\ UNCHANGED <<server, pipe, wire, socket, gate, faults>>

(***************************************************************************)
(* The answer to a request, looked at only if its ticket is current.       *)
(***************************************************************************)
ReceiveBootstrap(r) ==
  /\ r \in requests /\ r.answer # Unanswered
  /\ requests' = requests \ {r}
  /\ IF r.ticket = gate
     THEN live' = ApplyBootstrap(live, r.answer) /\ known' = TRUE
     ELSE UNCHANGED <<live, known>>
  /\ UNCHANGED <<server, pipe, wire, socket, gate, faults>>

ClickResync ==
  /\ gate < MaxRequests
  /\ Resync(live, FALSE)
  /\ UNCHANGED <<server, pipe, wire, socket, known, faults>>

-----------------------------------------------------------------------------
(***************************************************************************)
(* Faults.                                                                 *)
(***************************************************************************)
Fault(f) ==
  /\ f \in Faults \ faults /\ Cardinality(faults) < MaxFaults
  /\ faults' = faults \cup {f}

LoseConnection ==
  /\ session' = "none" /\ calls' = <<>> /\ queue' = <<>> /\ wire' = <<>>
  /\ socket' = IF socket = "closed" THEN "closed" ELSE "closing"

Drop ==
  /\ Fault("drop") /\ socket \in {"opening", "open"}
  /\ LoseConnection
  /\ UNCHANGED <<server, browser>>

FetchFails(r) ==
  /\ Fault("fetch") /\ r \in requests
  /\ requests' = requests \ {r}
  /\ live' = IF r.ticket = gate THEN FailLive(live, "disconnected") ELSE live
  /\ UNCHANGED <<server, pipe, wire, socket, gate, known>>

(***************************************************************************)
(* An event that parseTelemetryEvent refuses: the socket stays open.       *)
(***************************************************************************)
OnMalformed ==
  /\ Fault("malformed") /\ wire # <<>> /\ Head(wire) \in Event
  /\ wire' = Tail(wire)
  /\ live' = FailLive(live, "malformed")
  /\ UNCHANGED <<server, pipe, socket, gate, requests, known>>

Restart ==
  /\ Fault("restart") /\ gen < MaxGeneration
  /\ gen' = gen + 1
  /\ LoseConnection
  /\ UNCHANGED <<published, browser>>

-----------------------------------------------------------------------------
Serve == RunCallback \/ SendNext \/ \E r \in requests : ServeBootstrap(r)

Browse ==
  \/ Connect \/ OnOpen \/ OnEvent \/ OnStreamError \/ OnClose
  \/ \E r \in requests : ReceiveBootstrap(r)

StreamNext ==
  \/ Publish
  \/ Serve \/ Browse \/ ClickResync
  \/ Drop \/ Restart \/ OnMalformed \/ \E r \in requests : FetchFails(r)

(***************************************************************************)
(* The event loop runs its callbacks and coroutines, messages and answers  *)
(* arrive, and the reconnection timer fires.  Nobody has to publish, click *)
(* or fail.                                                                *)
(***************************************************************************)
Fairness ==
  /\ WF_streamVars(RunCallback) /\ WF_streamVars(SendNext)
  /\ WF_streamVars(\E r \in requests : ServeBootstrap(r))
  /\ WF_streamVars(Connect \/ OnOpen \/ OnEvent \/ OnStreamError \/ OnClose)
  /\ WF_streamVars(\E r \in requests : ReceiveBootstrap(r))

StreamSpec == StreamInit /\ [][StreamNext]_streamVars /\ Fairness

-----------------------------------------------------------------------------
(***************************************************************************)
(* Every variable keeps its type.                                          *)
(***************************************************************************)
LiveType ==
  [status: {"bootstrapping", "live", "resynchronizing", "disconnected", "malformed"},
   streamId: Generations \cup {None}, watermark: 0 .. MaxSequence,
   events: Seq(Event), buffered: Seq(Event)]

StreamTypeOK ==
  /\ gen \in Generations
  /\ published \in [Generations -> 0 .. MaxSequence]
  /\ session \in {"none", "subscribed"}
  /\ calls \in Seq(Event) /\ queue \in Seq(Event \cup {Lagged})
  /\ wire \in Seq(Event \cup {Open, Lagged})
  /\ socket \in {"closed", "opening", "open", "closing"}
  /\ gate \in Nat
  /\ \A r \in requests : r.ticket \in 1 .. gate /\ r.answer.gen \in 0 .. gen
  /\ known \in BOOLEAN
  /\ live \in LiveType
  /\ faults \subseteq Faults

(***************************************************************************)
(* What the dashboard shows as live is a stretch of the stream of one      *)
(* generation without a hole or a repetition, ends at the watermark, and   *)
(* is not shorter than the limits make it, however events, snapshots,      *)
(* lag and reconnections interleaved.                                      *)
(***************************************************************************)
LiveViewIsExact ==
  live.status = "live" =>
    /\ live.watermark <= published[live.streamId]
    /\ Len(live.events) <= ClientLimit
    /\ live.events = Log(live.streamId, live.watermark - Len(live.events) + 1, live.watermark)
    /\ \/ Len(live.events) = live.watermark
       \/ Len(live.events) >= HistoryLimit \/ Len(live.events) >= ClientLimit

(***************************************************************************)
(* The view never goes back: not to an older generation, nor to a lower    *)
(* watermark of the same one, although answers overtake each other and     *)
(* requests are abandoned.                                                 *)
(***************************************************************************)
ViewNeverRegresses ==
  [][live.streamId # None =>
       \/ live'.streamId > live.streamId
       \/ live'.streamId = live.streamId /\ live'.watermark >= live.watermark]_streamVars

(***************************************************************************)
(* While the dashboard is live on the server's generation and its socket   *)
(* is open, every event it lacks is still on its way: in the queue, on the *)
(* wire, or behind a lag marker.  It takes that the session subscribes     *)
(* before the browser can ask for a snapshot.  An event that the browser   *)
(* refused is lost: a bootstrap that was under way shows live again.       *)
(***************************************************************************)
UnderWay ==
  {e.seq : e \in {m \in Range(calls) \cup Range(queue) \cup Range(wire) : m.gen = gen}}

NothingLostWhileLive ==
  /\ "malformed" \notin faults /\ live.status = "live" /\ live.streamId = gen
  /\ socket = "open" /\ session = "subscribed"
  => \/ Contains(queue, Lagged)
     \/ live.watermark + 1 .. published[gen] \subseteq UnderWay

(***************************************************************************)
(* A gap or a change of generation asks for a full bootstrap: a dashboard  *)
(* that says it is resynchronizing has a request under way.                *)
(***************************************************************************)
ResynchronizingIsUnderWay ==
  live.status = "resynchronizing" => \E r \in requests : r.ticket = gate

(***************************************************************************)
(* Once publications and faults have ceased, the dashboard becomes live at *)
(* the watermark of the server and stays so, lag, lost connections and     *)
(* restarts notwithstanding.  If a bootstrap request failed, or if more    *)
(* events arrived during one than the buffer holds, it may stay behind,    *)
(* and then shows that it is not live.  Nothing is promised after an event *)
(* was refused.                                                            *)
(***************************************************************************)
Current == live.status = "live" /\ live.streamId = gen /\ live.watermark = published[gen]

Converges ==
  \/ <>[]Current
  \/ <>[]("fetch" \in faults /\ live.status # "live")
  \/ <>[]~ResynchronizingIsUnderWay
  \/ <>("malformed" \in faults)
=============================================================================
