----------------------------- MODULE LiveState ------------------------------
(***************************************************************************)
(* The dashboard's live state (web/src/liveState.ts): the pure functions   *)
(* that fold socket events and bootstrap snapshots into what is shown.  An *)
(* event is its generation (stream_id) and its sequence number; the        *)
(* derived registries of runs and agents are left out.                     *)
(***************************************************************************)
EXTENDS Retention

CONSTANT ClientLimit   \* CLIENT_EVENT_LIMIT

ASSUME ClientAssumption == ClientLimit \in Nat \ {0}

EmptyLiveState ==
  [status |-> "bootstrapping", streamId |-> None, watermark |-> 0,
   events |-> <<>>, buffered |-> <<>>]

BeginResync(live, initial) ==
  [live EXCEPT !.status = IF initial THEN "bootstrapping" ELSE "resynchronizing"]

FailLive(live, status) == [live EXCEPT !.status = status]

(***************************************************************************)
(* Mutant of ApplyEvent: a gap is not noticed.                             *)
(***************************************************************************)
ApplyEventOverGap(live, event) ==
  IF live.streamId # event.gen
  THEN [live EXCEPT !.status = "resynchronizing", !.buffered = <<event>>]
  ELSE IF event.seq <= live.watermark THEN live
  ELSE [live EXCEPT !.watermark = event.seq,
                    !.events = Newest(Append(@, event), ClientLimit)]

(***************************************************************************)
(* applyEvent: another generation or a gap stops the live state and keeps  *)
(* the event; an old event is dropped.                                     *)
(***************************************************************************)
ApplyEvent(live, event) ==
  IF live.streamId # event.gen
  THEN [live EXCEPT !.status = "resynchronizing", !.buffered = <<event>>]
  ELSE IF event.seq <= live.watermark THEN live
  ELSE IF event.seq # live.watermark + 1
  THEN [live EXCEPT !.status = "resynchronizing", !.buffered = Append(@, event)]
  ELSE [live EXCEPT !.watermark = event.seq,
                    !.events = Newest(Append(@, event), ClientLimit)]

(***************************************************************************)
(* bufferEvent: while not live, events wait, each once, the newest of      *)
(* them.                                                                   *)
(***************************************************************************)
BufferEvent(live, event) ==
  IF live.status = "live" THEN ApplyEvent(live, event)
  ELSE IF Contains(live.buffered, event) THEN live
  ELSE [live EXCEPT !.buffered = Newest(Append(@, event), ClientLimit)]

(***************************************************************************)
(* Events of a generation with consecutive numbers.                        *)
(***************************************************************************)
Log(g, from, to) == [i \in 1 .. to - from + 1 |-> [gen |-> g, seq |-> from + i - 1]]

(***************************************************************************)
(* applyBootstrap: the snapshot replaces the state, then the buffered      *)
(* events beyond it are applied in the order of their numbers, until one   *)
(* of them leaves a gap, which stops the state: those up to reached follow *)
(* each other.                                                             *)
(***************************************************************************)
ApplyBootstrap(live, snapshot) ==
  LET newer   == {e.seq : e \in {f \in Range(live.buffered) : /\ f.gen = snapshot.gen
                                                             /\ f.seq > snapshot.seq}}
      reached == Min({n \in newer \cup {snapshot.seq} : n + 1 \notin newer})
      late    == {n \in newer : n > reached}
      applied == [status |-> "live", streamId |-> snapshot.gen, watermark |-> reached,
                  events |-> Newest(snapshot.events \o Log(snapshot.gen, snapshot.seq + 1, reached),
                                    ClientLimit),
                  buffered |-> <<>>]
  IN IF late = {} THEN applied
                  ELSE ApplyEvent(applied, [gen |-> snapshot.gen, seq |-> Min(late)])
=============================================================================
