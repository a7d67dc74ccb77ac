-------------------------- MODULE ScenarioOperations --------------------------
(***************************************************************************)
(* The historical scenarios and operations of HistoricalScenarioService    *)
(* (scenarios.py), served over HTTP by api/app.py.  A scenario is defined  *)
(* and stored; an acquisition or a backtest is an operation, carried out   *)
(* by a thread of its own while clients poll and cancel it.  Tables in     *)
(* memory go with files under historical-results/.  A write may fail, and  *)
(* the process may end between any two steps and be started again.         *)
(*                                                                         *)
(* A scenario is named by the digest of its definition.  The backtest is   *)
(* seen through its calls alone (BacktestEngine models its inside): it     *)
(* fetches its history, and at each event it looks for a cancellation and  *)
(* reports its progress.  Files are written beside their path and moved    *)
(* over it.  The table and the file of a record change under one lock, so  *)
(* nobody sees the one without the other unless the write fails.           *)
(***************************************************************************)
EXTENDS Integers, FiniteSets

CONSTANTS
    Scenarios,      \* definitions clients may store
    Blind,          \* those with a blind window
    RangeBars,      \* events of a scenario's whole range
    WindowBars,     \* events of a blind window
    Stride,         \* progress is persisted at its multiples, and at the end
    Ops,            \* operation identities, drawn at random
    MaxFaults,      \* failed writes and restarts
    None            \* no record

ASSUME ScenarioAssumption ==
    /\ Blind \subseteq Scenarios /\ None \notin Scenarios
    /\ RangeBars \in Nat \ {0} /\ WindowBars \in Nat \ {0} /\ Stride \in Nat \ {0}
    /\ MaxFaults \in Nat

VARIABLES
    scenarios,      \* the table of scenarios
    scenarioFiles,  \* and their files
    answered,       \* history: scenarios whose definition was answered with 201
    operations,     \* the table: operation -> its record, None if unknown
    operationFiles, \* and their files
    results,        \* operations with a result in memory
    resultFiles,    \* and in a file
    runFiles,       \* scenario -> the directory of its run
    flags,          \* operations whose cancellation event is set
    cancelling,     \* operations a canceller has looked at
    worker,         \* operation -> the step its thread is at
    faults          \* faults so far

vars == <<scenarios, scenarioFiles, answered, operations, operationFiles, results,
          resultFiles, runFiles, flags, cancelling, worker, faults>>

definitions == <<scenarios, scenarioFiles, answered>>
outcomes == <<results, resultFiles, runFiles>>

-----------------------------------------------------------------------------
(* Records.                                                                *)

Kinds == {"acquisition", "backtest"}
Final == {"completed", "cancelled", "failed"}
Statuses == {"queued", "running"} \cup Final

\* The larger of the two totals bounds the progress.
MaxTotal == IF RangeBars > WindowBars THEN RangeBars ELSE WindowBars

Operation == [kind : Kinds, status : Statuses, scenario : Scenarios \cup {None},
              current : 0 .. MaxTotal]

ASSUME RecordAssumption == None \notin Operation

\* Steps of a thread.  "none": there is no thread, or it has ended.
Steps == {"none", "begin", "look", "acquire", "config", "history", "event", "progress",
          "persist", "persisting", "result", "complete", "cancelled", "failed"}

Queued(kind, s) == [kind |-> kind, status |-> "queued", scenario |-> s, current |-> 0]

Known(o) == operations[o] # None
Status(o) == operations[o].status
ScenarioOf(o) == operations[o].scenario

\* Events of the run: of the blind window, or of the whole range.
Total(s) == IF s \in Blind THEN WindowBars ELSE RangeBars

\* _resolved_config raises when the window does not fit into the range.
WindowFits(s) == s \in Blind => RangeBars - WindowBars + 1 > 0

Init ==
    /\ scenarios = {} /\ scenarioFiles = {} /\ answered = {}
    /\ operations = [o \in Ops |-> None]
    /\ operationFiles = [o \in Ops |-> None]
    /\ results = {} /\ resultFiles = {}
    /\ runFiles = [s \in Scenarios |-> "none"]
    /\ flags = {} /\ cancelling = {}
    /\ worker = [o \in Ops |-> "none"]
    /\ faults = 0

Goto(o, step) == worker' = [worker EXCEPT ![o] = step]

-----------------------------------------------------------------------------
(* Commands of clients.                                                    *)

\* define: a known scenario is answered as it is; a new one enters the table
\* and is written, and when that fails the table keeps it.
Define(s) ==
    /\ \/ /\ s \in scenarios
          /\ answered' = answered \cup {s}
          /\ UNCHANGED <<scenarios, scenarioFiles, faults>>
       \/ /\ s \notin scenarios
          /\ scenarios' = scenarios \cup {s}
          /\ scenarioFiles' = scenarioFiles \cup {s}
          /\ answered' = answered \cup {s}
          /\ UNCHANGED faults
       \/ /\ s \notin scenarios /\ faults < MaxFaults
          /\ scenarios' = scenarios \cup {s}
          /\ faults' = faults + 1
          /\ UNCHANGED <<scenarioFiles, answered>>
    /\ UNCHANGED <<operations, operationFiles, outcomes, flags, cancelling, worker>>

\* _new_operation, and the start of its thread.  When the record cannot be
\* written the call raises: nobody learns the identity, and no thread starts.
StartOperation(o, kind, s) ==
    /\ operations[o] = None /\ operationFiles[o] = None
    /\ operations' = [operations EXCEPT ![o] = Queued(kind, s)]
    /\ \/ /\ operationFiles' = [operationFiles EXCEPT ![o] = Queued(kind, s)]
          /\ Goto(o, "begin")
          /\ UNCHANGED faults
       \/ /\ faults < MaxFaults /\ faults' = faults + 1
          /\ UNCHANGED <<operationFiles, worker>>
    /\ UNCHANGED <<definitions, outcomes, flags, cancelling>>

StartAcquisition(o) == StartOperation(o, "acquisition", None)

StartBacktest(o, s) == s \in scenarios /\ StartOperation(o, "backtest", s)

\* cancel: a finished operation is returned as it is ...
CancelLook(o) ==
    /\ Known(o) /\ Status(o) \notin Final
    /\ cancelling' = cancelling \cup {o}
    /\ UNCHANGED <<definitions, operations, operationFiles, outcomes, flags, worker, faults>>

\* Mutant: the canceller records the cancellation itself.
CancelRecord(o) ==
    /\ o \in cancelling
    /\ cancelling' = cancelling \ {o}
    /\ flags' = flags \cup {o}
    /\ operations' = [operations EXCEPT ![o].status = "cancelled"]
    /\ operationFiles' = [operationFiles EXCEPT ![o] = operations'[o]]
    /\ UNCHANGED <<definitions, outcomes, worker, faults>>

\* ... and for another, which may have finished meanwhile, the event is set.
CancelSet(o) ==
    /\ o \in cancelling
    /\ cancelling' = cancelling \ {o}
    /\ flags' = flags \cup {o}
    /\ UNCHANGED <<definitions, operations, operationFiles, outcomes, worker, faults>>

-----------------------------------------------------------------------------
(* The threads.                                                            *)

\* _update with persist: the table first, then the file; what follows depends
\* on the write.
Update(o, record, next, raised) ==
    /\ operations' = [operations EXCEPT ![o] = record]
    /\ \/ /\ operationFiles' = [operationFiles EXCEPT ![o] = record]
          /\ Goto(o, next)
          /\ UNCHANGED faults
       \/ /\ faults < MaxFaults /\ faults' = faults + 1
          /\ Goto(o, raised)
          /\ UNCHANGED operationFiles
    /\ UNCHANGED <<definitions, outcomes, flags, cancelling>>

\* A step of the thread that only moves on.
Move(o, step) ==
    /\ Goto(o, step)
    /\ UNCHANGED <<definitions, operations, operationFiles, outcomes, flags, cancelling, faults>>

Begin(o) ==
    /\ worker[o] = "begin"
    /\ Update(o, [operations[o] EXCEPT !.status = "running"],
              IF operations[o].kind = "acquisition" THEN "look" ELSE "config", "failed")

\* _acquire looks once for a cancellation, before the fetch.
Look(o) ==
    /\ worker[o] = "look"
    /\ Move(o, IF o \in flags THEN "cancelled" ELSE "acquire")

\* The fetch of an acquisition, of a blind scenario's range, or of the history
\* of a run (MarketDataCache models it) returns or raises.
Acquire(o) ==
    /\ worker[o] = "acquire"
    /\ \/ Move(o, "complete")
       \/ Move(o, "failed")

ResolveConfig(o) ==
    /\ worker[o] = "config"
    /\ \/ WindowFits(ScenarioOf(o)) /\ Move(o, "history")
       \/ ScenarioOf(o) \in Blind /\ Move(o, "failed")

FetchHistory(o) ==
    /\ worker[o] = "history"
    /\ \/ Move(o, "event")
       \/ Move(o, "failed")

\* The engine looks for a cancellation before each event, and may raise.
Event(o) ==
    /\ worker[o] = "event"
    /\ \/ o \in flags /\ Move(o, "cancelled")
       \/ o \notin flags /\ Move(o, "progress")
       \/ o \notin flags /\ Move(o, "failed")

\* on_progress: the table always, the file at a stride and at the end.
Progress(o) ==
    LET record == [operations[o] EXCEPT !.current = @ + 1]
        last == record.current = Total(ScenarioOf(o))
        next == IF last THEN "persist" ELSE "event" IN
    /\ worker[o] = "progress"
    /\ IF last \/ record.current % Stride = 0
         THEN Update(o, record, next, "failed")
         ELSE /\ operations' = [operations EXCEPT ![o] = record]
              /\ Goto(o, next)
              /\ UNCHANGED <<definitions, operationFiles, outcomes, flags, cancelling, faults>>

\* persist_backtest writes the files of the run's directory one by one, and
\* over what another operation of the same scenario has written there.
PersistBegin(o) ==
    /\ worker[o] = "persist"
    /\ runFiles' = [runFiles EXCEPT ![ScenarioOf(o)] = "writing"]
    /\ Goto(o, "persisting")
    /\ UNCHANGED <<definitions, operations, operationFiles, results, resultFiles, flags,
                   cancelling, faults>>

\* Mutant: the operation is marked completed before its result is written.
PersistEndUnordered(o) ==
    /\ worker[o] = "persisting"
    /\ runFiles' = [runFiles EXCEPT ![ScenarioOf(o)] = "whole"]
    /\ operations' = [operations EXCEPT ![o].status = "completed"]
    /\ operationFiles' = [operationFiles EXCEPT ![o] = operations'[o]]
    /\ Goto(o, "result")
    /\ UNCHANGED <<definitions, results, resultFiles, flags, cancelling, faults>>

PersistEnd(o) ==
    /\ worker[o] = "persisting"
    /\ \/ /\ runFiles' = [runFiles EXCEPT ![ScenarioOf(o)] = "whole"]
          /\ Goto(o, "result")
          /\ UNCHANGED faults
       \/ /\ faults < MaxFaults /\ faults' = faults + 1
          /\ Goto(o, "failed")
          /\ UNCHANGED runFiles
    /\ UNCHANGED <<definitions, operations, operationFiles, results, resultFiles, flags,
                   cancelling>>

\* The result, into the table and then its file, under the lock.
StoreResult(o) ==
    /\ worker[o] = "result"
    /\ results' = results \cup {o}
    /\ \/ /\ resultFiles' = resultFiles \cup {o}
          /\ Goto(o, "complete")
          /\ UNCHANGED faults
       \/ /\ faults < MaxFaults /\ faults' = faults + 1
          /\ Goto(o, "failed")
          /\ UNCHANGED resultFiles
    /\ UNCHANGED <<definitions, operations, operationFiles, runFiles, flags, cancelling>>

Complete(o) ==
    /\ worker[o] = "complete"
    /\ Update(o, [operations[o] EXCEPT !.status = "completed"], "none", "failed")

\* The handlers of the cancellation and of every other exception; one that
\* raises ends the thread.
Handle(o) ==
    /\ worker[o] \in {"cancelled", "failed"}
    /\ Update(o, [operations[o] EXCEPT !.status = worker[o]], "none", "none")

-----------------------------------------------------------------------------
(* Restarts.                                                               *)

\* Mutant: an operation that was under way is loaded as it is.
LoadedAsIs(record) == record

\* _load_operations: what was under way has failed, in the table alone.
Loaded(record) ==
    IF record # None /\ record.status \notin Final
      THEN [record EXCEPT !.status = "failed"] ELSE record

\* The process ends between two steps; the tables are loaded from the files.
Restart ==
    /\ faults < MaxFaults /\ faults' = faults + 1
    /\ scenarios' = scenarioFiles
    /\ operations' = [o \in Ops |-> Loaded(operationFiles[o])]
    /\ results' = {o \in resultFiles : operationFiles[o] # None}
    /\ flags' = {} /\ cancelling' = {}
    /\ worker' = [o \in Ops |-> "none"]
    /\ UNCHANGED <<scenarioFiles, answered, operationFiles, resultFiles, runFiles>>

Step(o) ==
    \/ Begin(o) \/ Look(o) \/ Acquire(o) \/ ResolveConfig(o) \/ FetchHistory(o)
    \/ Event(o) \/ Progress(o) \/ PersistBegin(o) \/ PersistEnd(o) \/ StoreResult(o)
    \/ Complete(o) \/ Handle(o)

Next ==
    \/ \E s \in Scenarios : Define(s)
    \/ \E o \in Ops :
         \/ StartAcquisition(o)
         \/ \E s \in Scenarios : StartBacktest(o, s)
         \/ CancelLook(o) \/ CancelSet(o)
         \/ Step(o)
    \/ Restart

\* A thread that can go on is scheduled.
Spec == Init /\ [][Next]_vars /\ \A o \in Ops : WF_vars(Step(o))

-----------------------------------------------------------------------------
(* Properties.                                                             *)

TypeOK ==
    /\ scenarios \subseteq Scenarios /\ scenarioFiles \subseteq scenarios
    /\ answered \subseteq Scenarios
    /\ operations \in [Ops -> Operation \cup {None}]
    /\ operationFiles \in [Ops -> Operation \cup {None}]
    /\ results \subseteq Ops /\ resultFiles \subseteq Ops
    /\ runFiles \in [Scenarios -> {"none", "writing", "whole"}]
    /\ flags \subseteq Ops /\ cancelling \subseteq Ops
    /\ worker \in [Ops -> Steps]
    /\ faults \in 0 .. MaxFaults

CompletedBacktest(record) ==
    record # None /\ record.kind = "backtest" /\ record.status = "completed"

\* A completed backtest has a result, in memory for the result endpoints and on
\* disk for the next start of the service, at every instant and through failed
\* writes and restarts (_run, _load_operations); the directory of its run has been
\* written.  result() looks the operation's result up without asking.
CompletedHasResult ==
    \A o \in Ops :
        /\ CompletedBacktest(operations[o]) => o \in results
        /\ CompletedBacktest(operationFiles[o]) =>
             o \in resultFiles /\ runFiles[operationFiles[o].scenario] # "none"

\* A final status in a file is never replaced: not by the thread, not by a
\* canceller that came too late, not by a restart (_update, cancel).
DurableStatusIsFinal ==
    [][\A o \in Ops :
        operationFiles[o] # None /\ operationFiles[o].status \in Final =>
            operationFiles'[o] = operationFiles[o]]_vars

\* Every operation whose identity a client was given gets to a final status in the
\* table that clients poll: whatever raises or fails to be written, and through
\* restarts (_acquire, _run, _load_operations).
OperationsEnd ==
    \A o \in Ops : operationFiles[o] # None ~> (Known(o) /\ Status(o) \in Final)

\* What docs/historical-scenarios.md says of POST .../scenarios: it stores an
\* immutable scenario definition.
AnsweredScenarioIsStored == answered \subseteq scenarioFiles
=============================================================================
