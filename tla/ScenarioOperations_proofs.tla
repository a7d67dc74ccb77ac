---------------------- MODULE ScenarioOperations_proofs ----------------------
(***************************************************************************)
(* Scenario operations for any number of operations, any scenarios and     *)
(* totals, and any number of failed writes and restarts: what is completed *)
(* has its result, and a final status in a file stays.                     *)
(*                                                                         *)
(* Neither is inductive alone.  That a completed record has its result     *)
(* rests on the order in which a thread gets to its last step, and that a  *)
(* final record stays rests on there being no thread behind it any more;   *)
(* both are in OperationOK, which relates the step of a thread to the two  *)
(* copies of its record and to the files of its run.                       *)
(***************************************************************************)
EXTENDS ScenarioOperations, TLAPS

\* Between Begin and Complete the table says "running".
Active == Steps \ {"none", "begin", "cancelled", "failed"}

\* Steps of a backtest alone.
BacktestSteps == {"config", "history", "event", "progress", "persist", "persisting", "result"}

RecordOK(record) == record.kind = "backtest" => record.scenario \in Scenarios

\* What is true of an operation at each step of its thread.
OperationOK(o) ==
    /\ Known(o) => RecordOK(operations[o])
    /\ operationFiles[o] # None => RecordOK(operationFiles[o])
    /\ worker[o] # "none" => Known(o)
    /\ worker[o] = "begin" => Status(o) = "queued" /\ operations[o].current = 0
    /\ worker[o] \in Active => Status(o) = "running"
    /\ worker[o] \in {"look", "acquire"} => operations[o].kind = "acquisition"
    /\ worker[o] \in BacktestSteps => operations[o].kind = "backtest"
    /\ worker[o] \in {"config", "history"} => operations[o].current = 0
    /\ worker[o] \in {"event", "progress"} => operations[o].current < Total(ScenarioOf(o))
    /\ worker[o] \in {"persisting", "result"} => runFiles[ScenarioOf(o)] # "none"
    /\ worker[o] = "complete" /\ operations[o].kind = "backtest" =>
         o \in results /\ o \in resultFiles /\ runFiles[ScenarioOf(o)] # "none"
    /\ operationFiles[o] # None /\ operationFiles[o].status \in Final => worker[o] = "none"
    /\ CompletedBacktest(operations[o]) => o \in results
    /\ CompletedBacktest(operationFiles[o]) =>
         o \in resultFiles /\ runFiles[operationFiles[o].scenario] # "none"

IInv == TypeOK /\ \A o \in Ops : OperationOK(o)

-----------------------------------------------------------------------------
\* Nothing takes a result or a run's directory away while the process lives.
Kept ==
    /\ results \subseteq results' /\ resultFiles \subseteq resultFiles'
    /\ \A s \in Scenarios : runFiles[s] # "none" => runFiles'[s] # "none"

\* What others do leaves an operation as it is.
LEMMA OthersKeep ==
  ASSUME NEW p \in Ops, TypeOK, OperationOK(p), Kept,
         operations'[p] = operations[p], operationFiles'[p] = operationFiles[p],
         worker'[p] = worker[p]
  PROVE  OperationOK(p)'
<1>1. Known(p) => operations[p] \in Operation
  BY DEF TypeOK, Known
<1>2. operationFiles[p] # None => operationFiles[p] \in Operation
  BY DEF TypeOK
<1>3. worker[p] \in {"persisting", "result"} => runFiles'[ScenarioOf(p)] # "none"
  BY DEF OperationOK, Kept, RecordOK, ScenarioOf, Known, BacktestSteps
<1>4. worker[p] = "complete" /\ operations[p].kind = "backtest" =>
        p \in results' /\ p \in resultFiles' /\ runFiles'[ScenarioOf(p)] # "none"
  BY DEF OperationOK, Kept, RecordOK, ScenarioOf, Known
<1>5. CompletedBacktest(operationFiles[p]) =>
        p \in resultFiles' /\ runFiles'[operationFiles[p].scenario] # "none"
  BY DEF OperationOK, Kept, RecordOK, CompletedBacktest
<1>6. CompletedBacktest(operations[p]) => p \in results'
  BY DEF OperationOK, Kept
<1> QED
  BY <1>3, <1>4, <1>5, <1>6
  DEF OperationOK, Known, Status, ScenarioOf, RecordOK, CompletedBacktest, Total

\* The totals bound the progress of a record.
LEMMA TotalBounds ==
  ASSUME NEW s
  PROVE  /\ MaxTotal \in Nat \ {0}
         /\ Total(s) \in Nat \ {0}
         /\ Total(s) <= MaxTotal
BY ScenarioAssumption DEF MaxTotal, Total

\* The changes of a record that the service makes keep its type.
LEMMA RecordChanges ==
  ASSUME NEW r \in Operation, NEW status \in Statuses
  PROVE  /\ [r EXCEPT !.status = status] \in Operation
         /\ [r EXCEPT !.status = status].kind = r.kind
         /\ [r EXCEPT !.status = status].scenario = r.scenario
         /\ [r EXCEPT !.status = status].current = r.current
         /\ [r EXCEPT !.status = status].status = status
BY DEF Operation

-----------------------------------------------------------------------------
\* A record written to the table, and to its file unless that fails.
LEMMA UpdateEffect ==
  ASSUME NEW o \in Ops, NEW record \in Operation, NEW next \in Steps, NEW raised \in Steps,
         TypeOK, Update(o, record, next, raised)
  PROVE  /\ TypeOK'
         /\ operations'[o] = record
         /\ \/ operationFiles'[o] = record /\ worker'[o] = next
            \/ operationFiles'[o] = operationFiles[o] /\ worker'[o] = raised
         /\ UNCHANGED <<results, resultFiles, runFiles>>
         /\ \A p \in Ops \ {o} :
              operations'[p] = operations[p] /\ operationFiles'[p] = operationFiles[p]
              /\ worker'[p] = worker[p]
<1>1. operations' = [operations EXCEPT ![o] = record]
  BY DEF Update
<1>2. CASE operationFiles' = [operationFiles EXCEPT ![o] = record] /\ Goto(o, next) /\ UNCHANGED faults
  BY <1>1, <1>2 DEF Update, Goto, TypeOK, definitions, outcomes
<1>3. CASE /\ faults < MaxFaults /\ faults' = faults + 1
           /\ Goto(o, raised) /\ UNCHANGED operationFiles
  BY <1>1, <1>3, ScenarioAssumption DEF Update, Goto, TypeOK, definitions, outcomes
<1> QED
  BY <1>2, <1>3 DEF Update

LEMMA MoveEffect ==
  ASSUME NEW o \in Ops, NEW step \in Steps, TypeOK, Move(o, step)
  PROVE  /\ TypeOK'
         /\ worker'[o] = step
         /\ UNCHANGED <<operations, operationFiles, results, resultFiles, runFiles>>
         /\ \A p \in Ops \ {o} : worker'[p] = worker[p]
BY DEF Move, Goto, TypeOK, definitions, outcomes

\* A step of one operation's thread that changes no other's state and takes
\* nothing away: what remains to be shown is its own part of the invariant.
LEMMA OwnPart ==
  ASSUME NEW o \in Ops, IInv, Kept, OperationOK(o)',
         \A p \in Ops \ {o} :
           operations'[p] = operations[p] /\ operationFiles'[p] = operationFiles[p]
           /\ worker'[p] = worker[p]
  PROVE  \A p \in Ops : OperationOK(p)'
<1> TAKE p \in Ops
<1>1. CASE p = o
  BY <1>1
<1>2. CASE p # o
  BY <1>2, OthersKeep DEF IInv
<1> QED
  BY <1>1, <1>2

-----------------------------------------------------------------------------
(* The steps of a thread.                                                  *)

LEMMA BeginKeeps ==
  ASSUME IInv, NEW o \in Ops, Begin(o)
  PROVE  IInv'
<1> DEFINE record == [operations[o] EXCEPT !.status = "running"]
<1> DEFINE next == IF operations[o].kind = "acquisition" THEN "look" ELSE "config"
<1>1. worker[o] = "begin" /\ Known(o) /\ operations[o] \in Operation
  BY DEF Begin, IInv, TypeOK, OperationOK, Known
<1>2. /\ record \in Operation /\ record.kind = operations[o].kind
      /\ record.scenario = operations[o].scenario
      /\ record.current = operations[o].current /\ record.status = "running"
  <2>1. "running" \in Statuses
    BY DEF Statuses
  <2> QED
    BY <1>1, <2>1, RecordChanges
<1>3. Update(o, record, next, "failed")
  BY DEF Begin
<1>4. next \in Steps /\ "failed" \in Steps
  BY DEF Steps
<1> HIDE DEF record, next
<1>5. /\ TypeOK'
      /\ operations'[o] = record
      /\ \/ operationFiles'[o] = record /\ worker'[o] = next
         \/ operationFiles'[o] = operationFiles[o] /\ worker'[o] = "failed"
      /\ UNCHANGED <<results, resultFiles, runFiles>>
      /\ \A p \in Ops \ {o} :
           operations'[p] = operations[p] /\ operationFiles'[p] = operationFiles[p]
           /\ worker'[p] = worker[p]
  BY <1>2, <1>3, <1>4, UpdateEffect DEF IInv
<1>6. /\ next \in {"look", "config"}
      /\ next = "config" => operations[o].kind = "backtest"
      /\ next = "look" => operations[o].kind = "acquisition"
  BY <1>1 DEF next, Operation, Kinds
<1>7. record # None
  BY <1>2, RecordAssumption
<1>8. OperationOK(o)'
  <2>1. OperationOK(o) /\ operations[o].current = 0 /\ RecordOK(record)
    BY <1>1, <1>2 DEF IInv, OperationOK, RecordOK
  <2>2. CASE operationFiles'[o] = record /\ worker'[o] = next
    BY <1>2, <1>5, <1>6, <1>7, <2>1, <2>2
    DEF OperationOK, Known, Status, ScenarioOf, CompletedBacktest, Active, BacktestSteps, Final
  <2>3. CASE operationFiles'[o] = operationFiles[o] /\ worker'[o] = "failed"
    BY <1>1, <1>2, <1>5, <1>6, <1>7, <2>1, <2>3
    DEF OperationOK, Known, Status, ScenarioOf, CompletedBacktest, Active, BacktestSteps, Final,
        RecordOK
  <2> QED
    BY <1>5, <2>2, <2>3
<1> QED
  BY <1>5, <1>8, OwnPart DEF IInv, Kept

\* A step that only moves on: what the next step asks of the record must hold.
LEMMA MoveKeeps ==
  ASSUME IInv, NEW o \in Ops, NEW step \in Steps \ {"none", "begin"}, Move(o, step),
         worker[o] # "none",
         step \in Active => Status(o) = "running",
         step \in {"look", "acquire", "complete"} => operations[o].kind = "acquisition",
         step \in BacktestSteps => operations[o].kind = "backtest",
         step \in {"config", "history"} => operations[o].current = 0,
         step \in {"event", "progress"} => operations[o].current < Total(ScenarioOf(o)),
         step \notin {"persisting", "result"}
  PROVE  IInv'
<1>1. /\ TypeOK'
      /\ worker'[o] = step
      /\ UNCHANGED <<operations, operationFiles, results, resultFiles, runFiles>>
      /\ \A p \in Ops \ {o} : worker'[p] = worker[p]
  BY MoveEffect DEF IInv
<1>2. OperationOK(o)'
  BY <1>1 DEF IInv, OperationOK, Known, Status, ScenarioOf, RecordOK, CompletedBacktest, Total
<1> QED
  BY <1>1, <1>2, OwnPart DEF IInv, Kept

LEMMA LookKeeps ==
  ASSUME IInv, NEW o \in Ops, Look(o)
  PROVE  IInv'
<1>1. OperationOK(o) /\ worker[o] = "look"
  BY DEF IInv, Look
<1>2. Status(o) = "running" /\ operations[o].kind = "acquisition"
  BY <1>1 DEF OperationOK, Active, Steps
<1>3. CASE o \in flags
  BY <1>1, <1>2, <1>3, MoveKeeps DEF Look, Steps, Active, BacktestSteps
<1>4. CASE o \notin flags
  BY <1>1, <1>2, <1>4, MoveKeeps DEF Look, Steps, Active, BacktestSteps
<1> QED
  BY <1>3, <1>4

LEMMA FailKeeps ==
  ASSUME IInv, NEW o \in Ops, NEW step \in {"cancelled", "failed"}, Move(o, step),
         worker[o] # "none"
  PROVE  IInv'
BY MoveKeeps DEF Steps, Active, BacktestSteps

\* An acquisition that is over is complete: it has no result to store.
LEMMA AcquireKeeps ==
  ASSUME IInv, NEW o \in Ops, Acquire(o)
  PROVE  IInv'
<1>1. OperationOK(o) /\ worker[o] = "acquire"
  BY DEF IInv, Acquire
<1>2. CASE Move(o, "failed")
  BY <1>1, <1>2, FailKeeps
<1>3. CASE Move(o, "complete")
  <2>1. Status(o) = "running" /\ operations[o].kind = "acquisition"
    BY <1>1 DEF OperationOK, Active, Steps
  <2> QED
    BY <1>1, <1>3, <2>1, MoveKeeps DEF Steps, Active, BacktestSteps
<1> QED
  BY <1>2, <1>3 DEF Acquire

LEMMA ResolveConfigKeeps ==
  ASSUME IInv, NEW o \in Ops, ResolveConfig(o)
  PROVE  IInv'
<1>1. OperationOK(o) /\ worker[o] = "config"
  BY DEF IInv, ResolveConfig
<1>2. CASE Move(o, "failed")
  BY <1>1, <1>2, FailKeeps
<1>3. CASE Move(o, "history")
  <2>1. /\ Status(o) = "running" /\ operations[o].kind = "backtest"
        /\ operations[o].current = 0
    BY <1>1 DEF OperationOK, Active, Steps, BacktestSteps
  <2> QED
    BY <1>1, <1>3, <2>1, MoveKeeps DEF Steps, Active, BacktestSteps
<1> QED
  BY <1>2, <1>3 DEF ResolveConfig

LEMMA FetchHistoryKeeps ==
  ASSUME IInv, NEW o \in Ops, FetchHistory(o)
  PROVE  IInv'
<1>1. OperationOK(o) /\ worker[o] = "history"
  BY DEF IInv, FetchHistory
<1>2. CASE Move(o, "failed")
  BY <1>1, <1>2, FailKeeps
<1>3. CASE Move(o, "event")
  <2>1. /\ Status(o) = "running" /\ operations[o].kind = "backtest"
        /\ operations[o].current = 0
    BY <1>1 DEF OperationOK, Active, Steps, BacktestSteps
  <2>2. operations[o].current < Total(ScenarioOf(o))
    BY <2>1, TotalBounds
  <2> QED
    BY <1>1, <1>3, <2>1, <2>2, MoveKeeps DEF Steps, Active, BacktestSteps
<1> QED
  BY <1>2, <1>3 DEF FetchHistory

LEMMA EventKeeps ==
  ASSUME IInv, NEW o \in Ops, Event(o)
  PROVE  IInv'
<1>1. OperationOK(o) /\ worker[o] = "event"
  BY DEF IInv, Event
<1>2. CASE Move(o, "failed") \/ Move(o, "cancelled")
  BY <1>1, <1>2, FailKeeps
<1>3. CASE Move(o, "progress")
  <2>1. /\ Status(o) = "running" /\ operations[o].kind = "backtest"
        /\ operations[o].current < Total(ScenarioOf(o))
    BY <1>1 DEF OperationOK, Active, Steps, BacktestSteps
  <2> QED
    BY <1>1, <1>3, <2>1, MoveKeeps DEF Steps, Active, BacktestSteps
<1> QED
  BY <1>2, <1>3 DEF Event

\* The progress stays below the total until the last event.
LEMMA ProgressKeeps ==
  ASSUME IInv, NEW o \in Ops, Progress(o)
  PROVE  IInv'
<1> DEFINE record == [operations[o] EXCEPT !.current = operations[o].current + 1]
<1> DEFINE last == record.current = Total(ScenarioOf(o))
<1> DEFINE next == IF last THEN "persist" ELSE "event"
<1>1. /\ OperationOK(o) /\ worker[o] = "progress" /\ Known(o)
      /\ operations[o] \in Operation
  BY DEF Progress, IInv, TypeOK, OperationOK, Known
<1>2. /\ Status(o) = "running" /\ operations[o].kind = "backtest"
      /\ operations[o].current < Total(ScenarioOf(o))
  BY <1>1 DEF OperationOK, Active, Steps, BacktestSteps
<1>3. /\ record \in Operation /\ record.kind = operations[o].kind
      /\ record.scenario = operations[o].scenario /\ record.status = "running"
      /\ record.current = operations[o].current + 1
      /\ record.current <= Total(ScenarioOf(o))
  BY <1>1, <1>2, TotalBounds DEF Operation, Status
<1>4. next \in {"persist", "event"} /\ (next = "event" => record.current < Total(ScenarioOf(o)))
  BY <1>3, TotalBounds DEF Operation
<1>5. record # None
  BY <1>3, RecordAssumption
<1>6. /\ TypeOK'
      /\ operations'[o] = record
      /\ \/ operationFiles'[o] = record /\ worker'[o] = next
         \/ operationFiles'[o] = operationFiles[o] /\ worker'[o] \in {next, "failed"}
      /\ UNCHANGED <<results, resultFiles, runFiles>>
      /\ \A p \in Ops \ {o} :
           operations'[p] = operations[p] /\ operationFiles'[p] = operationFiles[p]
           /\ worker'[p] = worker[p]
  <2>1. CASE last \/ record.current % Stride = 0
    <3>1. Update(o, record, next, "failed")
      BY <2>1 DEF Progress
    <3>2. next \in Steps /\ "failed" \in Steps
      BY <1>4 DEF Steps
    <3> HIDE DEF record, next, last
    <3> QED
      BY <1>3, <3>1, <3>2, UpdateEffect DEF IInv
  <2>2. CASE ~(last \/ record.current % Stride = 0)
    <3>1. /\ operations' = [operations EXCEPT ![o] = record]
          /\ worker' = [worker EXCEPT ![o] = next]
          /\ UNCHANGED <<definitions, operationFiles, outcomes, flags, cancelling, faults>>
      BY <2>2 DEF Progress, Goto
    <3>2. next \in Steps
      BY <1>4 DEF Steps
    <3> HIDE DEF record, next, last
    <3> QED
      BY <1>3, <3>1, <3>2 DEF IInv, TypeOK, definitions, outcomes
  <2> QED
    BY <2>1, <2>2
<1> HIDE DEF record, next, last
<1>7. OperationOK(o)'
  <2>1. RecordOK(record) /\ record.scenario = ScenarioOf(o)
    BY <1>1, <1>3 DEF OperationOK, RecordOK, ScenarioOf
  <2>2. operationFiles[o] # None => operationFiles[o].status \notin Final
    BY <1>1 DEF OperationOK
  <2> QED
    BY <1>1, <1>2, <1>3, <1>4, <1>5, <1>6, <2>1, <2>2
    DEF OperationOK, Known, Status, ScenarioOf, CompletedBacktest, Active, BacktestSteps, Final,
        RecordOK, Total
<1> QED
  BY <1>6, <1>7, OwnPart DEF IInv, Kept

LEMMA PersistBeginKeeps ==
  ASSUME IInv, NEW o \in Ops, PersistBegin(o)
  PROVE  IInv'
<1>1. /\ OperationOK(o) /\ worker[o] = "persist" /\ Known(o) /\ TypeOK
  BY DEF PersistBegin, IInv, OperationOK
<1>2. Status(o) = "running" /\ operations[o].kind = "backtest" /\ ScenarioOf(o) \in Scenarios
  BY <1>1 DEF OperationOK, Active, Steps, BacktestSteps, RecordOK, ScenarioOf
<1>3. /\ runFiles' = [runFiles EXCEPT ![ScenarioOf(o)] = "writing"]
      /\ worker' = [worker EXCEPT ![o] = "persisting"]
      /\ UNCHANGED <<definitions, operations, operationFiles, results, resultFiles, flags,
                     cancelling, faults>>
  BY DEF PersistBegin, Goto
<1>4. TypeOK'
  BY <1>1, <1>2, <1>3 DEF TypeOK, Steps, definitions
<1>5. /\ worker'[o] = "persisting" /\ runFiles'[ScenarioOf(o)] = "writing"
      /\ \A s \in Scenarios : runFiles[s] # "none" => runFiles'[s] # "none"
  BY <1>1, <1>2, <1>3 DEF TypeOK
<1>6. OperationOK(o)'
  BY <1>1, <1>2, <1>3, <1>5
  DEF OperationOK, Known, Status, ScenarioOf, RecordOK, CompletedBacktest, BacktestSteps
<1> QED
  BY <1>1, <1>3, <1>4, <1>5, <1>6, OwnPart DEF IInv, Kept, TypeOK

LEMMA PersistEndKeeps ==
  ASSUME IInv, NEW o \in Ops, PersistEnd(o)
  PROVE  IInv'
<1>1. /\ OperationOK(o) /\ worker[o] = "persisting" /\ Known(o) /\ TypeOK
  BY DEF PersistEnd, IInv, OperationOK
<1>2. /\ Status(o) = "running" /\ operations[o].kind = "backtest"
      /\ ScenarioOf(o) \in Scenarios /\ runFiles[ScenarioOf(o)] # "none"
  BY <1>1 DEF OperationOK, Active, Steps, BacktestSteps, RecordOK, ScenarioOf
<1>3. UNCHANGED <<definitions, operations, operationFiles, results, resultFiles, flags, cancelling>>
  BY DEF PersistEnd
<1>4. /\ TypeOK'
      /\ worker'[o] \in {"result", "failed"}
      /\ \A p \in Ops \ {o} : worker'[p] = worker[p]
      /\ \A s \in Scenarios : runFiles[s] # "none" => runFiles'[s] # "none"
  <2>1. CASE /\ runFiles' = [runFiles EXCEPT ![ScenarioOf(o)] = "whole"]
             /\ Goto(o, "result") /\ UNCHANGED faults
    BY <1>1, <1>2, <1>3, <2>1 DEF TypeOK, Steps, Goto, definitions
  <2>2. CASE /\ faults < MaxFaults /\ faults' = faults + 1
             /\ Goto(o, "failed") /\ UNCHANGED runFiles
    BY <1>1, <1>3, <2>2, ScenarioAssumption DEF TypeOK, Steps, Goto, definitions
  <2> QED
    BY <2>1, <2>2 DEF PersistEnd
<1>5. OperationOK(o)'
  BY <1>1, <1>2, <1>3, <1>4
  DEF OperationOK, Known, Status, ScenarioOf, RecordOK, CompletedBacktest, BacktestSteps, Active
<1> QED
  BY <1>3, <1>4, <1>5, OwnPart DEF IInv, Kept

\* The result is in the table and in its file before the operation is complete.
LEMMA StoreResultKeeps ==
  ASSUME IInv, NEW o \in Ops, StoreResult(o)
  PROVE  IInv'
<1>1. /\ OperationOK(o) /\ worker[o] = "result" /\ Known(o) /\ TypeOK
  BY DEF StoreResult, IInv, OperationOK
<1>2. /\ Status(o) = "running" /\ operations[o].kind = "backtest"
      /\ runFiles[ScenarioOf(o)] # "none"
  BY <1>1 DEF OperationOK, Active, Steps, BacktestSteps
<1>3. /\ results' = results \cup {o}
      /\ UNCHANGED <<definitions, operations, operationFiles, runFiles, flags, cancelling>>
  BY DEF StoreResult
<1>4. /\ TypeOK'
      /\ \/ worker'[o] = "complete" /\ o \in resultFiles'
         \/ worker'[o] = "failed"
      /\ resultFiles \subseteq resultFiles'
      /\ \A p \in Ops \ {o} : worker'[p] = worker[p]
  <2>1. CASE resultFiles' = resultFiles \cup {o} /\ Goto(o, "complete") /\ UNCHANGED faults
    BY <1>1, <1>3, <2>1 DEF TypeOK, Steps, Goto, definitions
  <2>2. CASE /\ faults < MaxFaults /\ faults' = faults + 1
             /\ Goto(o, "failed") /\ UNCHANGED resultFiles
    BY <1>1, <1>3, <2>2, ScenarioAssumption DEF TypeOK, Steps, Goto, definitions
  <2> QED
    BY <2>1, <2>2 DEF StoreResult
<1>5. OperationOK(o)'
  BY <1>1, <1>2, <1>3, <1>4
  DEF OperationOK, Known, Status, ScenarioOf, RecordOK, CompletedBacktest, BacktestSteps, Active
<1> QED
  BY <1>3, <1>4, <1>5, OwnPart DEF IInv, Kept

LEMMA CompleteKeeps ==
  ASSUME IInv, NEW o \in Ops, Complete(o)
  PROVE  IInv'
<1> DEFINE record == [operations[o] EXCEPT !.status = "completed"]
<1>1. /\ OperationOK(o) /\ worker[o] = "complete" /\ Known(o) /\ operations[o] \in Operation
  BY DEF Complete, IInv, TypeOK, OperationOK, Known
<1>2. /\ record \in Operation /\ record.kind = operations[o].kind
      /\ record.scenario = operations[o].scenario /\ record.status = "completed"
  <2>1. "completed" \in Statuses
    BY DEF Statuses, Final
  <2> QED
    BY <1>1, <2>1, RecordChanges
<1>3. Update(o, record, "none", "failed")
  BY DEF Complete
<1>4. "none" \in Steps /\ "failed" \in Steps
  BY DEF Steps
<1> HIDE DEF record
<1>5. /\ TypeOK'
      /\ operations'[o] = record
      /\ \/ operationFiles'[o] = record /\ worker'[o] = "none"
         \/ operationFiles'[o] = operationFiles[o] /\ worker'[o] = "failed"
      /\ UNCHANGED <<results, resultFiles, runFiles>>
      /\ \A p \in Ops \ {o} :
           operations'[p] = operations[p] /\ operationFiles'[p] = operationFiles[p]
           /\ worker'[p] = worker[p]
  BY <1>2, <1>3, <1>4, UpdateEffect DEF IInv
<1>6. record # None
  BY <1>2, RecordAssumption
<1>7. OperationOK(o)'
  <2>1. RecordOK(record) /\ record.scenario = ScenarioOf(o)
    BY <1>1, <1>2 DEF OperationOK, RecordOK, ScenarioOf
  <2>2. /\ operationFiles[o] # None => operationFiles[o].status \notin Final
        /\ operationFiles[o] # None => RecordOK(operationFiles[o])
    BY <1>1 DEF OperationOK
  <2>3. record.kind = "backtest" =>
          o \in results /\ o \in resultFiles /\ runFiles[record.scenario] # "none"
    BY <1>1, <1>2, <2>1 DEF OperationOK
  <2>4. CASE operationFiles'[o] = record /\ worker'[o] = "none"
    BY <1>2, <1>5, <1>6, <2>1, <2>3, <2>4
    DEF OperationOK, Known, Status, ScenarioOf, RecordOK, CompletedBacktest, Active, BacktestSteps
  <2>5. CASE operationFiles'[o] = operationFiles[o] /\ worker'[o] = "failed"
    BY <1>2, <1>5, <1>6, <2>1, <2>2, <2>3, <2>5
    DEF OperationOK, Known, Status, ScenarioOf, RecordOK, CompletedBacktest, Active, BacktestSteps,
        Final
  <2> QED
    BY <1>5, <2>4, <2>5
<1> QED
  BY <1>5, <1>7, OwnPart DEF IInv, Kept

LEMMA HandleKeeps ==
  ASSUME IInv, NEW o \in Ops, Handle(o)
  PROVE  IInv'
<1> DEFINE record == [operations[o] EXCEPT !.status = worker[o]]
<1>1. /\ OperationOK(o) /\ worker[o] \in {"cancelled", "failed"} /\ Known(o)
      /\ operations[o] \in Operation
  BY DEF Handle, IInv, TypeOK, OperationOK, Known
<1>2. /\ record \in Operation /\ record.kind = operations[o].kind
      /\ record.scenario = operations[o].scenario /\ record.status = worker[o]
  <2>1. worker[o] \in Statuses
    BY <1>1 DEF Statuses, Final
  <2> QED
    BY <1>1, <2>1, RecordChanges
<1>3. Update(o, record, "none", "none")
  BY DEF Handle
<1>4. "none" \in Steps
  BY DEF Steps
<1> HIDE DEF record
<1>5. /\ TypeOK'
      /\ operations'[o] = record /\ worker'[o] = "none"
      /\ operationFiles'[o] \in {record, operationFiles[o]}
      /\ UNCHANGED <<results, resultFiles, runFiles>>
      /\ \A p \in Ops \ {o} :
           operations'[p] = operations[p] /\ operationFiles'[p] = operationFiles[p]
           /\ worker'[p] = worker[p]
  BY <1>2, <1>3, <1>4, UpdateEffect DEF IInv
<1>6. record # None
  BY <1>2, RecordAssumption
<1>7. OperationOK(o)'
  <2>1. RecordOK(record)
    BY <1>1, <1>2 DEF OperationOK, RecordOK
  <2>2. ~CompletedBacktest(record)
    BY <1>1, <1>2 DEF CompletedBacktest
  <2> QED
    BY <1>1, <1>2, <1>5, <1>6, <2>1, <2>2
    DEF OperationOK, Known, Status, ScenarioOf, RecordOK, CompletedBacktest, Active, BacktestSteps
<1> QED
  BY <1>5, <1>7, OwnPart DEF IInv, Kept

-----------------------------------------------------------------------------
(* Commands of clients, and restarts.                                      *)

LEMMA DefineKeeps ==
  ASSUME IInv, NEW s \in Scenarios, Define(s)
  PROVE  IInv'
<1>1. TypeOK'
  BY ScenarioAssumption DEF IInv, Define, TypeOK, outcomes
<1>2. UNCHANGED <<operations, operationFiles, worker, results, resultFiles, runFiles>>
  BY DEF Define, outcomes
<1> QED
  BY <1>1, <1>2, OthersKeep DEF IInv, Kept

LEMMA StartOperationKeeps ==
  ASSUME IInv, NEW o \in Ops, NEW kind \in Kinds, NEW s \in Scenarios \cup {None},
         kind = "backtest" => s \in Scenarios,
         StartOperation(o, kind, s)
  PROVE  IInv'
<1> DEFINE record == Queued(kind, s)
<1>1. /\ record \in Operation /\ record.kind = kind /\ record.scenario = s
      /\ record.status = "queued" /\ record.current = 0
  BY TotalBounds DEF Queued, Operation, Statuses
<1>2. record # None
  BY <1>1, RecordAssumption
<1>3. /\ operations[o] = None /\ operationFiles[o] = None
      /\ operations' = [operations EXCEPT ![o] = record]
      /\ UNCHANGED <<definitions, outcomes, flags, cancelling>>
  BY DEF StartOperation
<1> HIDE DEF record
<1>4. worker[o] = "none" /\ TypeOK
  BY <1>3 DEF IInv, OperationOK, Known
<1>5. /\ TypeOK'
      /\ operations'[o] = record
      /\ \/ operationFiles'[o] = record /\ worker'[o] = "begin"
         \/ operationFiles'[o] = None /\ worker'[o] = "none"
      /\ UNCHANGED <<results, resultFiles, runFiles>>
      /\ \A p \in Ops \ {o} :
           operations'[p] = operations[p] /\ operationFiles'[p] = operationFiles[p]
           /\ worker'[p] = worker[p]
  <2>1. CASE operationFiles' = [operationFiles EXCEPT ![o] = record] /\ Goto(o, "begin")
             /\ UNCHANGED faults
    BY <1>1, <1>3, <1>4, <2>1 DEF TypeOK, Steps, Goto, definitions, outcomes
  <2>2. CASE /\ faults < MaxFaults /\ faults' = faults + 1
             /\ UNCHANGED <<operationFiles, worker>>
    BY <1>1, <1>3, <1>4, <2>2, ScenarioAssumption DEF TypeOK, definitions, outcomes
  <2> QED
    BY <2>1, <2>2 DEF StartOperation, record
<1>6. OperationOK(o)'
  BY <1>1, <1>2, <1>5
  DEF OperationOK, Known, Status, ScenarioOf, RecordOK, CompletedBacktest, Active, BacktestSteps,
      Final
<1> QED
  BY <1>5, <1>6, OwnPart DEF IInv, Kept

LEMMA CancelKeeps ==
  ASSUME IInv, NEW o \in Ops, CancelLook(o) \/ CancelSet(o)
  PROVE  IInv'
<1>1. TypeOK'
  BY DEF IInv, CancelLook, CancelSet, TypeOK, definitions, outcomes
<1>2. UNCHANGED <<operations, operationFiles, worker, results, resultFiles, runFiles>>
  BY DEF CancelLook, CancelSet, outcomes
<1> QED
  BY <1>1, <1>2, OthersKeep DEF IInv, Kept

\* The files alone say what the next process knows.
LEMMA RestartKeeps ==
  ASSUME IInv, Restart
  PROVE  IInv'
<1>1. /\ TypeOK
      /\ operations' = [o \in Ops |-> Loaded(operationFiles[o])]
      /\ results' = {o \in resultFiles : operationFiles[o] # None}
      /\ worker' = [o \in Ops |-> "none"]
      /\ UNCHANGED <<operationFiles, resultFiles, runFiles>>
  BY DEF IInv, Restart
<1>2. ASSUME NEW o \in Ops
      PROVE  /\ Loaded(operationFiles[o]) \in Operation \cup {None}
             /\ operationFiles[o] # None /\ operationFiles[o].status \in Final =>
                  Loaded(operationFiles[o]) = operationFiles[o]
             /\ operationFiles[o] # None /\ operationFiles[o].status \notin Final =>
                  Loaded(operationFiles[o]) = [operationFiles[o] EXCEPT !.status = "failed"]
             /\ operationFiles[o] = None => Loaded(operationFiles[o]) = None
  <2>1. operationFiles[o] \in Operation \cup {None}
    BY <1>1 DEF TypeOK
  <2>2. "failed" \in Statuses
    BY DEF Statuses, Final
  <2> QED
    BY <2>1, <2>2, RecordChanges DEF Loaded
<1>3. TypeOK'
  BY <1>1, <1>2, ScenarioAssumption DEF TypeOK, Restart, Steps
<1>4. ASSUME NEW o \in Ops
      PROVE  OperationOK(o)'
  <2>1. OperationOK(o) /\ worker'[o] = "none" /\ operations'[o] = Loaded(operationFiles[o])
    BY <1>1 DEF IInv
  <2>2. operationFiles[o] \in Operation \cup {None}
    BY <1>1 DEF TypeOK
  <2>3. CASE operationFiles[o] = None
    BY <1>1, <1>2, <2>1, <2>3
    DEF OperationOK, Known, CompletedBacktest, Active, BacktestSteps
  <2>4. CASE operationFiles[o] # None /\ operationFiles[o].status \in Final
    BY <1>1, <1>2, <2>1, <2>4
    DEF OperationOK, Known, CompletedBacktest, Active, BacktestSteps, RecordOK
  <2>5. CASE operationFiles[o] # None /\ operationFiles[o].status \notin Final
    <3>1. /\ operations'[o] # None
          /\ operations'[o].kind = operationFiles[o].kind
          /\ operations'[o].scenario = operationFiles[o].scenario
          /\ operations'[o].status = "failed"
      <4>1. "failed" \in Statuses
        BY DEF Statuses, Final
      <4>2. operationFiles[o] \in Operation
        BY <2>2, <2>5
      <4> DEFINE record == [operationFiles[o] EXCEPT !.status = "failed"]
      <4>3. /\ record \in Operation /\ record.kind = operationFiles[o].kind
            /\ record.scenario = operationFiles[o].scenario /\ record.status = "failed"
        BY <4>1, <4>2, RecordChanges
      <4>4. operations'[o] = record
        BY <1>2, <2>1, <2>5
      <4> HIDE DEF record
      <4> QED
        BY <4>3, <4>4, RecordAssumption
    <3> QED
      BY <1>1, <2>1, <2>5, <3>1
      DEF OperationOK, Known, CompletedBacktest, Active, BacktestSteps, RecordOK
  <2> QED
    BY <2>3, <2>4, <2>5
<1> QED
  BY <1>3, <1>4 DEF IInv

-----------------------------------------------------------------------------
LEMMA InitInv == Init => IInv
<1> SUFFICES ASSUME Init PROVE IInv
  OBVIOUS
<1>1. TypeOK
  BY ScenarioAssumption DEF Init, TypeOK, Steps
<1>2. ASSUME NEW o \in Ops PROVE OperationOK(o)
  BY DEF Init, OperationOK, Known, CompletedBacktest, Active, BacktestSteps
<1> QED
  BY <1>1, <1>2 DEF IInv

LEMMA StepInv ==
  ASSUME IInv, [Next]_vars
  PROVE  IInv'
<1>1. CASE UNCHANGED vars
  <2>1. TypeOK'
    BY <1>1 DEF IInv, TypeOK, vars
  <2> QED
    BY <1>1, <2>1, OthersKeep DEF IInv, Kept, vars
<1>2. ASSUME NEW s \in Scenarios, Define(s)
      PROVE  IInv'
  BY <1>2, DefineKeeps
<1>3. ASSUME NEW o \in Ops, StartAcquisition(o)
      PROVE  IInv'
  BY <1>3, StartOperationKeeps DEF StartAcquisition, Kinds
<1>4. ASSUME NEW o \in Ops, NEW s \in Scenarios, StartBacktest(o, s)
      PROVE  IInv'
  BY <1>4, StartOperationKeeps DEF StartBacktest, Kinds
<1>5. ASSUME NEW o \in Ops, CancelLook(o) \/ CancelSet(o)
      PROVE  IInv'
  BY <1>5, CancelKeeps
<1>6. ASSUME NEW o \in Ops, Step(o)
      PROVE  IInv'
  BY <1>6, BeginKeeps, LookKeeps, AcquireKeeps, ResolveConfigKeeps, FetchHistoryKeeps, EventKeeps,
     ProgressKeeps, PersistBeginKeeps, PersistEndKeeps, StoreResultKeeps, CompleteKeeps, HandleKeeps
  DEF Step
<1>7. CASE Restart
  BY <1>7, RestartKeeps
<1> QED
  BY <1>1, <1>2, <1>3, <1>4, <1>5, <1>6, <1>7 DEF Next

\* Every reachable state has its type.
THEOREM ScenarioTypeOK == Spec => []TypeOK
<1>1. IInv => TypeOK
  BY DEF IInv
<1> QED
  BY InitInv, StepInv, <1>1, PTL DEF Spec

\* A completed backtest has its result, in the table for the endpoints and on disk for
\* the next start, through any failed writes and restarts (_run, _load_operations).
THEOREM CompletedOperationsHaveResults == Spec => []CompletedHasResult
<1>1. IInv => CompletedHasResult
  BY DEF IInv, OperationOK, CompletedHasResult
<1> QED
  BY InitInv, StepInv, <1>1, PTL DEF Spec

\* No thread, canceller or restart replaces a final status in a file (_update, cancel):
\* there is no thread behind it any more, and its identity is not drawn again.
THEOREM DurableStatusesAreFinal == Spec => DurableStatusIsFinal
<1>1. ASSUME IInv, [Next]_vars, NEW o \in Ops,
             operationFiles[o] # None, operationFiles[o].status \in Final
      PROVE  operationFiles'[o] = operationFiles[o]
  <2>1. worker[o] = "none" /\ TypeOK
    BY <1>1 DEF IInv, OperationOK
  <2>2. ASSUME NEW p \in Ops, Step(p)
        PROVE  operationFiles'[o] = operationFiles[o]
    <3>1. p # o
      BY <2>1, <2>2
      DEF Step, Begin, Look, Acquire, ResolveConfig, FetchHistory, Event, Progress, PersistBegin,
          PersistEnd, StoreResult, Complete, Handle
    <3>2. ASSUME NEW record, NEW next, NEW raised, Update(p, record, next, raised)
          PROVE  operationFiles'[o] = operationFiles[o]
      BY <2>1, <3>1, <3>2 DEF Update, TypeOK
    <3>3. CASE Begin(p) \/ Complete(p) \/ Handle(p) \/ Progress(p)
      BY <3>2, <3>3 DEF Begin, Complete, Handle, Progress
    <3>4. CASE Look(p) \/ Acquire(p) \/ ResolveConfig(p) \/ FetchHistory(p) \/ Event(p)
      BY <3>4 DEF Look, Acquire, ResolveConfig, FetchHistory, Event, Move
    <3>5. CASE PersistBegin(p) \/ PersistEnd(p) \/ StoreResult(p)
      BY <3>5 DEF PersistBegin, PersistEnd, StoreResult
    <3> QED
      BY <2>2, <3>3, <3>4, <3>5 DEF Step
  <2>3. ASSUME NEW p \in Ops, NEW kind, NEW s, StartOperation(p, kind, s)
        PROVE  operationFiles'[o] = operationFiles[o]
    BY <1>1, <2>1, <2>3 DEF StartOperation, TypeOK
  <2>4. CASE \E s \in Scenarios : Define(s)
    BY <2>4 DEF Define
  <2>5. CASE \E p \in Ops : CancelLook(p) \/ CancelSet(p)
    BY <2>5 DEF CancelLook, CancelSet
  <2>6. CASE Restart \/ UNCHANGED vars
    BY <2>6 DEF Restart, vars
  <2> QED
    BY <1>1, <2>2, <2>3, <2>4, <2>5, <2>6 DEF Next, StartAcquisition, StartBacktest
<1>2. IInv /\ [Next]_vars =>
        [\A o \in Ops :
           operationFiles[o] # None /\ operationFiles[o].status \in Final =>
             operationFiles'[o] = operationFiles[o]]_vars
  BY <1>1
<1> QED
  BY InitInv, StepInv, <1>2, PTL DEF Spec, DurableStatusIsFinal
=============================================================================
