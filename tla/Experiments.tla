----------------------------- MODULE Experiments -----------------------------
(***************************************************************************)
(* The blind historical experiments of experiments/: an experiment is      *)
(* created, its context is built from what was available at its evaluation *)
(* time, its forecast is locked in the repository, and only then is the    *)
(* later market consulted.  Every step is saved; commands run in a lane of *)
(* bounded width (api/app.py), a process may crash between two saves and a *)
(* write may fail.                                                         *)
(*                                                                         *)
(* An experiment is named by its evaluation time, in bars: the rest of its *)
(* request is the same for all.  The forecast is a function of the         *)
(* context, so both are named by the provenance of the context, which      *)
(* differs from one build to the next.                                     *)
(***************************************************************************)
EXTENDS Integers, FiniteSets, Sequences

CONSTANTS
    Callers,        \* threads that carry out commands
    MaxLanes,       \* commands at once; the API admits one
    Contexts,       \* provenances a built context may have
    Warmup,         \* bars the agents require
    Horizon,        \* bars between the evaluation and its outcome
    LastClose,      \* the market closes bars at 1 .. LastClose
    MaxFaults,      \* crashes and failed writes
    None            \* Python's None, and the record that is not there

ASSUME ExperimentAssumption ==
    /\ IsFiniteSet(Callers) /\ Callers # {} /\ MaxLanes \in Nat \ {0} /\ MaxFaults \in Nat
    /\ Warmup \in Nat \ {0} /\ Horizon \in Nat \ {0} /\ LastClose \in Nat
    /\ None \notin Contexts

VARIABLES
    available,      \* bar close -> when it could be known, None if it is missing
    lanes,          \* how many commands may run at once
    records,        \* the repository: experiment -> its saved record
    caller,         \* caller -> what it is doing
    faults,         \* crashes and failed writes so far
    interrupted     \* history: experiments a fault left behind

vars == <<available, lanes, records, caller, faults, interrupted>>

Closes == 1 .. LastClose

\* Evaluation times whose context and horizon lie within the market's history.
Experiments == Warmup .. (LastClose - Horizon)

-----------------------------------------------------------------------------
(* The market, as the provider answers for a range and a cutoff.           *)

\* The bars (named by their close) opened in [start, end) and known at asOf.
Fetch(start, end, asOf) ==
    {k \in Closes : /\ start < k /\ k <= end
                    /\ available[k] # None
                    /\ available[k] <= asOf}

CoverageComplete(bars, start, end) == bars = (start + 1) .. end

ContextComplete(t) ==
    CoverageComplete(Fetch(t - Warmup, t, t), t - Warmup, t)

HorizonComplete(t) ==
    CoverageComplete(Fetch(t - 1, t + Horizon, t + Horizon), t - 1, t + Horizon)

\* Mutant: selection forgets that a bar of the context may be known too late.
EligibleWithoutCutoff(t, bars) ==
    /\ \A k \in (t - Warmup + 1) .. t : k \in bars
    /\ \A k \in (t + 1) .. (t + Horizon) : k \in bars /\ available[k] <= t + Horizon

\* What random selection may choose from: it looks at one history only, known
\* at the end of the whole range, and repeats the two cutoffs itself.
Eligible(t, bars) ==
    /\ \A k \in (t - Warmup + 1) .. t : k \in bars /\ available[k] <= t
    /\ \A k \in (t + 1) .. (t + Horizon) : k \in bars /\ available[k] <= t + Horizon

Candidates ==
    LET first == Warmup
        last == LastClose - Horizon
        bars == Fetch(first - Warmup, last + Horizon, last + Horizon)
    IN {t \in first .. last : t \in bars /\ Eligible(t, bars)}

-----------------------------------------------------------------------------
(* Records and their lifecycle.                                            *)

States == {"created", "context_ready", "forecasting", "forecast_locked",
           "evaluating", "complete", "failed"}
Terminal == {"complete", "failed"}
Errors == {"insufficient", "incomplete", "failed"}

\* The transitions of experiments/lifecycle.py.
Allowed(state) ==
    CASE state = "created"         -> {"context_ready", "failed"}
      [] state = "context_ready"   -> {"forecasting", "failed"}
      [] state = "forecasting"     -> {"forecast_locked", "failed"}
      [] state = "forecast_locked" -> {"evaluating", "failed"}
      [] state = "evaluating"      -> {"complete", "failed"}
      [] OTHER                     -> {}

Record == [lifecycle : Seq(States), context : Contexts \cup {None},
           forecast : Contexts \cup {None}, evaluation : Contexts \cup {None},
           outcome : {"complete", "incomplete", None}, error : Errors \cup {None}]

ASSUME RecordAssumption == None \notin Record \cup Errors

State(r) == r.lifecycle[Len(r.lifecycle)]

Created == [lifecycle |-> <<"created">>, context |-> None, forecast |-> None,
            evaluation |-> None, outcome |-> None, error |-> None]

\* transition: the record that follows.  Its callers guard it with Allowed.
Moved(r, state) == [r EXCEPT !.lifecycle = Append(@, state)]

Failed(r, error) == [Moved(r, "failed") EXCEPT !.error = error]

\* Mutant: a record without a forecast is let through.
ProtectedFromOthers(previous, current) ==
    previous # None /\ previous.forecast # None /\ current.forecast # None =>
        current.forecast = previous.forecast

\* Mutant: a forecast may be replaced, only not removed.
ProtectedFromRemoval(previous, current) ==
    previous # None /\ previous.forecast # None => current.forecast # None

\* The repository refuses to change a forecast it holds.
Protected(previous, current) ==
    previous # None /\ previous.forecast # None =>
        current.forecast = previous.forecast

-----------------------------------------------------------------------------
(* Callers.                                                                *)

Running == {"context", "forecasting", "lock", "reread", "evaluating", "oracle", "final"}
Steps == Running \cup {"idle", "lookup", "create", "read"}

Idle == [step |-> "idle", id |-> None, rest |-> <<>>, batch |-> FALSE, record |-> None]

Caller == [step : Steps, id : Experiments \cup {None}, rest : Seq(Experiments),
           batch : BOOLEAN, record : Record \cup {None}]

TypeOK ==
    /\ available \in [Closes -> (1 .. LastClose + 1) \cup {None}]
    /\ lanes \in 1 .. MaxLanes
    /\ records \in [Experiments -> Record \cup {None}]
    /\ caller \in [Callers -> Caller]
    /\ faults \in 0 .. MaxFaults
    /\ interrupted \subseteq Experiments

\* A bar is known at its close, one bar late, or never.
Init ==
    /\ available \in {a \in [Closes -> (1 .. LastClose + 1) \cup {None}] :
                        \A k \in Closes : a[k] \in {k, k + 1, None}}
    /\ lanes \in 1 .. MaxLanes
    /\ records = [i \in Experiments |-> None]
    /\ caller = [c \in Callers |-> Idle]
    /\ faults = 0
    /\ interrupted = {}

\* A command waits for a lane; create, run and run_random_batch begin.
Begin(c, step, items, batch) ==
    /\ caller[c].step = "idle"
    /\ Cardinality({d \in Callers : caller[d].step # "idle"}) < lanes
    /\ caller' = [caller EXCEPT ![c] =
         [Idle EXCEPT !.step = step, !.id = Head(items), !.rest = Tail(items), !.batch = batch]]
    /\ UNCHANGED <<available, lanes, records, faults, interrupted>>

CreateCommand(c, i) == Begin(c, "lookup", <<i>>, FALSE)
RunCommand(c, i) == Begin(c, "read", <<i>>, FALSE)

\* The seed orders the candidates: any order of any of them.
BatchCommand(c) ==
    \E n \in 1 .. Cardinality(Candidates) :
        \E items \in [1 .. n -> Candidates] :
            /\ \A j, k \in 1 .. n : items[j] = items[k] => j = k
            /\ Begin(c, "lookup", items, TRUE)

\* create has returned; a batch goes on to run the experiment.
AfterCreate(c) == IF caller[c].batch THEN [caller[c] EXCEPT !.step = "read"] ELSE Idle

\* run has returned; a batch goes on to its next experiment.
AfterRun(c) ==
    IF caller[c].rest = <<>> THEN Idle
    ELSE [Idle EXCEPT !.step = "lookup", !.id = Head(caller[c].rest),
                      !.rest = Tail(caller[c].rest), !.batch = TRUE]

\* Mutant: what is raised is passed on without the last save.
CaughtAndRaised(c, r, error) == Idle

\* run catches what is raised and has one more save to make.
Caught(c, r, error) ==
    [caller[c] EXCEPT !.step = "final", !.record = Failed(r, error)]

Move(c, next) ==
    /\ caller' = [caller EXCEPT ![c] = next]
    /\ UNCHANGED <<available, lanes, records, faults, interrupted>>

\* repository.save: the record is replaced whole or the call raises.
Save(c, r, next, raised) ==
    \/ /\ Protected(records[caller[c].id], r)
       /\ records' = [records EXCEPT ![caller[c].id] = r]
       /\ caller' = [caller EXCEPT ![c] = next]
       /\ UNCHANGED <<available, lanes, faults, interrupted>>
    \/ /\ ~Protected(records[caller[c].id], r)
       /\ Move(c, raised)
    \/ /\ faults < MaxFaults
       /\ faults' = faults + 1
       /\ interrupted' = IF caller[c].step = "final"
                           THEN interrupted \cup {caller[c].id} ELSE interrupted
       /\ caller' = [caller EXCEPT ![c] = raised]
       /\ UNCHANGED <<available, lanes, records>>

-----------------------------------------------------------------------------
(* create *)

\* Mutant: create saves a new record whatever the repository holds.
LookupIgnored(c) ==
    /\ caller[c].step = "lookup"
    /\ Move(c, [caller[c] EXCEPT !.step = "create"])

Lookup(c) ==
    /\ caller[c].step = "lookup"
    /\ Move(c, IF records[caller[c].id] = None
                 THEN [caller[c] EXCEPT !.step = "create"] ELSE AfterCreate(c))

SaveCreated(c) ==
    /\ caller[c].step = "create"
    /\ Save(c, Created, AfterCreate(c), Idle)

(* run *)

\* A finished experiment is returned as it is, one in progress is refused.
Read(c) ==
    /\ caller[c].step = "read"
    /\ LET r == records[caller[c].id] IN
       Move(c, IF r = None THEN Idle
               ELSE IF State(r) \in Terminal THEN AfterRun(c)
               ELSE IF State(r) # "created" THEN Idle
               ELSE [caller[c] EXCEPT !.step = "context", !.record = r])

\* Save the transition of the local record and go on, or be caught.
Advance(c, state, r, next) ==
    IF state \in Allowed(State(caller[c].record))
      THEN Save(c, r, [caller[c] EXCEPT !.step = next, !.record = r],
                Caught(c, r, "failed"))
      ELSE Move(c, Caught(c, caller[c].record, "failed"))

\* A provider or an agent that raises.
Raises(c) == Move(c, Caught(c, caller[c].record, "failed"))

BuildContext(c) ==
    /\ caller[c].step = "context"
    /\ \/ Raises(c)
       \/ /\ ~ContextComplete(caller[c].id)
          /\ Move(c, Caught(c, caller[c].record, "insufficient"))
       \/ /\ ContextComplete(caller[c].id)
          /\ \E v \in Contexts :
               Advance(c, "context_ready",
                       [Moved(caller[c].record, "context_ready") EXCEPT !.context = v],
                       "forecasting")

StartForecasting(c) ==
    /\ caller[c].step = "forecasting"
    /\ Advance(c, "forecasting", Moved(caller[c].record, "forecasting"), "lock")

LockForecast(c) ==
    /\ caller[c].step = "lock"
    /\ \/ Raises(c)
       \/ LET r == caller[c].record IN
          Advance(c, "forecast_locked",
                  [Moved(r, "forecast_locked") EXCEPT !.forecast = r.context], "reread")

\* The forecast is read back before the oracle may be asked.
Reread(c) ==
    /\ caller[c].step = "reread"
    /\ LET locked == records[caller[c].id] IN
       IF /\ locked.forecast = caller[c].record.forecast
          /\ State(locked) = "forecast_locked"
         THEN Move(c, [caller[c] EXCEPT !.step = "evaluating", !.record = locked])
         ELSE Raises(c)

StartEvaluating(c) ==
    /\ caller[c].step = "evaluating"
    /\ Advance(c, "evaluating", Moved(caller[c].record, "evaluating"), "oracle")

\* evaluate compares the outcome with the forecast of the record.
Evaluated(r) ==
    [Moved(r, "complete") EXCEPT !.outcome = "complete", !.evaluation = r.forecast]

\* oracle.outcome and evaluate; the result has yet to be saved.
ConsultOracle(c) ==
    /\ caller[c].step = "oracle"
    /\ LET r == caller[c].record
           result == IF HorizonComplete(caller[c].id)
                       THEN Evaluated(r)
                       ELSE [Failed(r, "incomplete") EXCEPT !.outcome = "incomplete"]
       IN \/ Raises(c)
          \/ Move(c, [caller[c] EXCEPT !.step = "final", !.record = result])

\* The last save is outside the try: what it raises, the caller gets.
SaveResult(c) ==
    /\ caller[c].step = "final"
    /\ Save(c, caller[c].record, AfterRun(c), Idle)

-----------------------------------------------------------------------------
\* The process dies; the repository's files stay.
Crash ==
    /\ faults < MaxFaults
    /\ faults' = faults + 1
    /\ interrupted' = interrupted \cup
         {caller[c].id : c \in {d \in Callers : caller[d].step \in Running}}
    /\ caller' = [c \in Callers |-> Idle]
    /\ UNCHANGED <<available, lanes, records>>

Command(c) == BatchCommand(c) \/ \E i \in Experiments : CreateCommand(c, i) \/ RunCommand(c, i)

Proceed(c) ==
    \/ Lookup(c) \/ SaveCreated(c) \/ Read(c)
    \/ BuildContext(c) \/ StartForecasting(c) \/ LockForecast(c) \/ Reread(c)
    \/ StartEvaluating(c) \/ ConsultOracle(c) \/ SaveResult(c)

Next == Crash \/ \E c \in Callers : Command(c) \/ Proceed(c)

Spec == Init /\ [][Next]_vars

-----------------------------------------------------------------------------
(* Properties.                                                             *)

\* Once a forecast is in the repository no command, no second run and no crash
\* changes it or takes it away (persistence.py: a locked forecast is immutable).
LockedForecastIsImmutable ==
    [][\A i \in Experiments :
         records[i] # None /\ records[i].forecast # None =>
            /\ records'[i] # None
            /\ records'[i].forecast = records[i].forecast]_vars

\* Nobody has seen an outcome without the very forecast it is compared with
\* being saved before and still there, and what is evaluated is that forecast
\* (docs/experiments.md, "Information boundary").
OutcomeFollowsLock ==
    /\ \A c \in Callers :
        caller[c].step = "final" /\ caller[c].record.outcome # None =>
            /\ records[caller[c].id].forecast # None
            /\ records[caller[c].id].forecast = caller[c].record.forecast
    /\ \A i \in Experiments :
        records[i] # None /\ records[i].evaluation # None =>
            records[i].evaluation = records[i].forecast

\* With one lane the saved lifecycle is only ever extended: a run never goes
\* back, an outcome is final and a second create does not start it over.
LifecycleOnlyExtends ==
    [][lanes = 1 =>
        \A i \in Experiments :
          records[i] # None =>
            /\ Len(records'[i].lifecycle) >= Len(records[i].lifecycle)
            /\ \A k \in 1 .. Len(records[i].lifecycle) :
                 records'[i].lifecycle[k] = records[i].lifecycle[k]
            /\ State(records[i]) \in Terminal => records'[i] = records[i]]_vars

\* An experiment that is in progress has somebody running it, however many run
\* it at once, unless a crash or a failed last write left it behind.
InProgressIsAttended ==
    \A i \in Experiments :
        records[i] # None /\ State(records[i]) \notin Terminal \cup {"created"} =>
            \/ i \in interrupted
            \/ \E c \in Callers : caller[c].step \in Running /\ caller[c].id = i

\* What random selection chooses has a complete context and a complete horizon
\* when it is run: its own cutoffs agree with those of the context builder and
\* of the oracle, which fetch other ranges with other cutoffs.
SelectionIsRunnable ==
    \A c \in Callers :
        caller[c].batch /\ caller[c].step = "final" =>
            caller[c].record.error \notin {"insufficient", "incomplete"}
=============================================================================
