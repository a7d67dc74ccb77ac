------------------------- MODULE Experiments_proofs -------------------------
(***************************************************************************)
(* The blindness of experiments for any number of callers and lanes, any   *)
(* market, any warmup and horizon, and any number of crashes and failed    *)
(* writes: a locked forecast stays as it is, and no outcome is seen before *)
(* its forecast is locked.                                                 *)
(*                                                                         *)
(* OutcomeFollowsLock is not inductive: that a caller may ask the oracle   *)
(* rests on what it has read back (Backed), and that the repository keeps  *)
(* it so rests on every other caller's record being refused (Protected).   *)
(* Nor is InProgressIsAttended, which RunInv strengthens by what a caller  *)
(* knows of the record behind its step, and with one lane LaneInv by who   *)
(* holds the lane and that a record it writes extends the stored one.      *)
(***************************************************************************)
EXTENDS Experiments, FiniteSetTheorems, TLAPS

\* A record has an outcome or an evaluation only at its end, and the
\* evaluation is that of its own forecast.
Sound(r) ==
    /\ r.outcome # None => State(r) \in Terminal
    /\ r.evaluation # None => State(r) \in Terminal /\ r.evaluation = r.forecast

Unmeasured(r) == r.outcome = None /\ r.evaluation = None

\* The forecast of a caller's record is the one the repository R holds.
Backed(s, R) ==
    /\ R[s.id] # None
    /\ s.record.forecast # None
    /\ R[s.id].forecast = s.record.forecast

\* What is true of a caller s while the repository is R.
CallerOK(s, R) ==
    /\ s \in Caller
    /\ s.step # "idle" => s.id \in Experiments
    /\ s.step \in Running => s.record \in Record /\ Sound(s.record)
    /\ s.step \in Running \ {"final"} => Unmeasured(s.record)
    /\ s.step \in {"forecasting", "lock"} => s.record.context # None
    /\ s.step = "reread" => s.record.forecast # None /\ R[s.id] # None
    /\ s.step \in {"evaluating", "oracle"} => Backed(s, R)
    /\ s.step = "final" /\ s.record.outcome # None => Backed(s, R)

RecordsOK(R) ==
    /\ R \in [Experiments -> Record \cup {None}]
    /\ \A i \in Experiments : R[i] # None => Sound(R[i])

IInv ==
    /\ TypeOK
    /\ RecordsOK(records)
    /\ \A c \in Callers : CallerOK(caller[c], records)

-----------------------------------------------------------------------------
\* transition appends its state to the lifecycle and changes nothing else.
LEMMA MovedFields ==
  ASSUME NEW r \in Record, NEW state \in States
  PROVE  /\ Moved(r, state) \in Record
         /\ State(Moved(r, state)) = state
         /\ Moved(r, state).context = r.context
         /\ Moved(r, state).forecast = r.forecast
         /\ Moved(r, state).outcome = r.outcome
         /\ Moved(r, state).evaluation = r.evaluation
         /\ Moved(r, state).error = r.error
<1>1. r.lifecycle \in Seq(States)
  BY DEF Record
<1>2. /\ Append(r.lifecycle, state) \in Seq(States)
      /\ Len(Append(r.lifecycle, state)) = Len(r.lifecycle) + 1
      /\ Append(r.lifecycle, state)[Len(r.lifecycle) + 1] = state
  BY <1>1
<1>3. Moved(r, state).lifecycle = Append(r.lifecycle, state)
  BY DEF Moved, Record
<1>4. State(Moved(r, state)) = state
  BY <1>2, <1>3 DEF State
<1>5. QED
  BY <1>2, <1>4 DEF Moved, Record

\* A record that fails before it is measured is sound and has no outcome.
LEMMA FailedFields ==
  ASSUME NEW r \in Record, NEW error \in Errors
  PROVE  /\ Failed(r, error) \in Record
         /\ State(Failed(r, error)) = "failed"
         /\ Failed(r, error).forecast = r.forecast
         /\ Failed(r, error).outcome = r.outcome
         /\ Failed(r, error).evaluation = r.evaluation
<1>1. "failed" \in States
  BY DEF States
<1>2. /\ Moved(r, "failed") \in Record
      /\ State(Moved(r, "failed")) = "failed"
      /\ Moved(r, "failed").forecast = r.forecast
      /\ Moved(r, "failed").outcome = r.outcome
      /\ Moved(r, "failed").evaluation = r.evaluation
  BY <1>1, MovedFields
<1>3. Failed(r, error).lifecycle = Moved(r, "failed").lifecycle
  BY <1>2 DEF Failed, Record
<1>4. QED
  BY <1>2, <1>3 DEF Failed, Record, State

\* A new record is well formed and unmeasured.
LEMMA CreatedIsSound == Created \in Record /\ Sound(Created)
<1>1. <<"created">> \in Seq(States)
  BY DEF States
<1>2. QED
  BY <1>1 DEF Created, Record, Sound, State

\* Leaving is always in order, and so is what a batch goes on with.
LEMMA LeavingIsFine ==
  ASSUME NEW R
  PROVE  CallerOK(Idle, R)
<1>1. <<>> \in Seq(Experiments)
  OBVIOUS
<1>2. QED
  BY <1>1 DEF CallerOK, Idle, Caller, Steps, Running

LEMMA AfterCallIsFine ==
  ASSUME NEW R, NEW c \in Callers, CallerOK(caller[c], R), caller[c].step # "idle"
  PROVE  CallerOK(AfterCreate(c), R) /\ CallerOK(AfterRun(c), R)
<1>1. /\ caller[c] \in Caller
      /\ caller[c].id \in Experiments
      /\ caller[c].rest \in Seq(Experiments)
  BY DEF CallerOK, Caller
<1>2. CallerOK(AfterCreate(c), R)
  BY <1>1, LeavingIsFine DEF AfterCreate, CallerOK, Caller, Steps, Running
<1>3. CallerOK(AfterRun(c), R)
  <2>1. CASE caller[c].rest = <<>>
    BY <2>1, LeavingIsFine DEF AfterRun
  <2>2. CASE caller[c].rest # <<>>
    <3>1. Head(caller[c].rest) \in Experiments /\ Tail(caller[c].rest) \in Seq(Experiments)
      BY <1>1, <2>2
    <3>2. AfterRun(c) = [step |-> "lookup", id |-> Head(caller[c].rest),
                         rest |-> Tail(caller[c].rest), batch |-> TRUE, record |-> None]
      BY <2>2 DEF AfterRun, Idle
    <3>3. QED
      BY <3>1, <3>2 DEF CallerOK, Caller, Steps, Running
  <2>3. QED
    BY <2>1, <2>2
<1>4. QED
  BY <1>2, <1>3

-----------------------------------------------------------------------------
\* The heart of the argument: saving a record the repository does not refuse
\* leaves every caller with what it had read back.
LEMMA SaveKeepsBacking ==
  ASSUME NEW R \in [Experiments -> Record \cup {None}], NEW i \in Experiments,
         NEW r \in Record, Protected(R[i], r),
         NEW s, CallerOK(s, R)
  PROVE  CallerOK(s, [R EXCEPT ![i] = r])
<1> DEFINE S == [R EXCEPT ![i] = r]
<1>1. S[i] = r /\ S[i] # None
  BY RecordAssumption
<1>2. \A j \in Experiments \ {i} : S[j] = R[j]
  OBVIOUS
<1>3. ASSUME s.id \in Experiments, Backed(s, R)
      PROVE  Backed(s, S)
  <2>1. CASE s.id = i
    <3>1. r.forecast = R[i].forecast
      BY <1>3, <2>1 DEF Backed, Protected
    <3>2. QED
      BY <1>1, <1>3, <2>1, <3>1 DEF Backed
  <2>2. CASE s.id # i
    BY <1>2, <1>3, <2>2 DEF Backed
  <2>3. QED
    BY <2>1, <2>2
<1>4. s.step \in {"evaluating", "oracle"} => Backed(s, S)
  BY <1>3 DEF CallerOK
<1>5. s.step = "final" /\ s.record.outcome # None => Backed(s, S)
  BY <1>3 DEF CallerOK
<1>6. s.step = "reread" => S[s.id] # None
  <2>1. s.step = "reread" => s.id \in Experiments /\ R[s.id] # None
    BY DEF CallerOK
  <2>2. QED
    BY <1>1, <1>2, <2>1
<1>7. QED
  BY <1>4, <1>5, <1>6 DEF CallerOK

\* A step of one caller that leaves the repository alone.
LEMMA MoveStep ==
  ASSUME IInv, NEW c \in Callers, NEW next, CallerOK(next, records), Move(c, next)
  PROVE  IInv'
<1>1. /\ caller' = [caller EXCEPT ![c] = next]
      /\ UNCHANGED <<available, lanes, records, faults, interrupted>>
  BY DEF Move
<1>2. /\ next \in Caller
      /\ caller \in [Callers -> Caller]
  BY DEF CallerOK, IInv, TypeOK
<1>3. TypeOK'
  BY <1>1, <1>2 DEF IInv, TypeOK
<1>4. RecordsOK(records)'
  BY <1>1 DEF IInv, RecordsOK
<1>5. ASSUME NEW d \in Callers PROVE CallerOK(caller[d], records)'
  <2>1. caller'[d] = IF d = c THEN next ELSE caller[d]
    BY <1>1, <1>2
  <2>2. CallerOK(caller'[d], records)
    BY <2>1 DEF IInv
  <2>3. QED
    BY <1>1, <2>2
<1>6. QED
  BY <1>3, <1>4, <1>5 DEF IInv

\* A save, whether it succeeds, is refused or fails.
LEMMA SaveStep ==
  ASSUME IInv, NEW c \in Callers, caller[c].id \in Experiments,
         NEW r \in Record, Sound(r), NEW next, NEW raised,
         CallerOK(next, [records EXCEPT ![caller[c].id] = r]),
         CallerOK(raised, records),
         Save(c, r, next, raised)
  PROVE  IInv'
<1> DEFINE i == caller[c].id
           R == [records EXCEPT ![i] = r]
<1>1. /\ records \in [Experiments -> Record \cup {None}]
      /\ caller \in [Callers -> Caller]
      /\ next \in Caller /\ raised \in Caller
  BY DEF CallerOK, IInv, TypeOK
<1>2. CASE /\ Protected(records[i], r)
           /\ records' = R
           /\ caller' = [caller EXCEPT ![c] = next]
           /\ UNCHANGED <<available, lanes, faults, interrupted>>
  <2>1. TypeOK'
    BY <1>1, <1>2 DEF IInv, TypeOK
  <2>2. RecordsOK(records)'
    BY <1>1, <1>2 DEF IInv, RecordsOK
  <2>3. ASSUME NEW d \in Callers PROVE CallerOK(caller[d], records)'
    <3>1. CallerOK(caller[d], records)
      BY DEF IInv
    <3>2. CallerOK(caller[d], R)
      BY <1>1, <1>2, <3>1, SaveKeepsBacking
    <3>3. caller'[d] = IF d = c THEN next ELSE caller[d]
      BY <1>1, <1>2
    <3>4. CallerOK(caller'[d], R)
      BY <3>2, <3>3
    <3>5. QED
      BY <1>2, <3>4
  <2>4. QED
    BY <2>1, <2>2, <2>3 DEF IInv
<1>3. CASE Move(c, raised)
  BY <1>3, MoveStep
<1>4. CASE /\ faults < MaxFaults
           /\ faults' = faults + 1
           /\ interrupted' = IF caller[c].step = "final"
                               THEN interrupted \cup {i} ELSE interrupted
           /\ caller' = [caller EXCEPT ![c] = raised]
           /\ UNCHANGED <<available, lanes, records>>
  <2>1. faults' \in 0 .. MaxFaults
    BY <1>4, ExperimentAssumption DEF IInv, TypeOK
  <2>2. interrupted' \subseteq Experiments
    BY <1>4 DEF IInv, TypeOK
  <2>3. TypeOK'
    BY <1>1, <1>4, <2>1, <2>2 DEF IInv, TypeOK
  <2>4. RecordsOK(records)'
    BY <1>4 DEF IInv, RecordsOK
  <2>5. ASSUME NEW d \in Callers PROVE CallerOK(caller[d], records)'
    <3>1. caller'[d] = IF d = c THEN raised ELSE caller[d]
      BY <1>1, <1>4
    <3>2. CallerOK(caller'[d], records)
      BY <3>1 DEF IInv
    <3>3. QED
      BY <1>4, <3>2
  <2>6. QED
    BY <2>3, <2>4, <2>5 DEF IInv
<1>5. QED
  BY <1>2, <1>3, <1>4 DEF Save

\* run catches what is raised: its last record is sound and has no outcome.
LEMMA CaughtIsFine ==
  ASSUME IInv, NEW R, NEW c \in Callers, caller[c].id \in Experiments,
         NEW r \in Record, Unmeasured(r), NEW error \in Errors
  PROVE  CallerOK(Caught(c, r, error), R)
<1>1. /\ Failed(r, error) \in Record
      /\ State(Failed(r, error)) = "failed"
      /\ Failed(r, error).outcome = None
      /\ Failed(r, error).evaluation = None
  BY FailedFields DEF Unmeasured
<1>2. caller[c] \in Caller
  BY DEF IInv, TypeOK
<1>3. /\ Caught(c, r, error) \in Caller
      /\ Caught(c, r, error).step = "final"
      /\ Caught(c, r, error).id = caller[c].id
      /\ Caught(c, r, error).record = Failed(r, error)
  BY <1>1, <1>2 DEF Caught, Caller, Steps, Running
<1>4. Sound(Failed(r, error))
  BY <1>1 DEF Sound, Terminal
<1>5. QED
  BY <1>1, <1>3, <1>4 DEF CallerOK, Running

\* Advance, for a record that stays unmeasured.
LEMMA AdvanceStep ==
  ASSUME IInv, NEW c \in Callers, caller[c].step \in Running \ {"final"},
         NEW state, NEW r \in Record, Unmeasured(r),
         NEW step \in Running \ {"final"}, 
         step \in {"forecasting", "lock"} => r.context # None,
         step \in {"reread", "oracle"} => r.forecast # None,
         step # "evaluating",
         Advance(c, state, r, step)
  PROVE  IInv'
<1> DEFINE i == caller[c].id
           R == [records EXCEPT ![i] = r]
           next == [caller[c] EXCEPT !.step = step, !.record = r]
<1>1. /\ caller[c] \in Caller
      /\ i \in Experiments
      /\ caller[c].record \in Record /\ Unmeasured(caller[c].record)
      /\ records \in [Experiments -> Record \cup {None}]
  BY DEF IInv, TypeOK, CallerOK, Steps, Running
<1>2. "failed" \in Errors
  BY DEF Errors
<1>3. CASE Move(c, Caught(c, caller[c].record, "failed"))
  BY <1>1, <1>2, <1>3, CaughtIsFine, MoveStep
<1>4. CASE Save(c, r, next, Caught(c, r, "failed"))
  <2>1. CallerOK(Caught(c, r, "failed"), records)
    BY <1>1, <1>2, CaughtIsFine
  <2>2. Sound(r)
    BY DEF Sound, Unmeasured
  <2>3. /\ next \in Caller
        /\ next.step = step /\ next.id = i /\ next.record = r
    BY <1>1 DEF Caller, Steps
  <2>4. step = "oracle" => Backed(next, R)
    BY <1>1, <2>3, RecordAssumption DEF Backed
  <2>5. R[next.id] # None
    BY <1>1, <2>3, RecordAssumption
  <2>6. CallerOK(next, R)
    BY <1>1, <2>2, <2>3, <2>4, <2>5 DEF CallerOK
  <2>7. QED
    BY <1>1, <1>4, <2>1, <2>2, <2>6, SaveStep
<1>5. QED
  BY <1>3, <1>4 DEF Advance

-----------------------------------------------------------------------------
\* A command that begins has an experiment to begin with.
LEMMA BeginStep ==
  ASSUME IInv, NEW c \in Callers, NEW step \in {"lookup", "read"},
         NEW items \in Seq(Experiments), items # <<>>, NEW batch \in BOOLEAN,
         Begin(c, step, items, batch)
  PROVE  IInv'
<1> DEFINE next == [Idle EXCEPT !.step = step, !.id = Head(items),
                                !.rest = Tail(items), !.batch = batch]
<1>1. Head(items) \in Experiments /\ Tail(items) \in Seq(Experiments)
  OBVIOUS
<1>2. /\ next \in Caller
      /\ next.step = step /\ next.id = Head(items)
  <2>1. Idle \in Caller
    BY LeavingIsFine DEF CallerOK
  <2>2. step \in Steps
    BY DEF Steps
  <2>3. QED
    BY <1>1, <2>1, <2>2 DEF Caller
<1>3. CallerOK(next, records)
  BY <1>1, <1>2 DEF CallerOK, Running
<1>4. Move(c, next)
  BY DEF Begin, Move
<1>5. QED
  BY <1>3, <1>4, MoveStep

\* There are finitely many candidates to choose among.
LEMMA CandidatesAreFinite ==
  /\ Candidates \subseteq Experiments
  /\ Cardinality(Candidates) \in Nat
<1>1. Candidates \subseteq Experiments
  BY DEF Candidates, Experiments
<1>2. LastClose - Horizon \in Int /\ Warmup \in Int
  BY ExperimentAssumption
<1>3. IsFiniteSet(Experiments)
  BY <1>2, FS_Interval DEF Experiments
<1>4. QED
  BY <1>1, <1>3, FS_Subset, FS_CardinalityType

LEMMA CommandStep ==
  ASSUME IInv, NEW c \in Callers, Command(c)
  PROVE  IInv'
<1>1. ASSUME NEW i \in Experiments, CreateCommand(c, i) \/ RunCommand(c, i)
      PROVE  IInv'
  <2>1. <<i>> \in Seq(Experiments) /\ <<i>> # <<>>
    OBVIOUS
  <2>2. QED
    BY <1>1, <2>1, BeginStep DEF CreateCommand, RunCommand
<1>2. CASE BatchCommand(c)
  <2>1. PICK n \in 1 .. Cardinality(Candidates) :
          \E items \in [1 .. n -> Candidates] : Begin(c, "lookup", items, TRUE)
    BY <1>2 DEF BatchCommand
  <2>2. n \in Nat /\ n >= 1
    BY <2>1, CandidatesAreFinite
  <2>3. PICK items \in [1 .. n -> Candidates] : Begin(c, "lookup", items, TRUE)
    BY <2>1
  <2>4. items \in Seq(Experiments) /\ Len(items) = n
    BY <2>2, CandidatesAreFinite
  <2>5. items # <<>>
    BY <2>2, <2>4
  <2>6. QED
    BY <2>3, <2>4, <2>5, BeginStep
<1>3. QED
  BY <1>1, <1>2 DEF Command

LEMMA CreateStep ==
  ASSUME IInv, NEW c \in Callers, Lookup(c) \/ SaveCreated(c)
  PROVE  IInv'
<1>1. CallerOK(caller[c], records) /\ caller[c] \in Caller
  BY DEF IInv, CallerOK
<1>2. caller[c].step # "idle" /\ caller[c].id \in Experiments
  BY <1>1 DEF Lookup, SaveCreated, CallerOK
<1>3. CASE Lookup(c)
  <2>1. CallerOK([caller[c] EXCEPT !.step = "create"], records)
    BY <1>1, <1>2 DEF CallerOK, Caller, Steps, Running
  <2>2. CallerOK(AfterCreate(c), records)
    BY <1>1, <1>2, AfterCallIsFine
  <2>3. QED
    BY <1>3, <2>1, <2>2, MoveStep DEF Lookup
<1>4. CASE SaveCreated(c)
  <2> DEFINE R == [records EXCEPT ![caller[c].id] = Created]
  <2>1. CallerOK(caller[c], R)
    BY <1>1, <1>4 DEF CallerOK, SaveCreated, Running
  <2>2. CallerOK(AfterCreate(c), R)
    BY <1>2, <2>1, AfterCallIsFine
  <2>3. QED
    BY <1>2, <1>4, <2>2, CreatedIsSound, LeavingIsFine, SaveStep DEF SaveCreated
<1>5. QED
  BY <1>3, <1>4

\* run reads a created record, which has not been measured.
LEMMA ReadStep ==
  ASSUME IInv, NEW c \in Callers, Read(c)
  PROVE  IInv'
<1> DEFINE r == records[caller[c].id]
           next == [caller[c] EXCEPT !.step = "context", !.record = r]
<1>1. CallerOK(caller[c], records) /\ caller[c] \in Caller
  BY DEF IInv, CallerOK
<1>2. caller[c].step # "idle" /\ caller[c].id \in Experiments
  BY <1>1 DEF Read, CallerOK
<1>3. CallerOK(Idle, records) /\ CallerOK(AfterRun(c), records)
  BY <1>1, <1>2, AfterCallIsFine, LeavingIsFine
<1>4. ASSUME r # None, State(r) = "created"
      PROVE  CallerOK(next, records)
  <2>1. r \in Record /\ Sound(r)
    BY <1>2, <1>4 DEF IInv, RecordsOK
  <2>2. Unmeasured(r)
    BY <1>4, <2>1 DEF Sound, Unmeasured, Terminal
  <2>3. /\ next \in Caller /\ next.step = "context"
        /\ next.id = caller[c].id /\ next.record = r
    BY <1>1, <2>1 DEF Caller, Steps, Running
  <2>4. QED
    BY <1>2, <2>1, <2>2, <2>3 DEF CallerOK, Running
<1>5. QED
  BY <1>3, <1>4, MoveStep DEF Read

\* What a running caller holds.
LEMMA RunningFacts ==
  ASSUME IInv, NEW c \in Callers, caller[c].step \in Running \ {"final"}
  PROVE  /\ caller[c] \in Caller
         /\ caller[c].id \in Experiments
         /\ caller[c].record \in Record
         /\ Unmeasured(caller[c].record)
         /\ CallerOK(Caught(c, caller[c].record, "failed"), records)
<1>1. CallerOK(caller[c], records)
  BY DEF IInv
<1>2. /\ caller[c] \in Caller
      /\ caller[c].id \in Experiments
      /\ caller[c].record \in Record
      /\ Unmeasured(caller[c].record)
  BY <1>1 DEF CallerOK, Running
<1>3. QED
  BY <1>2, CaughtIsFine DEF Errors

LEMMA ContextStep ==
  ASSUME IInv, NEW c \in Callers, BuildContext(c) \/ StartForecasting(c)
  PROVE  IInv'
<1> DEFINE r == caller[c].record
<1>1. caller[c].step \in Running \ {"final"}
  BY DEF BuildContext, StartForecasting, Running
<1>2. /\ r \in Record /\ Unmeasured(r)
      /\ caller[c].id \in Experiments
      /\ CallerOK(Caught(c, r, "failed"), records)
  BY <1>1, RunningFacts
<1>3. {"context_ready", "forecasting"} \subseteq States
  BY DEF States
<1>4. CASE Raises(c)
  BY <1>2, <1>4, MoveStep DEF Raises
<1>5. CASE Move(c, Caught(c, r, "insufficient"))
  BY <1>2, <1>5, CaughtIsFine, MoveStep DEF Errors
<1>6. ASSUME NEW v \in Contexts,
             Advance(c, "context_ready",
                     [Moved(r, "context_ready") EXCEPT !.context = v], "forecasting")
      PROVE  IInv'
  <2> DEFINE m == Moved(r, "context_ready")
             q == [m EXCEPT !.context = v]
  <2>1. m \in Record /\ Unmeasured(m)
    BY <1>2, <1>3, MovedFields DEF Unmeasured
  <2>2. q \in Record /\ Unmeasured(q) /\ q.context # None
    BY <2>1, ExperimentAssumption DEF Record, Unmeasured
  <2>3. "forecasting" \in Running \ {"final"}
    BY DEF Running
  <2>4. QED
    BY <1>1, <1>6, <2>2, <2>3, AdvanceStep
<1>7. CASE StartForecasting(c)
  <2>1. r.context # None
    BY <1>7 DEF IInv, CallerOK, StartForecasting
  <2>2. /\ Moved(r, "forecasting") \in Record
        /\ Unmeasured(Moved(r, "forecasting"))
        /\ Moved(r, "forecasting").context # None
    BY <1>2, <1>3, <2>1, MovedFields DEF Unmeasured
  <2>3. "lock" \in Running \ {"final"}
    BY DEF Running
  <2>4. QED
    BY <1>1, <1>7, <2>2, <2>3, AdvanceStep DEF StartForecasting
<1>8. QED
  BY <1>4, <1>5, <1>6, <1>7 DEF BuildContext

\* The forecast is locked and then read back: only what the repository holds
\* goes on to the oracle.
LEMMA LockStep ==
  ASSUME IInv, NEW c \in Callers, LockForecast(c) \/ Reread(c)
  PROVE  IInv'
<1> DEFINE r == caller[c].record
<1>1. caller[c].step \in Running \ {"final"}
  BY DEF LockForecast, Reread, Running
<1>2. /\ caller[c] \in Caller
      /\ r \in Record /\ Unmeasured(r)
      /\ caller[c].id \in Experiments
      /\ CallerOK(Caught(c, r, "failed"), records)
  BY <1>1, RunningFacts
<1>3. CASE Raises(c)
  BY <1>2, <1>3, MoveStep DEF Raises
<1>4. CASE LockForecast(c)
  <2> DEFINE m == Moved(r, "forecast_locked")
             q == [m EXCEPT !.forecast = r.context]
  <2>1. r.context # None /\ r.context \in Contexts \cup {None}
    BY <1>2, <1>4 DEF IInv, CallerOK, LockForecast, Record
  <2>2. m \in Record /\ Unmeasured(m)
    BY <1>2, MovedFields DEF Unmeasured, States
  <2>3. q \in Record /\ Unmeasured(q) /\ q.forecast # None
    BY <2>1, <2>2 DEF Record, Unmeasured
  <2>4. "reread" \in Running \ {"final"}
    BY DEF Running
  <2>5. CASE Advance(c, "forecast_locked", q, "reread")
    BY <1>1, <2>3, <2>4, <2>5, AdvanceStep
  <2>6. QED
    BY <1>3, <1>4, <2>5 DEF LockForecast
<1>5. CASE Reread(c)
  <2> DEFINE locked == records[caller[c].id]
             next == [caller[c] EXCEPT !.step = "evaluating", !.record = locked]
  <2>1. ASSUME locked.forecast = r.forecast, State(locked) = "forecast_locked",
               Move(c, next)
        PROVE  IInv'
    <3>1. r.forecast # None
      BY <1>5 DEF IInv, CallerOK, Reread
    <3>2. locked # None
      BY <1>5 DEF IInv, CallerOK, Reread
    <3>3. locked \in Record /\ Sound(locked)
      BY <1>2, <3>2 DEF IInv, RecordsOK
    <3>4. Unmeasured(locked)
      BY <2>1, <3>3 DEF Sound, Unmeasured, Terminal
    <3>5. /\ next \in Caller /\ next.step = "evaluating"
          /\ next.id = caller[c].id /\ next.record = locked
      BY <1>2, <3>3 DEF Caller, Steps, Running
    <3>6. Backed(next, records)
      BY <2>1, <3>1, <3>2, <3>5 DEF Backed
    <3>7. CallerOK(next, records)
      BY <1>2, <3>3, <3>4, <3>5, <3>6 DEF CallerOK, Running
    <3>8. QED
      BY <2>1, <3>7, MoveStep
  <2>2. QED
    BY <1>3, <1>5, <2>1 DEF Reread
<1>6. QED
  BY <1>4, <1>5

LEMMA EvaluateStep ==
  ASSUME IInv, NEW c \in Callers, StartEvaluating(c) \/ ConsultOracle(c)
  PROVE  IInv'
<1> DEFINE r == caller[c].record
<1>1. caller[c].step \in Running \ {"final"}
  BY DEF StartEvaluating, ConsultOracle, Running
<1>2. /\ caller[c] \in Caller
      /\ r \in Record /\ Unmeasured(r)
      /\ caller[c].id \in Experiments
      /\ CallerOK(Caught(c, r, "failed"), records)
  BY <1>1, RunningFacts
<1>3. Backed(caller[c], records)
  BY DEF IInv, CallerOK, StartEvaluating, ConsultOracle
<1>4. CASE StartEvaluating(c)
  <2>1. /\ Moved(r, "evaluating") \in Record
        /\ Unmeasured(Moved(r, "evaluating"))
        /\ Moved(r, "evaluating").forecast # None
    BY <1>2, <1>3, MovedFields DEF Unmeasured, States, Backed
  <2>2. "oracle" \in Running \ {"final"}
    BY DEF Running
  <2>3. QED
    BY <1>1, <1>4, <2>1, <2>2, AdvanceStep DEF StartEvaluating
<1>5. ASSUME NEW q \in Record, Sound(q), q.forecast = r.forecast,
             Move(c, [caller[c] EXCEPT !.step = "final", !.record = q])
      PROVE  IInv'
  <2> DEFINE next == [caller[c] EXCEPT !.step = "final", !.record = q]
  <2>1. /\ next \in Caller /\ next.step = "final"
        /\ next.id = caller[c].id /\ next.record = q
    BY <1>2, <1>5 DEF Caller, Steps, Running
  <2>2. Backed(next, records)
    BY <1>3, <1>5, <2>1 DEF Backed
  <2>3. CallerOK(next, records)
    BY <1>2, <1>5, <2>1, <2>2 DEF CallerOK, Running
  <2>4. QED
    BY <1>5, <2>3, MoveStep
<1>6. CASE ConsultOracle(c)
  <2> DEFINE m == Moved(r, "complete")
             complete == Evaluated(r)
             f == Failed(r, "incomplete")
             incomplete == [f EXCEPT !.outcome = "incomplete"]
  <2>1. complete \in Record /\ Sound(complete) /\ complete.forecast = r.forecast
    <3>1. /\ m \in Record /\ State(m) = "complete" /\ m.forecast = r.forecast
      BY <1>2, MovedFields DEF States
    <3>2. r.forecast \in Contexts \cup {None}
      BY <1>2 DEF Record
    <3>3. /\ complete \in Record
          /\ complete.lifecycle = m.lifecycle
          /\ complete.forecast = r.forecast
          /\ complete.evaluation = r.forecast
      BY <3>1, <3>2 DEF Evaluated, Record
    <3>4. State(complete) = "complete"
      BY <3>1, <3>3 DEF State
    <3>5. QED
      BY <3>3, <3>4 DEF Sound, Terminal
  <2>2. incomplete \in Record /\ Sound(incomplete) /\ incomplete.forecast = r.forecast
    <3>1. /\ f \in Record /\ State(f) = "failed" /\ f.forecast = r.forecast
          /\ f.evaluation = None
      BY <1>2, FailedFields DEF Errors, Unmeasured
    <3>2. /\ incomplete \in Record
          /\ incomplete.lifecycle = f.lifecycle
          /\ incomplete.forecast = r.forecast
          /\ incomplete.evaluation = None
      BY <3>1 DEF Record
    <3>3. State(incomplete) = "failed"
      BY <3>1, <3>2 DEF State
    <3>4. QED
      BY <3>2, <3>3 DEF Sound, Terminal
  <2>3. CASE Raises(c)
    BY <1>2, <2>3, MoveStep DEF Raises
  <2>4. CASE HorizonComplete(caller[c].id)
    BY <1>5, <1>6, <2>1, <2>3, <2>4 DEF ConsultOracle
  <2>5. CASE ~HorizonComplete(caller[c].id)
    BY <1>5, <1>6, <2>2, <2>3, <2>5 DEF ConsultOracle
  <2>6. QED
    BY <2>4, <2>5
<1>7. QED
  BY <1>4, <1>6

LEMMA ResultStep ==
  ASSUME IInv, NEW c \in Callers, SaveResult(c)
  PROVE  IInv'
<1> DEFINE r == caller[c].record
           R == [records EXCEPT ![caller[c].id] = r]
<1>1. CallerOK(caller[c], records) /\ caller[c].step = "final"
  BY DEF IInv, SaveResult
<1>2. /\ caller[c].id \in Experiments
      /\ r \in Record /\ Sound(r)
      /\ records \in [Experiments -> Record \cup {None}]
  BY <1>1 DEF CallerOK, Running, IInv, TypeOK
<1>3. CallerOK(AfterRun(c), R)
  <2>1. r.outcome # None => Backed(caller[c], R)
    <3>1. R[caller[c].id] = r /\ r # None
      BY <1>2, RecordAssumption
    <3>2. r.outcome # None => r.forecast # None
      BY <1>1 DEF CallerOK, Backed
    <3>3. QED
      BY <3>1, <3>2 DEF Backed
  <2>2. CallerOK(caller[c], R)
    BY <1>1, <2>1 DEF CallerOK
  <2>3. QED
    BY <1>1, <2>2, AfterCallIsFine
<1>4. QED
  BY <1>2, <1>3, LeavingIsFine, SaveStep DEF SaveResult

\* After a crash nobody runs anything and the repository is what it was.
LEMMA CrashStep ==
  ASSUME IInv, Crash
  PROVE  IInv'
<1>1. faults' \in 0 .. MaxFaults
  BY ExperimentAssumption DEF IInv, TypeOK, Crash
<1>2. interrupted' \subseteq Experiments
  <2>1. \A c \in Callers : caller[c].step \in Running => caller[c].id \in Experiments
    BY DEF IInv, CallerOK, Running
  <2>2. QED
    BY <2>1 DEF IInv, TypeOK, Crash
<1>3. \A c \in Callers : CallerOK(caller'[c], records)
  BY LeavingIsFine DEF Crash
<1>4. caller' \in [Callers -> Caller]
  BY <1>3 DEF Crash, CallerOK
<1>5. TypeOK'
  BY <1>1, <1>2, <1>4 DEF IInv, TypeOK, Crash
<1>6. RecordsOK(records)'
  BY DEF IInv, RecordsOK, Crash
<1>7. \A c \in Callers : CallerOK(caller[c], records)'
  BY <1>3 DEF Crash
<1>8. QED
  BY <1>5, <1>6, <1>7 DEF IInv

LEMMA InitStep ==
  ASSUME Init
  PROVE  IInv
<1>1. TypeOK
  <2>1. faults \in 0 .. MaxFaults
    BY ExperimentAssumption DEF Init
  <2>2. Idle \in Caller
    BY LeavingIsFine DEF CallerOK
  <2>3. QED
    BY <2>1, <2>2 DEF Init, TypeOK
<1>2. RecordsOK(records)
  BY DEF Init, RecordsOK
<1>3. \A c \in Callers : CallerOK(caller[c], records)
  BY LeavingIsFine DEF Init
<1>4. QED
  BY <1>1, <1>2, <1>3 DEF IInv

\* The inductive invariant holds in every reachable state.
THEOREM ExperimentInvariant == Spec => []IInv
<1>1. IInv /\ [Next]_vars => IInv'
  <2> SUFFICES ASSUME IInv, [Next]_vars PROVE IInv'
    OBVIOUS
  <2>1. CASE Crash
    BY <2>1, CrashStep
  <2>2. ASSUME NEW c \in Callers, Command(c) PROVE IInv'
    BY <2>2, CommandStep
  <2>3. ASSUME NEW c \in Callers, Proceed(c) PROVE IInv'
    BY <2>3, CreateStep, ReadStep, ContextStep, LockStep, EvaluateStep, ResultStep
    DEF Proceed
  <2>4. CASE UNCHANGED vars
    <3>1. UNCHANGED <<available, lanes, records, caller, faults, interrupted>>
      BY <2>4 DEF vars
    <3>2. TypeOK'
      BY <3>1 DEF IInv, TypeOK
    <3>3. RecordsOK(records)'
      BY <3>1 DEF IInv, RecordsOK
    <3>4. \A c \in Callers : CallerOK(caller[c], records)'
      BY <3>1 DEF IInv
    <3>5. QED
      BY <3>2, <3>3, <3>4 DEF IInv
  <2>5. QED
    BY <2>1, <2>2, <2>3, <2>4 DEF Next
<1>2. QED
  BY <1>1, InitStep, PTL DEF Spec

\* TypeOK, for any callers, market and faults.
THEOREM ExperimentTypeOK == Spec => []TypeOK
<1>1. IInv => TypeOK
  BY DEF IInv
<1>2. QED
  BY <1>1, ExperimentInvariant, PTL

\* OutcomeFollowsLock: nobody has seen an outcome without the forecast it is
\* compared with being saved before and still there, for any number of callers
\* at once and wherever a process dies.
THEOREM OutcomesFollowLocks == Spec => []OutcomeFollowsLock
<1>1. IInv => OutcomeFollowsLock
  BY DEF IInv, CallerOK, RecordsOK, Backed, Sound, OutcomeFollowsLock, Running
<1>2. QED
  BY <1>1, ExperimentInvariant, PTL

\* LockedForecastIsImmutable: no step of any caller, and no crash, changes or
\* removes a forecast the repository holds.
THEOREM ForecastsAreImmutable == Spec => LockedForecastIsImmutable
<1> DEFINE Kept == \A i \in Experiments :
              records[i] # None /\ records[i].forecast # None =>
                 /\ records'[i] # None
                 /\ records'[i].forecast = records[i].forecast
<1>1. ASSUME IInv, NEW c \in Callers, caller[c].id \in Experiments, NEW r \in Record,
             NEW next, NEW raised, Save(c, r, next, raised)
      PROVE  Kept
  <2>1. records \in [Experiments -> Record \cup {None}]
    BY <1>1 DEF IInv, TypeOK
  <2>2. CASE records' = records
    BY <2>2
  <2>3. CASE /\ Protected(records[caller[c].id], r)
             /\ records' = [records EXCEPT ![caller[c].id] = r]
    <3>1. r # None
      BY <1>1, RecordAssumption
    <3>2. QED
      BY <1>1, <2>1, <2>3, <3>1 DEF Protected
  <2>4. QED
    BY <1>1, <2>2, <2>3 DEF Save, Move
<1>2. IInv /\ IInv' /\ [Next]_vars => Kept
  <2> SUFFICES ASSUME IInv, [Next]_vars PROVE Kept
    OBVIOUS
  <2>1. CASE records' = records
    BY <2>1
  <2>2. ASSUME NEW c \in Callers, SaveCreated(c) PROVE Kept
    <3>1. caller[c].id \in Experiments
      BY <2>2 DEF IInv, CallerOK, SaveCreated
    <3>2. QED
      BY <1>1, <2>2, <3>1, CreatedIsSound DEF SaveCreated
  <2>3. ASSUME NEW c \in Callers, SaveResult(c) PROVE Kept
    <3>1. caller[c].id \in Experiments /\ caller[c].record \in Record
      BY <2>3 DEF IInv, CallerOK, SaveResult, Running
    <3>2. QED
      BY <1>1, <2>3, <3>1 DEF SaveResult
  <2>4. ASSUME NEW c \in Callers, caller[c].step \in Running \ {"final"},
               NEW state, NEW r \in Record, NEW step, Advance(c, state, r, step)
        PROVE  Kept
    <3>1. caller[c].id \in Experiments
      BY <2>4, RunningFacts
    <3>2. CASE state \in Allowed(State(caller[c].record))
      BY <1>1, <2>4, <3>1, <3>2 DEF Advance
    <3>3. CASE ~(state \in Allowed(State(caller[c].record)))
      BY <2>1, <2>4, <3>3 DEF Advance, Move
    <3>4. QED
      BY <3>2, <3>3
  <2>5. ASSUME NEW c \in Callers,
               \/ BuildContext(c) \/ StartForecasting(c)
               \/ LockForecast(c) \/ StartEvaluating(c)
        PROVE  Kept
    <3> DEFINE r == caller[c].record
    <3>1. caller[c].step \in Running \ {"final"}
      BY <2>5 DEF BuildContext, StartForecasting, LockForecast, StartEvaluating, Running
    <3>2. r \in Record
      BY <3>1, RunningFacts
    <3>3. \A state \in States : Moved(r, state) \in Record
      BY <3>2, MovedFields
    <3>4. \A v \in Contexts :
            [Moved(r, "context_ready") EXCEPT !.context = v] \in Record
      BY <3>3 DEF States, Record
    <3>5. r.context \in Contexts \cup {None}
      BY <3>2 DEF Record
    <3>6. [Moved(r, "forecast_locked") EXCEPT !.forecast = r.context] \in Record
      BY <3>3, <3>5 DEF States, Record
    <3>7. CASE BuildContext(c)
      BY <2>1, <2>4, <3>1, <3>4, <3>7 DEF BuildContext, Raises, Move
    <3>8. CASE StartForecasting(c)
      BY <2>4, <3>1, <3>3, <3>8 DEF StartForecasting, States
    <3>9. CASE LockForecast(c)
      BY <2>1, <2>4, <3>1, <3>6, <3>9 DEF LockForecast, Raises, Move
    <3>10. CASE StartEvaluating(c)
      BY <2>4, <3>1, <3>3, <3>10 DEF StartEvaluating, States
    <3>11. QED
      BY <2>5, <3>7, <3>8, <3>9, <3>10
  <2>6. ASSUME NEW c \in Callers, Lookup(c) \/ Read(c) \/ Reread(c) \/ ConsultOracle(c)
        PROVE  Kept
    BY <2>1, <2>6 DEF Lookup, Read, Reread, ConsultOracle, Raises, Move
  <2>7. ASSUME NEW c \in Callers, Command(c) PROVE Kept
    BY <2>1, <2>7 DEF Command, BatchCommand, CreateCommand, RunCommand, Begin
  <2>8. QED
    BY <2>1, <2>2, <2>3, <2>5, <2>6, <2>7 DEF Next, Proceed, Crash, vars
<1>3. QED
  BY <1>2, ExperimentInvariant, PTL DEF Spec, LockedForecastIsImmutable

-----------------------------------------------------------------------------
(* Who runs an experiment, and which.                                      *)

\* A record has an error only at its end, and no forecast at its beginning.
Honest(r) ==
    /\ r.error # None => State(r) \in Terminal
    /\ State(r) = "created" => r.forecast = None

\* A batch runs what random selection may choose.
Chosen(s) ==
    /\ s.batch => /\ s.id \in Candidates
                  /\ \A k \in 1 .. Len(s.rest) : s.rest[k] \in Candidates
    /\ ~s.batch => s.rest = <<>>

\* The record of a caller is that of its step.
InRunOK(s) ==
    /\ s.step \in Running => Honest(s.record)
    /\ s.step \in Running \ {"final"} =>
          s.record.error = None /\ State(s.record) \notin Terminal
    /\ s.step \in {"context", "forecasting", "lock"} => s.record.forecast = None
    /\ s.step = "final" =>
          /\ State(s.record) \in Terminal
          /\ s.batch => s.record.error \notin {"insufficient", "incomplete"}
    /\ Chosen(s)

\* An experiment in progress is run by a caller whose forecast is that of the
\* repository, if it holds one: its last save will not be refused.
Attends(s, i, R) ==
    /\ s.step \in Running /\ s.id = i
    /\ R[i].forecast # None => s.record.forecast = R[i].forecast

InProgress(r) == r # None /\ State(r) \notin Terminal \cup {"created"}

RunInv ==
    /\ \A i \in Experiments : records[i] # None => Honest(records[i])
    /\ \A c \in Callers : InRunOK(caller[c])
    /\ \A i \in Experiments :
          InProgress(records[i]) =>
             i \in interrupted \/ \E c \in Callers : Attends(caller[c], i, records)

-----------------------------------------------------------------------------
\* Two cutoffs of one fetch find what the two fetches of a run find: what may
\* be selected has every bar of its context and of its horizon.
LEMMA CandidatesAreComplete ==
  ASSUME TypeOK, NEW t \in Candidates
  PROVE  t \in Experiments /\ ContextComplete(t) /\ HorizonComplete(t)
<1> DEFINE Known(k) == k \in Closes /\ available[k] # None
<1>1. LastClose \in Nat /\ Warmup \in Nat /\ Horizon \in Nat
  BY ExperimentAssumption
<1>2. t \in Experiments
  BY DEF Candidates, Experiments
<1>3. t \in Int
  BY <1>1, <1>2 DEF Experiments
<1>4. ASSUME NEW k \in (t - Warmup + 1) .. t
      PROVE  Known(k) /\ available[k] <= t
  BY <1>4 DEF Candidates, Eligible, Fetch
<1>5. ASSUME NEW k \in (t + 1) .. (t + Horizon)
      PROVE  Known(k) /\ available[k] <= t + Horizon
  BY <1>5 DEF Candidates, Eligible, Fetch
<1>6. \A k \in Closes : available[k] # None => available[k] \in Int
  BY <1>1 DEF TypeOK
<1>7. ContextComplete(t)
  <2>1. ASSUME NEW k \in (t - Warmup + 1) .. t
        PROVE  k \in Fetch(t - Warmup, t, t)
    <3>1. t - Warmup < k /\ k <= t
      BY <1>1, <1>3
    <3>2. QED
      BY <1>4, <3>1 DEF Fetch
  <2>2. ASSUME NEW k \in Fetch(t - Warmup, t, t)
        PROVE  k \in (t - Warmup + 1) .. t
    <3>1. k \in Int /\ t - Warmup < k /\ k <= t
      BY <1>1 DEF Fetch, Closes
    <3>2. QED
      BY <1>1, <1>3, <3>1
  <2>3. QED
    BY <2>1, <2>2 DEF ContextComplete, CoverageComplete
<1>8. HorizonComplete(t)
  <2>1. ASSUME NEW k \in (t - 1 + 1) .. (t + Horizon)
        PROVE  k \in Fetch(t - 1, t + Horizon, t + Horizon)
    <3>1. k \in Int /\ t - 1 < k /\ k <= t + Horizon
      BY <1>1, <1>3
    <3>2. CASE k = t
      <4>1. k \in (t - Warmup + 1) .. t
        BY <1>1, <1>3, <3>2, ExperimentAssumption
      <4>2. Known(k) /\ available[k] <= t
        BY <1>4, <4>1
      <4>3. available[k] <= t + Horizon
        BY <1>1, <1>3, <1>6, <4>2
      <4>4. QED
        BY <3>1, <4>2, <4>3 DEF Fetch
    <3>3. CASE k # t
      <4>1. k \in (t + 1) .. (t + Horizon)
        BY <1>1, <1>3, <3>1, <3>3
      <4>2. Known(k) /\ available[k] <= t + Horizon
        BY <1>5, <4>1
      <4>3. QED
        BY <3>1, <4>2 DEF Fetch
    <3>4. QED
      BY <3>2, <3>3
  <2>2. ASSUME NEW k \in Fetch(t - 1, t + Horizon, t + Horizon)
        PROVE  k \in (t - 1 + 1) .. (t + Horizon)
    <3>1. k \in Int /\ t - 1 < k /\ k <= t + Horizon
      BY <1>1 DEF Fetch, Closes
    <3>2. QED
      BY <1>1, <1>3, <3>1
  <2>3. QED
    BY <2>1, <2>2 DEF HorizonComplete, CoverageComplete
<1>9. QED
  BY <1>2, <1>7, <1>8

\* The market does not change while experiments run.
LEMMA MarketStays ==
  ASSUME available' = available
  PROVE  Candidates' = Candidates
BY DEF Candidates, Eligible, Fetch

LEMMA InRunStays ==
  ASSUME available' = available, NEW c, InRunOK(caller'[c])
  PROVE  InRunOK(caller[c])'
BY MarketStays DEF InRunOK, Chosen

\* A move of a caller that goes on attending what it attended.
LEMMA RunMove ==
  ASSUME IInv, RunInv, NEW c \in Callers, NEW next, Move(c, next), InRunOK(next),
         \A i \in Experiments : Attends(caller[c], i, records) => Attends(next, i, records)
  PROVE  RunInv'
<1>1. /\ caller' = [caller EXCEPT ![c] = next]
      /\ records' = records /\ interrupted' = interrupted /\ available' = available
  BY DEF Move
<1>2. \A d \in Callers : caller'[d] = IF d = c THEN next ELSE caller[d]
  BY <1>1 DEF IInv, TypeOK
<1>3. ASSUME NEW d \in Callers PROVE InRunOK(caller[d])'
  <2>1. InRunOK(caller'[d])
    BY <1>2 DEF RunInv
  <2>2. QED
    BY <1>1, <2>1, InRunStays
<1>4. ASSUME NEW i \in Experiments, InProgress(records'[i])
      PROVE  i \in interrupted' \/ \E d \in Callers : Attends(caller'[d], i, records')
  <2>1. i \in interrupted \/ \E d \in Callers : Attends(caller[d], i, records)
    BY <1>1, <1>4 DEF RunInv
  <2>2. \A d \in Callers : Attends(caller[d], i, records) => Attends(caller'[d], i, records)
    BY <1>2
  <2>3. QED
    BY <1>1, <2>1, <2>2
<1>5. \A i \in Experiments : records'[i] # None => Honest(records'[i])
  BY <1>1 DEF RunInv
<1>6. QED
  BY <1>3, <1>4, <1>5 DEF RunInv

\* A save of a caller: what it saves is its own to go on with or has ended, a
\* refusal leaves nobody behind, and a failed last write is remembered.
LEMMA RunSave ==
  ASSUME IInv, RunInv, NEW c \in Callers, caller[c].id \in Experiments,
         NEW r \in Record, Honest(r), NEW next, NEW raised,
         InRunOK(next), InRunOK(raised), Save(c, r, next, raised),
         InProgress(r) =>
            next.step \in Running /\ next.id = caller[c].id /\ next.record = r,
         caller[c].step # "final" =>
            \A i \in Experiments :
               Attends(caller[c], i, records) => Attends(raised, i, records),
         caller[c].step = "final" => caller[c].record = r
  PROVE  RunInv'
<1> DEFINE i == caller[c].id
           R == [records EXCEPT ![i] = r]
<1>1. /\ records \in [Experiments -> Record \cup {None}]
      /\ caller \in [Callers -> Caller]
  BY DEF IInv, TypeOK
<1>2. CASE /\ Protected(records[i], r)
           /\ records' = R
           /\ caller' = [caller EXCEPT ![c] = next]
           /\ UNCHANGED <<available, lanes, faults, interrupted>>
  <2>1. \A d \in Callers : caller'[d] = IF d = c THEN next ELSE caller[d]
    BY <1>1, <1>2
  <2>2. \A j \in Experiments : records'[j] = IF j = i THEN r ELSE records[j]
    BY <1>1, <1>2
  <2>3. ASSUME NEW d \in Callers PROVE InRunOK(caller[d])'
    <3>1. InRunOK(caller'[d])
      BY <2>1 DEF RunInv
    <3>2. QED
      BY <1>2, <3>1, InRunStays
  <2>4. ASSUME NEW j \in Experiments, InProgress(records'[j])
        PROVE  j \in interrupted' \/ \E d \in Callers : Attends(caller'[d], j, records')
    <3>1. CASE j = i
      <4>1. InProgress(r)
        BY <2>2, <2>4, <3>1
      <4>2. Attends(next, i, records')
        BY <2>2, <4>1 DEF Attends
      <4>3. QED
        BY <2>1, <3>1, <4>2
    <3>2. CASE j # i
      <4>1. j \in interrupted \/ \E d \in Callers : Attends(caller[d], j, records)
        BY <2>2, <2>4, <3>2 DEF RunInv
      <4>2. ~Attends(caller[c], j, records)
        BY <3>2 DEF Attends
      <4>3. \A d \in Callers :
              Attends(caller[d], j, records) => Attends(caller'[d], j, records')
        BY <2>1, <2>2, <3>2, <4>2 DEF Attends
      <4>4. QED
        BY <1>2, <4>1, <4>3
    <3>3. QED
      BY <3>1, <3>2
  <2>5. \A j \in Experiments : records'[j] # None => Honest(records'[j])
    BY <2>2 DEF RunInv
  <2>6. QED
    BY <2>3, <2>4, <2>5 DEF RunInv
<1>3. CASE ~Protected(records[i], r) /\ Move(c, raised)
  <2>1. caller[c].step = "final" => ~Attends(caller[c], i, records)
    BY <1>3 DEF Protected, Attends
  <2>2. caller[c].step = "final" => \A j \in Experiments : ~Attends(caller[c], j, records)
    BY <2>1 DEF Attends
  <2>3. QED
    BY <1>3, <2>2, RunMove
<1>4. CASE /\ faults < MaxFaults
           /\ faults' = faults + 1
           /\ interrupted' = IF caller[c].step = "final"
                               THEN interrupted \cup {i} ELSE interrupted
           /\ caller' = [caller EXCEPT ![c] = raised]
           /\ UNCHANGED <<available, lanes, records>>
  <2>1. \A d \in Callers : caller'[d] = IF d = c THEN raised ELSE caller[d]
    BY <1>1, <1>4
  <2>2. ASSUME NEW d \in Callers PROVE InRunOK(caller[d])'
    <3>1. InRunOK(caller'[d])
      BY <2>1 DEF RunInv
    <3>2. QED
      BY <1>4, <3>1, InRunStays
  <2>3. ASSUME NEW j \in Experiments, InProgress(records'[j])
        PROVE  j \in interrupted' \/ \E d \in Callers : Attends(caller'[d], j, records')
    <3>1. j \in interrupted \/ \E d \in Callers : Attends(caller[d], j, records)
      BY <1>4, <2>3 DEF RunInv
    <3>2. CASE j \in interrupted
      BY <1>4, <3>2
    <3>3. ASSUME NEW d \in Callers, Attends(caller[d], j, records)
          PROVE  j \in interrupted' \/ Attends(caller'[d], j, records')
      <4>1. CASE d = c /\ caller[c].step = "final"
        BY <1>4, <3>3, <4>1 DEF Attends
      <4>2. CASE d = c /\ caller[c].step # "final"
        BY <1>4, <2>1, <3>3, <4>2
      <4>3. CASE d # c
        BY <1>4, <2>1, <3>3, <4>3
      <4>4. QED
        BY <4>1, <4>2, <4>3
    <3>4. QED
      BY <3>1, <3>2, <3>3
  <2>4. \A j \in Experiments : records'[j] # None => Honest(records'[j])
    BY <1>4 DEF RunInv
  <2>5. QED
    BY <2>2, <2>3, <2>4 DEF RunInv
<1>5. QED
  BY <1>2, <1>3, <1>4 DEF Save

\* What is raised in a run: its last record has the error and the forecast.
LEMMA CaughtInRun ==
  ASSUME IInv, RunInv, NEW c \in Callers, caller[c].step \in Running \ {"final"},
         NEW r \in Record, NEW error \in Errors,
         caller[c].batch => error \notin {"insufficient", "incomplete"},
         caller[c].record.forecast # None => r.forecast = caller[c].record.forecast
  PROVE  /\ InRunOK(Caught(c, r, error))
         /\ \A i \in Experiments :
               Attends(caller[c], i, records) => Attends(Caught(c, r, error), i, records)
<1> DEFINE f == Failed(r, error)
           next == Caught(c, r, error)
<1>1. f \in Record /\ State(f) = "failed" /\ f.forecast = r.forecast
  BY FailedFields
<1>2. f.error = error
  <2>1. Moved(r, "failed") \in Record
    BY MovedFields DEF States
  <2>2. QED
    BY <2>1 DEF Failed, Record
<1>3. caller[c] \in Caller
  BY DEF IInv, TypeOK
<1>4. /\ next.step = "final" /\ next.id = caller[c].id /\ next.record = f
      /\ next.rest = caller[c].rest /\ next.batch = caller[c].batch
  BY <1>3 DEF Caught, Caller
<1>5. Honest(f) /\ State(f) \in Terminal
  BY <1>1 DEF Honest, Terminal
<1>6. Chosen(next)
  BY <1>4 DEF RunInv, InRunOK, Chosen
<1>7. InRunOK(next)
  BY <1>2, <1>4, <1>5, <1>6 DEF InRunOK
<1>8. ASSUME NEW i \in Experiments, Attends(caller[c], i, records)
      PROVE  Attends(next, i, records)
  BY <1>1, <1>4, <1>8 DEF Attends, Running
<1>9. QED
  BY <1>7, <1>8

LEMMA RunRaises ==
  ASSUME IInv, RunInv, NEW c \in Callers, caller[c].step \in Running \ {"final"}, Raises(c)
  PROVE  RunInv'
<1>1. caller[c].record \in Record
  BY RunningFacts
<1>2. QED
  BY <1>1, CaughtInRun, RunMove DEF Raises, Errors

\* A step of a run that saves: the forecast it had it keeps.
LEMMA RunAdvance ==
  ASSUME IInv, RunInv, NEW c \in Callers, caller[c].step \in Running \ {"final"},
         NEW state \in States \ Terminal, state # "created",
         NEW r \in Record, State(r) = state, r.error = None,
         NEW step \in Running \ {"final"},
         step \in {"context", "forecasting", "lock"} => r.forecast = None,
         caller[c].record.forecast # None => r.forecast = caller[c].record.forecast,
         Advance(c, state, r, step)
  PROVE  RunInv'
<1> DEFINE next == [caller[c] EXCEPT !.step = step, !.record = r]
<1>1. caller[c].record \in Record /\ caller[c].id \in Experiments /\ caller[c] \in Caller
  BY RunningFacts
<1>2. CASE Move(c, Caught(c, caller[c].record, "failed"))
  BY <1>1, <1>2, CaughtInRun, RunMove DEF Errors
<1>3. CASE Save(c, r, next, Caught(c, r, "failed"))
  <2>1. Honest(r)
    BY DEF Honest
  <2>2. /\ next.step = step /\ next.id = caller[c].id /\ next.record = r
        /\ next.rest = caller[c].rest /\ next.batch = caller[c].batch
    BY <1>1 DEF Caller
  <2>3. Chosen(next)
    BY <2>2 DEF RunInv, InRunOK, Chosen
  <2>4. InRunOK(next)
    BY <2>1, <2>2, <2>3 DEF InRunOK
  <2>5. /\ InRunOK(Caught(c, r, "failed"))
        /\ \A i \in Experiments :
              Attends(caller[c], i, records) => Attends(Caught(c, r, "failed"), i, records)
    BY CaughtInRun DEF Errors
  <2>6. QED
    BY <1>1, <1>3, <2>1, <2>2, <2>4, <2>5, RunSave
<1>4. QED
  BY <1>2, <1>3 DEF Advance

-----------------------------------------------------------------------------
\* A command that begins has nobody to leave; a batch begins with candidates.
LEMMA RunBegin ==
  ASSUME IInv, RunInv, NEW c \in Callers, NEW step \in {"lookup", "read"},
         NEW items \in Seq(Experiments), items # <<>>, NEW batch \in BOOLEAN,
         batch => \A k \in 1 .. Len(items) : items[k] \in Candidates,
         ~batch => Len(items) = 1,
         Begin(c, step, items, batch)
  PROVE  RunInv'
<1> DEFINE next == [Idle EXCEPT !.step = step, !.id = Head(items),
                                !.rest = Tail(items), !.batch = batch]
<1>1. /\ next.step = step /\ next.id = Head(items)
      /\ next.rest = Tail(items) /\ next.batch = batch
  BY DEF Idle
<1>2. /\ Head(items) = items[1] /\ Len(items) \in Nat /\ Len(items) >= 1
      /\ Len(Tail(items)) = Len(items) - 1
      /\ \A k \in 1 .. Len(items) - 1 : Tail(items)[k] = items[k + 1]
  OBVIOUS
<1>3. Chosen(next)
  <2>1. batch => Head(items) \in Candidates
    BY <1>2
  <2>2. ASSUME batch, NEW k \in 1 .. Len(items) - 1
        PROVE  Tail(items)[k] \in Candidates
    <3>1. k + 1 \in 1 .. Len(items)
      BY <1>2
    <3>2. QED
      BY <1>2, <2>2, <3>1
  <2>3. ~batch => Tail(items) = <<>>
    BY <1>2
  <2>4. QED
    BY <1>1, <1>2, <2>1, <2>2, <2>3 DEF Chosen
<1>4. InRunOK(next)
  BY <1>1, <1>3 DEF InRunOK, Running
<1>5. \A i \in Experiments : ~Attends(caller[c], i, records)
  BY DEF Begin, Attends, Running
<1>6. Move(c, next)
  BY DEF Begin, Move
<1>7. QED
  BY <1>4, <1>5, <1>6, RunMove

LEMMA RunCommandStep ==
  ASSUME IInv, RunInv, NEW c \in Callers, Command(c)
  PROVE  RunInv'
<1>1. ASSUME NEW i \in Experiments, CreateCommand(c, i) \/ RunCommand(c, i)
      PROVE  RunInv'
  <2>1. <<i>> \in Seq(Experiments) /\ <<i>> # <<>> /\ Len(<<i>>) = 1
    OBVIOUS
  <2>2. QED
    BY <1>1, <2>1, RunBegin DEF CreateCommand, RunCommand
<1>2. CASE BatchCommand(c)
  <2>1. PICK n \in 1 .. Cardinality(Candidates) :
          \E items \in [1 .. n -> Candidates] : Begin(c, "lookup", items, TRUE)
    BY <1>2 DEF BatchCommand
  <2>2. n \in Nat /\ n >= 1
    BY <2>1, CandidatesAreFinite
  <2>3. PICK items \in [1 .. n -> Candidates] : Begin(c, "lookup", items, TRUE)
    BY <2>1
  <2>4. items \in Seq(Experiments) /\ Len(items) = n
    BY <2>2, CandidatesAreFinite
  <2>5. items # <<>>
    BY <2>2, <2>4
  <2>6. \A k \in 1 .. Len(items) : items[k] \in Candidates
    BY <2>4
  <2>7. QED
    BY <2>3, <2>4, <2>5, <2>6, RunBegin
<1>3. QED
  BY <1>1, <1>2 DEF Command

\* What a caller goes on with when a call has returned.
LEMMA AfterCallInRun ==
  ASSUME NEW c \in Callers, caller[c] \in Caller, Chosen(caller[c])
  PROVE  /\ InRunOK(Idle) /\ InRunOK(AfterCreate(c)) /\ InRunOK(AfterRun(c))
<1>1. InRunOK(Idle)
  BY DEF InRunOK, Idle, Running, Chosen
<1>2. InRunOK(AfterCreate(c))
  <2>1. CASE caller[c].batch
    <3> DEFINE next == [caller[c] EXCEPT !.step = "read"]
    <3>1. /\ next.step = "read" /\ next.id = caller[c].id
          /\ next.rest = caller[c].rest /\ next.batch = caller[c].batch
      BY DEF Caller
    <3>2. Chosen(next)
      BY <3>1 DEF Chosen
    <3>3. InRunOK(next)
      BY <3>1, <3>2 DEF InRunOK, Running
    <3>4. QED
      BY <2>1, <3>3 DEF AfterCreate
  <2>2. QED
    BY <1>1, <2>1 DEF AfterCreate
<1>3. InRunOK(AfterRun(c))
  <2>1. CASE caller[c].rest # <<>> /\ caller[c].batch
    <3> DEFINE rest == caller[c].rest
    <3>1. rest \in Seq(Experiments)
      BY DEF Caller
    <3>2. /\ Head(rest) = rest[1] /\ Len(rest) \in Nat /\ Len(rest) >= 1
          /\ Len(Tail(rest)) = Len(rest) - 1
          /\ \A k \in 1 .. Len(rest) - 1 : Tail(rest)[k] = rest[k + 1]
      BY <2>1, <3>1
    <3>3. AfterRun(c) = [step |-> "lookup", id |-> Head(rest), rest |-> Tail(rest),
                         batch |-> TRUE, record |-> None]
      BY <2>1 DEF AfterRun, Idle
    <3>4. rest[1] \in Candidates
      BY <2>1, <3>2 DEF Chosen
    <3>5. ASSUME NEW k \in 1 .. Len(rest) - 1 PROVE Tail(rest)[k] \in Candidates
      <4>1. k + 1 \in 1 .. Len(rest)
        BY <3>2
      <4>2. QED
        BY <2>1, <3>2, <4>1 DEF Chosen
    <3>6. Chosen(AfterRun(c))
      BY <3>2, <3>3, <3>4, <3>5 DEF Chosen
    <3>7. QED
      BY <3>3, <3>6 DEF InRunOK, Running
  <2>2. CASE caller[c].rest = <<>>
    BY <1>1, <2>2 DEF AfterRun
  <2>3. QED
    BY <2>1, <2>2 DEF Chosen
<1>4. QED
  BY <1>1, <1>2, <1>3

LEMMA RunCreateStep ==
  ASSUME IInv, RunInv, NEW c \in Callers, Lookup(c) \/ SaveCreated(c) \/ Read(c)
  PROVE  RunInv'
<1>1. caller[c] \in Caller /\ caller[c].step \in {"lookup", "create", "read"}
  BY DEF IInv, TypeOK, Lookup, SaveCreated, Read
<1>2. caller[c].id \in Experiments
  BY <1>1 DEF IInv, CallerOK
<1>3. Chosen(caller[c])
  BY DEF RunInv, InRunOK
<1>4. InRunOK(Idle) /\ InRunOK(AfterCreate(c)) /\ InRunOK(AfterRun(c))
  BY <1>1, <1>3, AfterCallInRun
<1>5. \A i \in Experiments : ~Attends(caller[c], i, records)
  BY <1>1 DEF Attends, Running
<1>6. CASE Lookup(c)
  <2> DEFINE next == [caller[c] EXCEPT !.step = "create"]
  <2>1. /\ next.step = "create" /\ next.id = caller[c].id
        /\ next.rest = caller[c].rest /\ next.batch = caller[c].batch
    BY <1>1 DEF Caller
  <2>2. InRunOK(next)
    BY <1>3, <2>1 DEF InRunOK, Chosen, Running
  <2>3. QED
    BY <1>4, <1>5, <1>6, <2>2, RunMove DEF Lookup
<1>7. CASE SaveCreated(c)
  <2>1. Created \in Record /\ Honest(Created) /\ State(Created) = "created"
    BY CreatedIsSound DEF Created, Honest, State
  <2>2. ~InProgress(Created) /\ caller[c].step # "final"
    BY <1>1, <2>1 DEF InProgress
  <2>3. QED
    BY <1>2, <1>4, <1>5, <1>7, <2>1, <2>2, RunSave DEF SaveCreated
<1>8. CASE Read(c)
  <2> DEFINE r == records[caller[c].id]
             next == [caller[c] EXCEPT !.step = "context", !.record = r]
  <2>1. ASSUME r # None, State(r) = "created"
        PROVE  InRunOK(next)
    <3>1. Honest(r) /\ r.error = None /\ r.forecast = None
      BY <1>2, <2>1 DEF RunInv, Honest, Terminal
    <3>2. /\ next.step = "context" /\ next.id = caller[c].id /\ next.record = r
          /\ next.rest = caller[c].rest /\ next.batch = caller[c].batch
      BY <1>1 DEF Caller
    <3>3. Chosen(next)
      BY <1>3, <3>2 DEF Chosen
    <3>4. QED
      BY <2>1, <3>1, <3>2, <3>3 DEF InRunOK, Terminal
  <2>2. QED
    BY <1>4, <1>5, <1>8, <2>1, RunMove DEF Read
<1>9. QED
  BY <1>6, <1>7, <1>8

\* A batch builds the contexts of candidates, which are complete.
LEMMA RunContextStep ==
  ASSUME IInv, RunInv, NEW c \in Callers, BuildContext(c) \/ StartForecasting(c)
  PROVE  RunInv'
<1> DEFINE r == caller[c].record
<1>1. caller[c].step \in {"context", "forecasting"}
  BY DEF BuildContext, StartForecasting
<1>2. caller[c].step \in Running \ {"final"}
  BY <1>1 DEF Running
<1>3. r \in Record /\ caller[c].id \in Experiments
  BY <1>2, RunningFacts
<1>4. r.error = None /\ r.forecast = None
  BY <1>1, <1>2 DEF RunInv, InRunOK
<1>5. {"context_ready", "forecasting"} \subseteq States \ Terminal
  BY DEF States, Terminal
<1>6. {"forecasting", "lock"} \subseteq Running \ {"final"}
  BY DEF Running
<1>7. CASE Raises(c)
  BY <1>2, <1>7, RunRaises
<1>8. ASSUME ~ContextComplete(caller[c].id), Move(c, Caught(c, r, "insufficient"))
      PROVE  RunInv'
  <2>1. ~caller[c].batch
    BY <1>8, CandidatesAreComplete DEF IInv, RunInv, InRunOK, Chosen
  <2>2. QED
    BY <1>2, <1>3, <1>8, <2>1, CaughtInRun, RunMove DEF Errors
<1>9. ASSUME NEW v \in Contexts,
             Advance(c, "context_ready",
                     [Moved(r, "context_ready") EXCEPT !.context = v], "forecasting")
      PROVE  RunInv'
  <2> DEFINE m == Moved(r, "context_ready")
             q == [m EXCEPT !.context = v]
  <2>1. /\ m \in Record /\ State(m) = "context_ready"
        /\ m.error = None /\ m.forecast = None
    BY <1>3, <1>4, <1>5, MovedFields
  <2>2. q \in Record /\ q.error = None /\ q.forecast = None /\ q.lifecycle = m.lifecycle
    BY <2>1 DEF Record
  <2>3. State(q) = "context_ready"
    BY <2>1, <2>2 DEF State
  <2>4. QED
    BY <1>2, <1>4, <1>5, <1>6, <1>9, <2>2, <2>3, RunAdvance
<1>10. CASE StartForecasting(c)
  <2> DEFINE m == Moved(r, "forecasting")
  <2>1. /\ m \in Record /\ State(m) = "forecasting"
        /\ m.error = None /\ m.forecast = None
    BY <1>3, <1>4, <1>5, MovedFields
  <2>2. QED
    BY <1>2, <1>4, <1>5, <1>6, <1>10, <2>1, RunAdvance DEF StartForecasting
<1>11. QED
  BY <1>7, <1>8, <1>9, <1>10 DEF BuildContext

LEMMA RunLockStep ==
  ASSUME IInv, RunInv, NEW c \in Callers, LockForecast(c) \/ Reread(c)
  PROVE  RunInv'
<1> DEFINE r == caller[c].record
<1>1. caller[c].step \in {"lock", "reread"}
  BY DEF LockForecast, Reread
<1>2. caller[c].step \in Running \ {"final"}
  BY <1>1 DEF Running
<1>3. r \in Record /\ caller[c].id \in Experiments /\ caller[c] \in Caller
  BY <1>2, RunningFacts
<1>4. r.error = None /\ (caller[c].step = "lock" => r.forecast = None)
  BY <1>1, <1>2 DEF RunInv, InRunOK
<1>5. CASE Raises(c)
  BY <1>2, <1>5, RunRaises
<1>6. CASE LockForecast(c)
  <2> DEFINE m == Moved(r, "forecast_locked")
             q == [m EXCEPT !.forecast = r.context]
  <2>1. "forecast_locked" \in States \ Terminal /\ "reread" \in Running \ {"final"}
    BY DEF States, Terminal, Running
  <2>2. m \in Record /\ State(m) = "forecast_locked" /\ m.error = None
    BY <1>3, <1>4, <2>1, MovedFields
  <2>3. q \in Record /\ q.error = None /\ q.lifecycle = m.lifecycle
    BY <1>3, <2>2 DEF Record
  <2>4. State(q) = "forecast_locked"
    BY <2>2, <2>3 DEF State
  <2>5. r.forecast = None
    BY <1>4, <1>6 DEF LockForecast
  <2>6. CASE Advance(c, "forecast_locked", q, "reread")
    BY <1>2, <2>1, <2>3, <2>4, <2>5, <2>6, RunAdvance
  <2>7. QED
    BY <1>5, <1>6, <2>6 DEF LockForecast
<1>7. CASE Reread(c)
  <2> DEFINE locked == records[caller[c].id]
             next == [caller[c] EXCEPT !.step = "evaluating", !.record = locked]
  <2>1. ASSUME locked.forecast = r.forecast, State(locked) = "forecast_locked",
               Move(c, next)
        PROVE  RunInv'
    <3>1. locked # None
      BY <1>7 DEF IInv, CallerOK, Reread
    <3>2. Honest(locked) /\ locked.error = None
      BY <1>3, <2>1, <3>1 DEF RunInv, Honest, Terminal
    <3>3. /\ next.step = "evaluating" /\ next.id = caller[c].id /\ next.record = locked
          /\ next.rest = caller[c].rest /\ next.batch = caller[c].batch
      BY <1>3 DEF Caller
    <3>4. Chosen(next)
      BY <3>3 DEF RunInv, InRunOK, Chosen
    <3>5. InRunOK(next)
      BY <2>1, <3>2, <3>3, <3>4 DEF InRunOK, Terminal
    <3>6. \A i \in Experiments : Attends(caller[c], i, records) => Attends(next, i, records)
      BY <3>3 DEF Attends, Running
    <3>7. QED
      BY <2>1, <3>5, <3>6, RunMove
  <2>2. QED
    BY <1>5, <1>7, <2>1 DEF Reread
<1>8. QED
  BY <1>6, <1>7

\* A batch asks for the outcomes of candidates, whose horizons are complete.
LEMMA RunEvaluateStep ==
  ASSUME IInv, RunInv, NEW c \in Callers, StartEvaluating(c) \/ ConsultOracle(c)
  PROVE  RunInv'
<1> DEFINE r == caller[c].record
<1>1. caller[c].step \in {"evaluating", "oracle"}
  BY DEF StartEvaluating, ConsultOracle
<1>2. caller[c].step \in Running \ {"final"}
  BY <1>1 DEF Running
<1>3. r \in Record /\ caller[c].id \in Experiments /\ caller[c] \in Caller
  BY <1>2, RunningFacts
<1>4. r.error = None
  BY <1>1, <1>2 DEF RunInv, InRunOK
<1>5. CASE Raises(c)
  BY <1>2, <1>5, RunRaises
<1>6. CASE StartEvaluating(c)
  <2> DEFINE m == Moved(r, "evaluating")
  <2>1. "evaluating" \in States \ Terminal /\ "oracle" \in Running \ {"final"}
    BY DEF States, Terminal, Running
  <2>2. /\ m \in Record /\ State(m) = "evaluating"
        /\ m.error = None /\ m.forecast = r.forecast
    BY <1>3, <1>4, <2>1, MovedFields
  <2>3. QED
    BY <1>2, <1>6, <2>1, <2>2, RunAdvance DEF StartEvaluating
<1>7. ASSUME NEW q \in Record, State(q) \in Terminal, q.forecast = r.forecast,
             caller[c].batch => q.error \notin {"insufficient", "incomplete"},
             Move(c, [caller[c] EXCEPT !.step = "final", !.record = q])
      PROVE  RunInv'
  <2> DEFINE next == [caller[c] EXCEPT !.step = "final", !.record = q]
  <2>1. /\ next.step = "final" /\ next.id = caller[c].id /\ next.record = q
        /\ next.rest = caller[c].rest /\ next.batch = caller[c].batch
    BY <1>3 DEF Caller
  <2>2. Chosen(next)
    BY <2>1 DEF RunInv, InRunOK, Chosen
  <2>3. Honest(q)
    BY <1>7 DEF Honest, Terminal
  <2>4. InRunOK(next)
    BY <1>7, <2>1, <2>2, <2>3 DEF InRunOK
  <2>5. \A i \in Experiments : Attends(caller[c], i, records) => Attends(next, i, records)
    BY <1>7, <2>1 DEF Attends, Running
  <2>6. QED
    BY <1>7, <2>4, <2>5, RunMove
<1>8. CASE ConsultOracle(c) /\ HorizonComplete(caller[c].id)
  <2> DEFINE m == Moved(r, "complete")
             q == Evaluated(r)
  <2>1. m \in Record /\ State(m) = "complete" /\ m.forecast = r.forecast /\ m.error = None
    BY <1>3, <1>4, MovedFields DEF States
  <2>2. r.forecast \in Contexts \cup {None}
    BY <1>3 DEF Record
  <2>3. /\ q \in Record /\ q.lifecycle = m.lifecycle
        /\ q.forecast = r.forecast /\ q.error = None
    BY <2>1, <2>2 DEF Evaluated, Record
  <2>4. State(q) \in Terminal
    BY <2>1, <2>3 DEF State, Terminal
  <2>5. q.error \notin {"insufficient", "incomplete"}
    BY <2>3, RecordAssumption DEF Errors
  <2>6. QED
    BY <1>5, <1>7, <1>8, <2>3, <2>4, <2>5 DEF ConsultOracle
<1>9. CASE ConsultOracle(c) /\ ~HorizonComplete(caller[c].id)
  <2> DEFINE f == Failed(r, "incomplete")
             q == [f EXCEPT !.outcome = "incomplete"]
  <2>1. f \in Record /\ State(f) = "failed" /\ f.forecast = r.forecast
    BY <1>3, FailedFields DEF Errors
  <2>2. q \in Record /\ q.lifecycle = f.lifecycle /\ q.forecast = r.forecast
    BY <2>1 DEF Record
  <2>3. State(q) \in Terminal
    BY <2>1, <2>2 DEF State, Terminal
  <2>4. ~caller[c].batch
    BY <1>9, CandidatesAreComplete DEF IInv, RunInv, InRunOK, Chosen
  <2>5. QED
    BY <1>5, <1>7, <1>9, <2>2, <2>3, <2>4 DEF ConsultOracle
<1>10. QED
  BY <1>6, <1>8, <1>9

\* The last save ends the run, unless somebody else's forecast refuses it.
LEMMA RunResultStep ==
  ASSUME IInv, RunInv, NEW c \in Callers, SaveResult(c)
  PROVE  RunInv'
<1> DEFINE r == caller[c].record
<1>1. caller[c] \in Caller /\ caller[c].step = "final" /\ caller[c].step \in Running
  BY DEF IInv, TypeOK, SaveResult, Running
<1>2. caller[c].id \in Experiments /\ r \in Record
  BY <1>1 DEF IInv, CallerOK
<1>3. Honest(r) /\ State(r) \in Terminal /\ Chosen(caller[c])
  BY <1>1 DEF RunInv, InRunOK
<1>4. ~InProgress(r)
  BY <1>3 DEF InProgress
<1>5. InRunOK(Idle) /\ InRunOK(AfterRun(c))
  BY <1>1, <1>3, AfterCallInRun
<1>6. QED
  BY <1>1, <1>2, <1>3, <1>4, <1>5, RunSave DEF SaveResult

\* A crash leaves behind whatever was being run.
LEMMA RunCrashStep ==
  ASSUME IInv, RunInv, Crash
  PROVE  RunInv'
<1>1. ASSUME NEW c \in Callers PROVE InRunOK(caller[c])'
  <2>1. InRunOK(caller'[c])
    BY DEF Crash, InRunOK, Idle, Running, Chosen
  <2>2. QED
    BY <2>1, InRunStays DEF Crash
<1>2. ASSUME NEW i \in Experiments, InProgress(records'[i])
      PROVE  i \in interrupted'
  <2>1. i \in interrupted \/ \E d \in Callers : Attends(caller[d], i, records)
    BY <1>2 DEF RunInv, Crash
  <2>2. QED
    BY <2>1 DEF Crash, Attends
<1>3. \A i \in Experiments : records'[i] # None => Honest(records'[i])
  BY DEF RunInv, Crash
<1>4. QED
  BY <1>1, <1>2, <1>3 DEF RunInv

\* Who runs an experiment and which are chosen, in every reachable state.
LEMMA RunInvariant == Spec => []RunInv
<1>1. Init => RunInv
  BY DEF Init, RunInv, InRunOK, Idle, Running, Chosen, InProgress
<1>2. IInv /\ RunInv /\ [Next]_vars => RunInv'
  <2> SUFFICES ASSUME IInv, RunInv, [Next]_vars PROVE RunInv'
    OBVIOUS
  <2>1. CASE Crash
    BY <2>1, RunCrashStep
  <2>2. ASSUME NEW c \in Callers, Command(c) PROVE RunInv'
    BY <2>2, RunCommandStep
  <2>3. ASSUME NEW c \in Callers, Proceed(c) PROVE RunInv'
    BY <2>3, RunCreateStep, RunContextStep, RunLockStep, RunEvaluateStep, RunResultStep
    DEF Proceed
  <2>4. CASE UNCHANGED vars
    <3>1. UNCHANGED <<available, records, caller, interrupted>>
      BY <2>4 DEF vars
    <3>2. \A c \in Callers : InRunOK(caller[c])'
      BY <3>1, InRunStays DEF RunInv
    <3>3. QED
      BY <3>1, <3>2 DEF RunInv
  <2>5. QED
    BY <2>1, <2>2, <2>3, <2>4 DEF Next
<1>3. QED
  BY <1>1, <1>2, ExperimentInvariant, PTL DEF Spec

\* InProgressIsAttended: an experiment that stands between its creation and its
\* end has a caller running it, however many run it at once and whoever is
\* refused, unless a crash or a failed last write left it behind.
THEOREM ProgressIsAttended == Spec => []InProgressIsAttended
<1>1. RunInv => InProgressIsAttended
  BY DEF RunInv, InProgressIsAttended, InProgress, Attends
<1>2. QED
  BY <1>1, RunInvariant, PTL

\* SelectionIsRunnable: no experiment of a random batch ends for want of a bar,
\* for any market, warmup and horizon.
THEOREM SelectionsAreRunnable == Spec => []SelectionIsRunnable
<1>1. RunInv => SelectionIsRunnable
  BY DEF RunInv, InRunOK, SelectionIsRunnable
<1>2. QED
  BY <1>1, RunInvariant, PTL

-----------------------------------------------------------------------------
(* One lane.                                                               *)

Extends(q, p) == Len(p) <= Len(q) /\ \A k \in 1 .. Len(p) : q[k] = p[k]

\* With one lane a caller's record is the repository's, or continues it.
LaneOK(s, R) ==
    /\ s.step = "create" => R[s.id] = None
    /\ s.step \in Running \ {"final"} => R[s.id] = s.record
    /\ s.step = "final" /\ R[s.id] # None =>
                            /\ State(R[s.id]) \notin Terminal
                            /\ Extends(s.record.lifecycle, R[s.id].lifecycle)

LaneInv ==
    lanes = 1 =>
       /\ \A c, d \in Callers : caller[c].step # "idle" /\ caller[d].step # "idle" => c = d
       /\ \A c \in Callers : LaneOK(caller[c], records)

\* The step of LifecycleOnlyExtends.
Continues ==
    lanes = 1 =>
       \A i \in Experiments :
          records[i] # None =>
             /\ Len(records'[i].lifecycle) >= Len(records[i].lifecycle)
             /\ \A k \in 1 .. Len(records[i].lifecycle) :
                  records'[i].lifecycle[k] = records[i].lifecycle[k]
             /\ State(records[i]) \in Terminal => records'[i] = records[i]

LaneStep == LaneInv' /\ Continues

LEMMA AppendExtends ==
  ASSUME NEW S, NEW p \in Seq(S), NEW q \in Seq(S), NEW e \in S, Extends(q, p)
  PROVE  Extends(Append(q, e), p)
<1>1. /\ Len(p) \in Nat /\ Len(q) \in Nat
      /\ Len(Append(q, e)) = Len(q) + 1
      /\ \A k \in 1 .. Len(q) : Append(q, e)[k] = q[k]
  OBVIOUS
<1>2. QED
  BY <1>1 DEF Extends

LEMMA IsItsExtension == ASSUME NEW S, NEW p \in Seq(S) PROVE Extends(p, p)
BY DEF Extends

\* Nobody else is busy while the one lane is taken.
LEMMA LaneMove ==
  ASSUME IInv, LaneInv, NEW c \in Callers, NEW next, Move(c, next),
         lanes = 1 => /\ LaneOK(next, records)
                      /\ \A d \in Callers \ {c} : caller[d].step = "idle"
  PROVE  LaneStep
<1>1. /\ caller' = [caller EXCEPT ![c] = next]
      /\ records' = records /\ lanes' = lanes
  BY DEF Move
<1>2. \A d \in Callers : caller'[d] = IF d = c THEN next ELSE caller[d]
  BY <1>1 DEF IInv, TypeOK
<1>3. records \in [Experiments -> Record \cup {None}]
  BY DEF IInv, TypeOK
<1>4. Continues
  <2>1. \A i \in Experiments : records[i] # None => Len(records[i].lifecycle) \in Nat
    BY <1>3 DEF Record
  <2>2. QED
    BY <1>1, <2>1 DEF Continues
<1>5. ASSUME lanes' = 1 PROVE \A d \in Callers : LaneOK(caller'[d], records')
  BY <1>1, <1>2, <1>5 DEF LaneInv
<1>6. ASSUME lanes' = 1, NEW d \in Callers, NEW e \in Callers,
             caller'[d].step # "idle", caller'[e].step # "idle"
      PROVE  d = e
  BY <1>1, <1>2, <1>6
<1>7. QED
  BY <1>4, <1>5, <1>6 DEF LaneInv, LaneStep

LEMMA OthersIdle ==
  ASSUME LaneInv, NEW c \in Callers, caller[c].step # "idle"
  PROVE  lanes = 1 => \A d \in Callers \ {c} : caller[d].step = "idle"
BY DEF LaneInv

LEMMA LaneSave ==
  ASSUME IInv, LaneInv, NEW c \in Callers, caller[c].step # "idle",
         caller[c].id \in Experiments,
         NEW r \in Record, NEW next, NEW raised, Save(c, r, next, raised),
         lanes = 1 =>
            /\ records[caller[c].id] # None =>
                  /\ State(records[caller[c].id]) \notin Terminal
                  /\ Extends(r.lifecycle, records[caller[c].id].lifecycle)
            /\ LaneOK(next, [records EXCEPT ![caller[c].id] = r])
            /\ LaneOK(raised, records)
  PROVE  LaneStep
<1> DEFINE i == caller[c].id
           R == [records EXCEPT ![i] = r]
<1>1. /\ records \in [Experiments -> Record \cup {None}]
      /\ caller \in [Callers -> Caller]
  BY DEF IInv, TypeOK
<1>2. lanes = 1 => \A d \in Callers \ {c} : caller[d].step = "idle"
  BY OthersIdle
<1>3. \A j \in Experiments : records[j] # None => Len(records[j].lifecycle) \in Nat
  BY <1>1 DEF Record
<1>4. r.lifecycle \in Seq(States) /\ Len(r.lifecycle) \in Nat
  BY DEF Record
<1>5. CASE /\ Protected(records[i], r)
           /\ records' = R
           /\ caller' = [caller EXCEPT ![c] = next]
           /\ UNCHANGED <<available, lanes, faults, interrupted>>
  <2>1. \A d \in Callers : caller'[d] = IF d = c THEN next ELSE caller[d]
    BY <1>1, <1>5
  <2>2. \A j \in Experiments : records'[j] = IF j = i THEN r ELSE records[j]
    BY <1>1, <1>5
  <2>3. ASSUME lanes = 1, NEW d \in Callers PROVE LaneOK(caller'[d], records')
    <3>1. CASE d = c
      BY <1>5, <2>1, <2>3, <3>1
    <3>2. CASE d # c
      BY <1>2, <2>1, <2>3, <3>2 DEF LaneOK, Running
    <3>3. QED
      BY <3>1, <3>2
  <2>4. ASSUME lanes = 1, NEW d \in Callers, NEW e \in Callers,
               caller'[d].step # "idle", caller'[e].step # "idle"
        PROVE  d = e
    BY <1>2, <2>1, <2>4
  <2>5. ASSUME lanes = 1, NEW j \in Experiments, records[j] # None
        PROVE  /\ Len(records'[j].lifecycle) >= Len(records[j].lifecycle)
               /\ \A k \in 1 .. Len(records[j].lifecycle) :
                    records'[j].lifecycle[k] = records[j].lifecycle[k]
               /\ State(records[j]) \in Terminal => records'[j] = records[j]
    <3>1. CASE j = i
      BY <1>3, <1>4, <2>2, <2>5, <3>1 DEF Extends
    <3>2. CASE j # i
      BY <1>3, <2>2, <2>5, <3>2
    <3>3. QED
      BY <3>1, <3>2
  <2>6. Continues
    BY <2>5 DEF Continues
  <2>7. QED
    BY <1>5, <2>3, <2>4, <2>6 DEF LaneInv, LaneStep
<1>6. CASE Move(c, raised)
  BY <1>2, <1>6, LaneMove
<1>7. CASE /\ caller' = [caller EXCEPT ![c] = raised]
           /\ UNCHANGED <<available, lanes, records>>
  <2>1. \A d \in Callers : caller'[d] = IF d = c THEN raised ELSE caller[d]
    BY <1>1, <1>7
  <2>2. ASSUME lanes' = 1 PROVE \A d \in Callers : LaneOK(caller'[d], records')
    BY <1>7, <2>1, <2>2 DEF LaneInv
  <2>3. ASSUME lanes' = 1, NEW d \in Callers, NEW e \in Callers,
               caller'[d].step # "idle", caller'[e].step # "idle"
        PROVE  d = e
    BY <1>2, <1>7, <2>1, <2>3
  <2>4. Continues
    BY <1>3, <1>7 DEF Continues
  <2>5. QED
    BY <2>2, <2>3, <2>4 DEF LaneInv, LaneStep
<1>8. QED
  BY <1>5, <1>6, <1>7 DEF Save

-----------------------------------------------------------------------------
LEMMA LaneBegin ==
  ASSUME IInv, LaneInv, NEW c \in Callers, NEW step \in {"lookup", "read"},
         NEW items, NEW batch, Begin(c, step, items, batch)
  PROVE  LaneStep
<1> DEFINE next == [Idle EXCEPT !.step = step, !.id = Head(items),
                                !.rest = Tail(items), !.batch = batch]
           busy == {d \in Callers : caller[d].step # "idle"}
<1>1. next.step = step
  BY DEF Idle
<1>2. LaneOK(next, records)
  BY <1>1 DEF LaneOK, Running
<1>3. lanes = 1 => busy = {}
  <2>1. IsFiniteSet(busy)
    BY ExperimentAssumption, FS_Subset
  <2>2. Cardinality(busy) < lanes
    BY DEF Begin
  <2>3. Cardinality(busy) \in Nat
    BY <2>1, FS_CardinalityType
  <2>4. lanes = 1 => Cardinality(busy) = 0
    BY <2>2, <2>3
  <2>5. QED
    BY <2>1, <2>4, FS_EmptySet
<1>4. lanes = 1 => \A d \in Callers \ {c} : caller[d].step = "idle"
  BY <1>3
<1>5. Move(c, next)
  BY DEF Begin, Move
<1>6. QED
  BY <1>2, <1>4, <1>5, LaneMove

LEMMA LaneCommandStep ==
  ASSUME IInv, LaneInv, NEW c \in Callers, Command(c)
  PROVE  LaneStep
BY LaneBegin DEF Command, CreateCommand, RunCommand, BatchCommand

\* What a caller goes on with when a call has returned holds no record.
LEMMA AfterCallInLane ==
  ASSUME NEW c \in Callers, caller[c] \in Caller, NEW R
  PROVE  LaneOK(Idle, R) /\ LaneOK(AfterCreate(c), R) /\ LaneOK(AfterRun(c), R)
<1>1. /\ Idle.step = "idle"
      /\ AfterCreate(c).step \in {"idle", "read"}
      /\ AfterRun(c).step \in {"idle", "lookup"}
  BY DEF Idle, AfterCreate, AfterRun, Caller
<1>2. QED
  BY <1>1 DEF LaneOK, Running

LEMMA LaneCreateStep ==
  ASSUME IInv, LaneInv, NEW c \in Callers, Lookup(c) \/ SaveCreated(c) \/ Read(c)
  PROVE  LaneStep
<1>1. caller[c] \in Caller /\ caller[c].step \in {"lookup", "create", "read"}
  BY DEF IInv, TypeOK, Lookup, SaveCreated, Read
<1>2. caller[c].id \in Experiments
  BY <1>1 DEF IInv, CallerOK
<1>3. lanes = 1 => \A d \in Callers \ {c} : caller[d].step = "idle"
  BY <1>1, OthersIdle
<1>4. CASE Lookup(c)
  <2> DEFINE next == [caller[c] EXCEPT !.step = "create"]
  <2>1. next.step = "create" /\ next.id = caller[c].id
    BY <1>1 DEF Caller
  <2>2. records[caller[c].id] = None => LaneOK(next, records)
    BY <2>1 DEF LaneOK, Running
  <2>3. QED
    BY <1>1, <1>3, <1>4, <2>2, AfterCallInLane, LaneMove DEF Lookup
<1>5. CASE SaveCreated(c)
  <2>1. lanes = 1 => records[caller[c].id] = None
    BY <1>5 DEF LaneInv, LaneOK, SaveCreated
  <2>2. QED
    BY <1>1, <1>2, <1>5, <2>1, AfterCallInLane, CreatedIsSound, LaneSave DEF SaveCreated
<1>6. CASE Read(c)
  <2> DEFINE r == records[caller[c].id]
             next == [caller[c] EXCEPT !.step = "context", !.record = r]
  <2>1. next.step = "context" /\ next.id = caller[c].id /\ next.record = r
    BY <1>1 DEF Caller
  <2>2. LaneOK(next, records)
    BY <2>1 DEF LaneOK, Running
  <2>3. QED
    BY <1>1, <1>3, <1>6, <2>2, AfterCallInLane, LaneMove DEF Read
<1>7. QED
  BY <1>4, <1>5, <1>6

\* What is raised in a run continues what the repository holds.
LEMMA CaughtInLane ==
  ASSUME IInv, RunInv, LaneInv, lanes = 1, NEW c \in Callers,
         caller[c].step \in Running \ {"final"},
         NEW r \in Record, NEW error \in Errors,
         Extends(r.lifecycle, caller[c].record.lifecycle)
  PROVE  LaneOK(Caught(c, r, error), records)
<1> DEFINE next == Caught(c, r, error)
           p == caller[c].record
<1>1. caller[c] \in Caller /\ p \in Record
  BY RunningFacts
<1>2. next.step = "final" /\ next.id = caller[c].id /\ next.record = Failed(r, error)
  BY <1>1 DEF Caught, Caller
<1>3. Failed(r, error).lifecycle = Append(r.lifecycle, "failed")
  BY DEF Failed, Moved, Record
<1>4. Extends(Append(r.lifecycle, "failed"), p.lifecycle)
  <2>1. /\ r.lifecycle \in Seq(States) /\ p.lifecycle \in Seq(States)
        /\ "failed" \in States
    BY <1>1 DEF Record, States
  <2>2. QED
    BY <2>1, AppendExtends
<1>5. records[caller[c].id] = p
  BY DEF LaneInv, LaneOK
<1>6. State(p) \notin Terminal
  BY DEF RunInv, InRunOK
<1>7. QED
  BY <1>2, <1>3, <1>4, <1>5, <1>6 DEF LaneOK, Running

LEMMA LaneRaises ==
  ASSUME IInv, RunInv, LaneInv, NEW c \in Callers, caller[c].step \in Running \ {"final"},
         NEW error \in Errors, Move(c, Caught(c, caller[c].record, error))
  PROVE  LaneStep
<1>1. caller[c].record \in Record
  BY RunningFacts
<1>2. Extends(caller[c].record.lifecycle, caller[c].record.lifecycle)
  BY <1>1, IsItsExtension DEF Record
<1>3. caller[c].step # "idle"
  BY DEF Running
<1>4. lanes = 1 => LaneOK(Caught(c, caller[c].record, error), records)
  BY <1>1, <1>2, CaughtInLane
<1>5. QED
  BY <1>3, <1>4, LaneMove, OthersIdle

LEMMA LaneAdvance ==
  ASSUME IInv, RunInv, LaneInv, NEW c \in Callers, caller[c].step \in Running \ {"final"},
         NEW state \in States, NEW r \in Record,
         r.lifecycle = Append(caller[c].record.lifecycle, state),
         NEW step \in Running \ {"final"}, Advance(c, state, r, step)
  PROVE  LaneStep
<1> DEFINE p == caller[c].record
           next == [caller[c] EXCEPT !.step = step, !.record = r]
<1>1. p \in Record /\ caller[c].id \in Experiments /\ caller[c] \in Caller
  BY RunningFacts
<1>2. "failed" \in Errors
  BY DEF Errors
<1>3. CASE Move(c, Caught(c, p, "failed"))
  BY <1>2, <1>3, LaneRaises
<1>4. CASE Save(c, r, next, Caught(c, r, "failed"))
  <2>1. Extends(r.lifecycle, p.lifecycle)
    <3>1. p.lifecycle \in Seq(States)
      BY <1>1 DEF Record
    <3>2. QED
      BY <3>1, AppendExtends, IsItsExtension
  <2>2. lanes = 1 => records[caller[c].id] = p
    BY DEF LaneInv, LaneOK
  <2>3. State(p) \notin Terminal
    BY DEF RunInv, InRunOK
  <2>4. next.step = step /\ next.id = caller[c].id /\ next.record = r
    BY <1>1 DEF Caller
  <2>5. [records EXCEPT ![caller[c].id] = r][caller[c].id] = r
    BY <1>1 DEF IInv, TypeOK
  <2>6. LaneOK(next, [records EXCEPT ![caller[c].id] = r])
    BY <2>4, <2>5 DEF LaneOK, Running
  <2>7. lanes = 1 => LaneOK(Caught(c, r, "failed"), records)
    BY <1>2, <2>1, CaughtInLane
  <2>8. caller[c].step # "idle"
    BY DEF Running
  <2>9. QED
    BY <1>1, <1>4, <2>1, <2>2, <2>3, <2>6, <2>7, <2>8, LaneSave
<1>5. QED
  BY <1>3, <1>4 DEF Advance

\* Every step of a run that saves appends one state.
LEMMA LaneRunStep ==
  ASSUME IInv, RunInv, LaneInv, NEW c \in Callers,
         \/ BuildContext(c) \/ StartForecasting(c)
         \/ LockForecast(c) \/ StartEvaluating(c)
  PROVE  LaneStep
<1> DEFINE r == caller[c].record
<1>1. caller[c].step \in Running \ {"final"}
  BY DEF BuildContext, StartForecasting, LockForecast, StartEvaluating, Running
<1>2. r \in Record
  BY <1>1, RunningFacts
<1>3. \A state \in States :
        /\ Moved(r, state) \in Record
        /\ Moved(r, state).lifecycle = Append(r.lifecycle, state)
  <2>1. \A state : Moved(r, state).lifecycle = Append(r.lifecycle, state)
    BY <1>2 DEF Moved, Record
  <2>2. QED
    BY <1>2, <2>1, MovedFields
<1>4. {"failed", "insufficient"} \subseteq Errors
  BY DEF Errors
<1>5. ASSUME Raises(c) PROVE LaneStep
  BY <1>1, <1>4, <1>5, LaneRaises DEF Raises
<1>6. /\ {"context_ready", "forecasting", "forecast_locked", "evaluating"} \subseteq States
      /\ {"forecasting", "lock", "reread", "oracle"} \subseteq Running \ {"final"}
  BY DEF States, Running
<1>7. CASE BuildContext(c)
  <2>1. ASSUME NEW v \in Contexts,
               Advance(c, "context_ready",
                       [Moved(r, "context_ready") EXCEPT !.context = v], "forecasting")
        PROVE  LaneStep
    <3> DEFINE m == Moved(r, "context_ready")
               q == [m EXCEPT !.context = v]
    <3>1. m \in Record /\ m.lifecycle = Append(r.lifecycle, "context_ready")
      BY <1>3, <1>6
    <3>2. q \in Record /\ q.lifecycle = Append(r.lifecycle, "context_ready")
      BY <3>1 DEF Record
    <3>3. QED
      BY <1>1, <1>6, <2>1, <3>2, LaneAdvance
  <2>2. CASE Move(c, Caught(c, r, "insufficient"))
    BY <1>1, <1>4, <2>2, LaneRaises
  <2>3. QED
    BY <1>5, <1>7, <2>1, <2>2 DEF BuildContext
<1>8. CASE StartForecasting(c)
  BY <1>1, <1>3, <1>6, <1>8, LaneAdvance DEF StartForecasting
<1>9. CASE LockForecast(c)
  <2> DEFINE m == Moved(r, "forecast_locked")
             q == [m EXCEPT !.forecast = r.context]
  <2>1. m \in Record /\ m.lifecycle = Append(r.lifecycle, "forecast_locked")
    BY <1>3, <1>6
  <2>2. q \in Record /\ q.lifecycle = Append(r.lifecycle, "forecast_locked")
    BY <1>2, <2>1 DEF Record
  <2>3. CASE Advance(c, "forecast_locked", q, "reread")
    BY <1>1, <1>6, <2>2, <2>3, LaneAdvance
  <2>4. QED
    BY <1>5, <1>9, <2>3 DEF LockForecast
<1>10. CASE StartEvaluating(c)
  BY <1>1, <1>3, <1>6, <1>10, LaneAdvance DEF StartEvaluating
<1>11. QED
  BY <1>7, <1>8, <1>9, <1>10

\* What is read back is what the repository holds, and the outcome is noted in
\* a record that continues it.
LEMMA LaneReadBackStep ==
  ASSUME IInv, RunInv, LaneInv, NEW c \in Callers, Reread(c) \/ ConsultOracle(c)
  PROVE  LaneStep
<1> DEFINE r == caller[c].record
<1>1. caller[c].step \in Running \ {"final"}
  BY DEF Reread, ConsultOracle, Running
<1>2. r \in Record /\ caller[c].id \in Experiments /\ caller[c] \in Caller
  BY <1>1, RunningFacts
<1>3. lanes = 1 => \A d \in Callers \ {c} : caller[d].step = "idle"
  BY <1>1, OthersIdle DEF Running
<1>4. ASSUME Raises(c) PROVE LaneStep
  BY <1>1, <1>4, LaneRaises DEF Raises, Errors
<1>5. CASE Reread(c)
  <2> DEFINE locked == records[caller[c].id]
             next == [caller[c] EXCEPT !.step = "evaluating", !.record = locked]
  <2>1. next.step = "evaluating" /\ next.id = caller[c].id /\ next.record = locked
    BY <1>2 DEF Caller
  <2>2. LaneOK(next, records)
    BY <2>1 DEF LaneOK, Running
  <2>3. CASE Move(c, next)
    BY <1>3, <2>2, <2>3, LaneMove
  <2>4. QED
    BY <1>4, <1>5, <2>3 DEF Reread
<1>6. ASSUME NEW q, NEW state \in States, q.lifecycle = Append(r.lifecycle, state),
             Move(c, [caller[c] EXCEPT !.step = "final", !.record = q])
      PROVE  LaneStep
  <2> DEFINE next == [caller[c] EXCEPT !.step = "final", !.record = q]
  <2>1. next.step = "final" /\ next.id = caller[c].id /\ next.record = q
    BY <1>2 DEF Caller
  <2>2. Extends(q.lifecycle, r.lifecycle)
    <3>1. r.lifecycle \in Seq(States)
      BY <1>2 DEF Record
    <3>2. QED
      BY <1>6, <3>1, AppendExtends, IsItsExtension
  <2>3. State(r) \notin Terminal
    BY <1>1 DEF RunInv, InRunOK
  <2>4. lanes = 1 => records[caller[c].id] = r
    BY <1>1 DEF LaneInv, LaneOK
  <2>5. lanes = 1 => LaneOK(next, records)
    BY <2>1, <2>2, <2>3, <2>4 DEF LaneOK, Running
  <2>6. QED
    BY <1>3, <1>6, <2>5, LaneMove
<1>7. CASE ConsultOracle(c) /\ HorizonComplete(caller[c].id)
  <2>1. Evaluated(r).lifecycle = Append(r.lifecycle, "complete")
    BY <1>2 DEF Evaluated, Moved, Record
  <2>2. "complete" \in States
    BY DEF States
  <2>3. QED
    BY <1>4, <1>6, <1>7, <2>1, <2>2 DEF ConsultOracle
<1>8. CASE ConsultOracle(c) /\ ~HorizonComplete(caller[c].id)
  <2> DEFINE f == Failed(r, "incomplete")
             q == [f EXCEPT !.outcome = "incomplete"]
  <2>1. f \in Record /\ f.lifecycle = Append(r.lifecycle, "failed")
    BY <1>2, FailedFields DEF Failed, Moved, Record, Errors
  <2>2. q.lifecycle = Append(r.lifecycle, "failed") /\ "failed" \in States
    BY <2>1 DEF Record, States
  <2>3. QED
    BY <1>4, <1>6, <1>8, <2>2 DEF ConsultOracle
<1>9. QED
  BY <1>5, <1>7, <1>8

LEMMA LaneResultStep ==
  ASSUME IInv, LaneInv, NEW c \in Callers, SaveResult(c)
  PROVE  LaneStep
<1>1. caller[c] \in Caller /\ caller[c].step = "final"
  BY DEF IInv, TypeOK, SaveResult
<1>2. caller[c].id \in Experiments /\ caller[c].record \in Record
  BY <1>1 DEF IInv, CallerOK, Running
<1>3. lanes = 1 => LaneOK(caller[c], records)
  BY DEF LaneInv
<1>4. lanes = 1 =>
        /\ records[caller[c].id] # None =>
              /\ State(records[caller[c].id]) \notin Terminal
              /\ Extends(caller[c].record.lifecycle, records[caller[c].id].lifecycle)
        /\ LaneOK(AfterRun(c), [records EXCEPT ![caller[c].id] = caller[c].record])
        /\ LaneOK(Idle, records)
  <2>1. /\ LaneOK(AfterRun(c), [records EXCEPT ![caller[c].id] = caller[c].record])
        /\ LaneOK(Idle, records)
    BY <1>1, AfterCallInLane
  <2>2. QED
    BY <1>1, <1>3, <2>1 DEF LaneOK
<1>5. Save(c, caller[c].record, AfterRun(c), Idle)
  BY DEF SaveResult
<1>6. QED
  BY <1>1, <1>2, <1>4, <1>5, LaneSave

LEMMA LaneCrashStep ==
  ASSUME IInv, LaneInv, Crash
  PROVE  LaneStep
<1>1. records' = records /\ \A d \in Callers : caller'[d] = Idle
  BY DEF Crash
<1>2. Idle.step = "idle"
  BY DEF Idle
<1>3. \A d \in Callers : LaneOK(caller'[d], records')
  BY <1>1, <1>2 DEF LaneOK, Running
<1>4. LaneInv'
  BY <1>1, <1>2, <1>3 DEF LaneInv
<1>5. \A i \in Experiments : records[i] # None => Len(records[i].lifecycle) \in Nat
  BY DEF IInv, TypeOK, Record
<1>6. QED
  BY <1>1, <1>4, <1>5 DEF Continues, LaneStep

\* LifecycleOnlyExtends: with one lane, whatever is created again, run again,
\* refused, failed or crashed, the saved lifecycle of an experiment is only
\* ever extended and its end is final.
THEOREM LifecyclesOnlyExtend == Spec => LifecycleOnlyExtends
<1>1. Init => LaneInv
  <2>1. Idle.step = "idle"
    BY DEF Idle
  <2>2. QED
    BY <2>1 DEF Init, LaneInv, LaneOK, Running
<1>2. IInv /\ RunInv /\ LaneInv /\ [Next]_vars => LaneStep
  <2> SUFFICES ASSUME IInv, RunInv, LaneInv, [Next]_vars PROVE LaneStep
    OBVIOUS
  <2>1. CASE Crash
    BY <2>1, LaneCrashStep
  <2>2. ASSUME NEW c \in Callers, Command(c) PROVE LaneStep
    BY <2>2, LaneCommandStep
  <2>3. ASSUME NEW c \in Callers, Proceed(c) PROVE LaneStep
    BY <2>3, LaneCreateStep, LaneRunStep, LaneReadBackStep, LaneResultStep DEF Proceed
  <2>4. CASE UNCHANGED vars
    <3>1. records' = records /\ caller' = caller /\ lanes' = lanes
      BY <2>4 DEF vars
    <3>2. \A i \in Experiments : records[i] # None => Len(records[i].lifecycle) \in Nat
      BY DEF IInv, TypeOK, Record
    <3>3. QED
      BY <3>1, <3>2 DEF LaneInv, Continues, LaneStep
  <2>5. QED
    BY <2>1, <2>2, <2>3, <2>4 DEF Next
<1>3. LaneStep => LaneInv' /\ [Continues]_vars
  BY DEF LaneStep
<1>4. QED
  BY <1>1, <1>2, <1>3, ExperimentInvariant, RunInvariant, PTL
  DEF Spec, LifecycleOnlyExtends, Continues
=============================================================================
