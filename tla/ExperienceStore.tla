---------------------------- MODULE ExperienceStore ----------------------------
(***************************************************************************)
(* The store of judged decisions (experience/store.py): one immutable      *)
(* payload file per episode beside an index in SQLite.  save writes the    *)
(* payload inside a write transaction of the index, and the process may    *)
(* end between the file and the commit; readers take no lock.              *)
(*                                                                         *)
(* An episode is named by what its identities tell apart: the time of the  *)
(* decision, the weight generation it was made with and the run it was     *)
(* made in.  What is not in the name follows from the market at that time. *)
(* Its identity is a digest of its content, so equal identities are equal  *)
(* episodes and the conflicts that save refuses are corrupted files.       *)
(***************************************************************************)
EXTENDS Integers, FiniteSets

CONSTANTS
    Episodes,       \* [time, generation, run] of complete experiments
    OldEpisodes,    \* those the store holds at first
    Horizon,        \* bars from a decision to its outcome
    Savers,         \* threads and processes that save
    MaxFaults,      \* crashes and failed writes
    None

ASSUME StoreAssumption ==
    /\ Episodes \subseteq [time : Nat, generation : Nat, run : Nat] /\ IsFiniteSet(Episodes)
    /\ OldEpisodes \subseteq Episodes
    /\ Horizon \in Nat \ {0} /\ MaxFaults \in Nat
    /\ None \notin Episodes

VARIABLES
    payloads,       \* episodes with a payload file
    indexed,        \* rows of the index
    save,           \* saver -> [step, episode]
    faults          \* faults so far

storeVars == <<payloads, indexed, save>>

\* The truth about a decision: the Judge evaluates at the end of the horizon
\* (episode_from_experiment takes it from a complete experiment alone).
TruthKnown(e) == e.time + Horizon

\* equivalence_id leaves out the run and nothing else.
EquivalenceId(e) == [time |-> e.time, generation |-> e.generation]

\* Order of the decision times, then of the identities.
Earlier(e, f) ==
    \/ e.time < f.time
    \/ /\ e.time = f.time
       /\ \/ e.generation < f.generation
          \/ e.generation = f.generation /\ e.run < f.run

\* independent_trials: the earliest episode of each equivalence.
IndependentTrials(batch) ==
    {e \in batch : \A f \in batch : EquivalenceId(f) = EquivalenceId(e) => ~Earlier(f, e)}

\* temporal_split: of the decisions before the cutoff only those train whose truth
\* was known strictly before it.
Training(batch, cutoff) == {e \in batch : e.time < cutoff /\ TruthKnown(e) < cutoff}

-----------------------------------------------------------------------------
Resting == [step |-> "idle", episode |-> None]

StoreInit ==
    /\ payloads = OldEpisodes /\ indexed = OldEpisodes
    /\ save = [s \in Savers |-> Resting]

\* BEGIN IMMEDIATE: one writer at a time, whatever its process; an episode with
\* a row is a hit.
SaveBegin(s, e) ==
    /\ save[s].step = "idle" /\ \A t \in Savers : save[t].step = "idle"
    /\ e \notin indexed
    /\ save' = [save EXCEPT ![s] = [step |-> "payload", episode |-> e]]
    /\ UNCHANGED <<payloads, indexed, faults>>

\* Mutant: the row is committed before the payload is written.
SaveRowFirst(s) ==
    /\ save[s].step = "payload"
    /\ indexed' = indexed \cup {save[s].episode}
    /\ save' = [save EXCEPT ![s].step = "row"]
    /\ UNCHANGED <<payloads, faults>>

\* The payload is written, or one that a crash left is adopted.
SavePayload(s) ==
    /\ save[s].step = "payload"
    /\ payloads' = payloads \cup {save[s].episode}
    /\ save' = [save EXCEPT ![s].step = "row"]
    /\ UNCHANGED <<indexed, faults>>

\* The row is inserted and committed.
SaveRow(s) ==
    /\ save[s].step = "row"
    /\ indexed' = indexed \cup {save[s].episode}
    /\ save' = [save EXCEPT ![s] = Resting]
    /\ UNCHANGED <<payloads, faults>>

\* A write fails, or the process ends: the transaction is rolled back, the
\* payload stays.
SaveFails(s) ==
    /\ save[s].step # "idle" /\ faults < MaxFaults
    /\ faults' = faults + 1
    /\ save' = [save EXCEPT ![s] = Resting]
    /\ UNCHANGED <<payloads, indexed>>

StoreNext ==
    \E s \in Savers :
        \/ \E e \in Episodes : SaveBegin(s, e)
        \/ SavePayload(s) \/ SaveRow(s) \/ SaveFails(s)

StoreTypeOK ==
    /\ payloads \subseteq Episodes /\ indexed \subseteq Episodes
    /\ save \in [Savers -> [step : {"idle", "payload", "row"}, episode : Episodes \cup {None}]]
    /\ \A s \in Savers : save[s].step # "idle" => save[s].episode \in Episodes
    /\ faults \in 0 .. MaxFaults

\* query selects rows and then reads their payloads, without a lock: every row has
\* its payload at every instant, through crashes and failed writes (save, get).
IndexedIsReadable == indexed \subseteq payloads
=============================================================================
