---------------------------- MODULE WeightLearning ----------------------------
(***************************************************************************)
(* Learning the weights of the Council (learning/): the Librarian proposes *)
(* a change from judged episodes, the Teacher evaluates it on held-out     *)
(* ones, and WeightProfileStore promotes what was accepted to a new        *)
(* generation, beside rollbacks to ancestors.  Learners work concurrently  *)
(* on one store object, and the process may end between any two writes.    *)
(*                                                                         *)
(* One agent in one scope: its weight is [long, recent], in UnitWeight-ths *)
(* and rounded down.  The scores of the Teacher are data: whether the      *)
(* proposed or the half-sized change passes is left open.  Times are bars, *)
(* chosen by the caller as in the code.                                    *)
(***************************************************************************)
EXTENDS ExperienceStore, Sequences

CONSTANTS
    Learners,           \* threads that learn
    Cutoffs, Times,     \* cutoffs, and times of proposals and evaluations, that
                        \* callers may choose
    Correct,            \* decision times at which the agent was right
    UnitWeight,         \* a weight of 1.0
    MaximumDelta,       \* LibrarianConfig
    MinimumSamples,
    FullConfidence,
    RecentWindow,
    MinimumHeldOut,     \* TeacherConfig
    MaxGeneration,      \* the last generation with a name of four digits
    MaxReviews          \* bound on recorded reviews

ASSUME LearningAssumption ==
    /\ Cutoffs \subseteq Nat /\ Times \subseteq Nat
    /\ UnitWeight \in Nat \ {0} /\ MaximumDelta \in Nat \ {0}
    /\ MinimumSamples \in Nat \ {0, 1} /\ FullConfidence \in Nat
    /\ FullConfidence >= MinimumSamples
    /\ RecentWindow \in Nat \ {0, 1} /\ MinimumHeldOut \in Nat \ {0, 1}
    /\ MaxGeneration \in Nat /\ MaxReviews \in Nat
    /\ None \notin 0 .. MaxGeneration

VARIABLES
    profiles,       \* stored generation -> its profile
    reviews,        \* the stored reviews
    active,         \* the generation of the pointer, None
    learner         \* learner -> what it is doing

learningVars == <<profiles, reviews, active, learner>>
vars == <<storeVars, learningVars, faults>>

Generations == 0 .. MaxGeneration

-----------------------------------------------------------------------------
(* The Librarian.                                                          *)

\* Mutant: an episode trains when its decision is old enough.
EligibleByDecision(batch, cutoff) == IndependentTrials({e \in batch : e.time < cutoff})

\* The trials of a batch whose truth was known before the cutoff.
Eligible(batch, cutoff) == IndependentTrials(Training(batch, cutoff))

Least(a, b) == IF a < b THEN a ELSE b
Greatest(a, b) == IF a > b THEN a ELSE b

\* The weight that an accuracy of right out of n calls for, within [0, 4].
Target(right, n) ==
    Greatest(0, Least(4 * UnitWeight,
                      UnitWeight + (right * UnitWeight) \div n - UnitWeight \div 2))

BoundedMove(current, target, delta) ==
    Greatest(current - delta, Least(current + delta, target))

\* The latest trials of a set, as many as the window holds.
Recent(trials) ==
    {e \in trials : Cardinality({f \in trials : Earlier(e, f)}) < RecentWindow}

RightOf(trials) == Cardinality({e \in trials : e.time \in Correct})

\* The proposed weight, which is the current one when there is nothing to change.
Proposed(weight, trials) ==
    LET n == Cardinality(trials)
        delta == (MaximumDelta * Least(n, FullConfidence)) \div FullConfidence
        recent == Recent(trials) IN
    IF n < MinimumSamples THEN weight
    ELSE [long   |-> BoundedMove(weight.long, Target(RightOf(trials), n), delta),
          recent |-> BoundedMove(weight.recent,
                                 Target(RightOf(recent), Cardinality(recent)), delta)]

-----------------------------------------------------------------------------
(* The Teacher.                                                            *)

\* Episodes that evaluate_profile takes: those that overlap the outcome of the
\* one taken before are passed over.
NonOverlapping(trials) ==
    LET Nth(n) == CHOOSE e \in trials : Cardinality({f \in trials : Earlier(f, e)}) = n - 1
        \* the end of the last outcome among the first n trials
        exit[n \in 0 .. Cardinality(trials)] ==
            IF n = 0 THEN 0
            ELSE IF Nth(n).time < exit[n - 1] THEN exit[n - 1] ELSE TruthKnown(Nth(n))
    IN {Nth(n) : n \in {m \in 1 .. Cardinality(trials) : Nth(m).time >= exit[m - 1]}}

\* What evaluate demands of the held-out trials before it scores them.
Admissible(proposal, trials, at) ==
    /\ proposal.created <= at
    /\ Cardinality(trials) >= MinimumHeldOut
    /\ \A e \in trials : /\ e \notin proposal.training
                         /\ \A f \in proposal.training : EquivalenceId(e) # EquivalenceId(f)
                         /\ e.time >= proposal.cutoff
                         /\ TruthKnown(e) <= at
    /\ Cardinality(NonOverlapping(trials)) >= MinimumHeldOut

\* reduced_changes: half of the way.
Reduced(current, proposed) ==
    [long   |-> (current.long + proposed.long) \div 2,
     recent |-> (current.recent + proposed.recent) \div 2]

\* The possible decisions, with the weight each accepts; without a change there
\* is nothing to accept.
Decisions(current, proposed) ==
    {[decision |-> "reject", weight |-> None]} \cup
    IF proposed = current THEN {}
    ELSE {[decision |-> "accept", weight |-> proposed],
          [decision |-> "reduced", weight |-> Reduced(current, proposed)]}

-----------------------------------------------------------------------------
(* The profile store.  Its lock is held from the first look of an          *)
(* operation to its last write.                                            *)

Stored == DOMAIN profiles

\* The profiles with one more file, or one written again.
WithProfile(g, profile) ==
    [h \in Stored \cup {g} |-> IF h = g THEN profile ELSE profiles[h]]

\* The generations above g in its own line: the fewest that hold the parent of
\* g and of each of themselves.
Ancestors(g) ==
    {p \in Generations :
        \A line \in SUBSET Generations :
            (\A h \in (line \cup {g}) \cap Stored : profiles[h].parent \in line \cup {None})
               => p \in line}

Initial == [parent |-> None, weight |-> [long |-> UnitWeight, recent |-> UnitWeight]]

\* Mutant: the default of apply_changes, the generation after the base.
NextAfterBase(base) == base + 1

\* promote numbers past every stored generation, of whatever line.
NextGeneration(base) == 1 + (CHOOSE g \in Stored : \A h \in Stored : h <= g)

Busy == {"init", "review", "profile", "pointer"}
LockFree == \A l \in Learners : learner[l].step \notin Busy

Idle == [step |-> "idle", proposal |-> None, result |-> None, generation |-> None]

Init ==
    /\ StoreInit /\ faults = 0
    /\ profiles = [g \in {} |-> None]
    /\ reviews = {} /\ active = None
    /\ learner = [l \in Learners |-> Idle]

Goto(l, next) == learner' = [learner EXCEPT ![l] = next]

\* initialize writes generation zero, and the pointer where there is none.
Initialize(l) ==
    /\ learner[l].step = "idle" /\ LockFree
    /\ active = None
    /\ profiles' = WithProfile(0, Initial)
    /\ Goto(l, [Idle EXCEPT !.step = "init"])
    /\ UNCHANGED <<storeVars, reviews, active, faults>>

InitializePointer(l) ==
    /\ learner[l].step = "init"
    /\ active' = 0
    /\ Goto(l, Idle)
    /\ UNCHANGED <<storeVars, profiles, reviews, faults>>

\* The Librarian reads the active profile and what a query returns.
Propose(l, cutoff, created) ==
    /\ learner[l].step = "idle" /\ active # None
    /\ created >= cutoff /\ Cardinality(reviews) < MaxReviews
    /\ LET trials == Eligible(indexed, cutoff) IN
       Goto(l, [Idle EXCEPT !.step = "proposed", !.proposal =
                  [base |-> active, cutoff |-> cutoff, created |-> created,
                   training |-> trials,
                   current |-> profiles[active].weight,
                   proposed |-> Proposed(profiles[active].weight, trials)]])
    /\ UNCHANGED <<storeVars, profiles, reviews, active, faults>>

\* The Teacher, given any episodes of the store; it raises or decides.
Evaluate(l, batch, at) ==
    LET proposal == learner[l].proposal
        trials == IndependentTrials(batch) IN
    /\ learner[l].step = "proposed"
    /\ IF Admissible(proposal, trials, at)
         THEN \E d \in Decisions(proposal.current, proposal.proposed) :
                Goto(l, [learner[l] EXCEPT !.step = "evaluated", !.result =
                           [decision |-> d.decision, weight |-> d.weight, heldOut |-> trials]])
         ELSE Goto(l, Idle)
    /\ UNCHANGED <<storeVars, profiles, reviews, active, faults>>

\* promote takes the lock; a base that is no longer active is refused.
Promote(l) ==
    /\ learner[l].step = "evaluated" /\ LockFree
    /\ Goto(l, IF learner[l].proposal.base = active
                 THEN [learner[l] EXCEPT !.step = "review"] ELSE Idle)
    /\ UNCHANGED <<storeVars, profiles, reviews, active, faults>>

\* What is written of a proposal and its result.
Review(l) ==
    [base     |-> learner[l].proposal.base,     training |-> learner[l].proposal.training,
     decision |-> learner[l].result.decision,   weight   |-> learner[l].result.weight,
     heldOut  |-> learner[l].result.heldOut]

\* The review is recorded whatever the decision; a rejection ends there, and so
\* does a generation that has no name.
RecordReview(l) ==
    /\ learner[l].step = "review"
    /\ reviews' = reviews \cup {Review(l)}
    /\ Goto(l, IF learner[l].result.decision = "reject" \/ NextGeneration(active) > MaxGeneration
                 THEN Idle
                 ELSE [learner[l] EXCEPT !.step = "profile", !.generation = NextGeneration(active)])
    /\ UNCHANGED <<storeVars, profiles, active, faults>>

NewProfile(l) == [parent |-> learner[l].proposal.base, weight |-> learner[l].result.weight]

\* A profile under the same name with another content would be refused.
Conflict(l) ==
    learner[l].generation \in Stored /\ profiles[learner[l].generation] # NewProfile(l)

\* Mutant: the pointer is moved before the profile is written.
WriteProfileLate(l) ==
    /\ learner[l].step = "profile"
    /\ active' = learner[l].generation
    /\ Goto(l, [learner[l] EXCEPT !.step = "pointer"])
    /\ UNCHANGED <<storeVars, profiles, reviews, faults>>

WriteProfile(l) ==
    /\ learner[l].step = "profile"
    /\ IF Conflict(l)
         THEN Goto(l, Idle) /\ UNCHANGED profiles
         ELSE /\ profiles' = WithProfile(learner[l].generation, NewProfile(l))
              /\ Goto(l, [learner[l] EXCEPT !.step = "pointer"])
    /\ UNCHANGED <<storeVars, reviews, active, faults>>

WriteActive(l) ==
    /\ learner[l].step = "pointer"
    /\ active' = learner[l].generation
    /\ Goto(l, Idle)
    /\ UNCHANGED <<storeVars, profiles, reviews, faults>>

\* rollback moves the pointer to an ancestor of the active generation.
Rollback(g) ==
    /\ LockFree /\ active # None
    /\ g \in Stored /\ g \in Ancestors(active)
    /\ active' = g
    /\ UNCHANGED <<storeVars, profiles, reviews, learner, faults>>

\* A write fails: what was written before it stays.
WriteFails(l) ==
    /\ learner[l].step \in Busy /\ faults < MaxFaults
    /\ faults' = faults + 1
    /\ Goto(l, Idle)
    /\ UNCHANGED <<storeVars, profiles, reviews, active>>

\* The process ends between two writes and is started again.
Crash ==
    /\ faults < MaxFaults /\ faults' = faults + 1
    /\ save' = [s \in Savers |-> Resting]
    /\ learner' = [l \in Learners |-> Idle]
    /\ UNCHANGED <<payloads, indexed, profiles, reviews, active>>

LearningNext ==
    \/ \E l \in Learners :
         \/ Initialize(l) \/ InitializePointer(l)
         \/ \E cutoff \in Cutoffs, created \in Times : Propose(l, cutoff, created)
         \/ \E batch \in SUBSET indexed, at \in Times : Evaluate(l, batch, at)
         \/ Promote(l) \/ RecordReview(l) \/ WriteProfile(l) \/ WriteActive(l)
         \/ WriteFails(l)
    \/ \E g \in Generations : Rollback(g)
    \/ Crash

Next == (StoreNext /\ UNCHANGED learningVars) \/ LearningNext

Spec == Init /\ [][Next]_vars

-----------------------------------------------------------------------------
(* Properties.                                                             *)

Weight == [long : 0 .. 4 * UnitWeight, recent : 0 .. 4 * UnitWeight]
Profile == [parent : Generations \cup {None}, weight : Weight]
Proposal == [base : Generations, cutoff : Cutoffs, created : Times,
             training : SUBSET Episodes, current : Weight, proposed : Weight]
Result == [decision : {"reject", "accept", "reduced"}, weight : Weight \cup {None},
           heldOut : SUBSET Episodes]

TypeOK ==
    /\ StoreTypeOK
    /\ Stored \subseteq Generations /\ profiles \in [Stored -> Profile]
    /\ reviews \subseteq [base : Generations, training : SUBSET Episodes,
                          decision : {"reject", "accept", "reduced"},
                          weight : Weight \cup {None}, heldOut : SUBSET Episodes]
    /\ active \in Generations \cup {None}
    /\ \A l \in Learners :
         /\ learner[l].step \in Busy \cup {"idle", "proposed", "evaluated"}
         /\ learner[l].proposal \in Proposal \cup {None}
         /\ learner[l].result \in Result \cup {None}
         /\ learner[l].generation \in Generations \cup {None}

\* The active pointer names a stored generation from which the parents lead, each
\* stored and each older, to generation zero: whatever crash or failed write came
\* between a profile and the pointer, the Council has its weights and a rollback
\* can walk the line (promote, rollback, initialize).
ActiveIsLineal ==
    active # None =>
        /\ active \in Stored
        /\ \A g \in Ancestors(active) \cup {active} :
             g \in Stored /\ (g = 0 \/ (profiles[g].parent # None /\ profiles[g].parent < g))

\* Every generation but the first is earned: a recorded review, not a rejection,
\* of a proposal for its parent accepts the very weight it holds, and the truth of
\* every episode the proposal was trained on was known before the first decision
\* it was validated with (propose, evaluate, promote; what may happen between them
\* is a crash, a rollback, another promotion or new episodes).
GenerationIsEarned ==
    \A g \in Stored \ {0} :
        \E r \in reviews :
            /\ r.decision # "reject"
            /\ r.base = profiles[g].parent /\ r.weight = profiles[g].weight
            /\ \A e \in r.training, f \in r.heldOut : TruthKnown(e) < f.time
            /\ Cardinality(r.training) >= MinimumSamples

\* A promotion that has passed its checks never meets a generation of the same
\* name, though rollbacks and crashes leave generations that no line reaches
\* (promote's number, _write_profile's refusal).
PromotionNeverConflicts ==
    \A l \in Learners : learner[l].step = "profile" => ~Conflict(l)
=============================================================================
