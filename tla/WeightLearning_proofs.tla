------------------------- MODULE WeightLearning_proofs -------------------------
(***************************************************************************)
(* Learning for any number of learners and savers, any episodes, cutoffs   *)
(* and times, and any number of crashes and failed writes: the index can   *)
(* be read, every generation is earned, and promotions never conflict.     *)
(*                                                                         *)
(* A generation is earned because of what its learner found before it took *)
(* the lock (LearnerOK), which nothing that happens meanwhile can undo;    *)
(* promotions do not conflict because one learner is inside the lock, and  *)
(* numbers past every stored generation. The line of ancestors of a stored *)
(* generation is stored, as its parent is stored and older (LineInv).      *)
(***************************************************************************)
EXTENDS WeightLearning, FiniteSetTheorems, WellFoundedInduction, TLAPS

\* Every row has its payload, and so does the one about to be committed.
StoreOK ==
    /\ StoreTypeOK
    /\ IndexedIsReadable
    /\ \A s \in Savers : save[s].step = "row" => save[s].episode \in payloads

\* A proposal to change a weight rests on enough episodes, known before the cutoff.
Founded(proposal) ==
    /\ proposal.base # None
    /\ \A e \in proposal.training : TruthKnown(e) < proposal.cutoff
    /\ proposal.training \subseteq Episodes
    /\ proposal.cutoff \in Nat
    /\ proposal.proposed # proposal.current => Cardinality(proposal.training) >= MinimumSamples

\* What is accepted is a change, validated with decisions from the cutoff on.
Judged(proposal, result) ==
    /\ result.decision # "reject" => proposal.proposed # proposal.current
    /\ result.heldOut \subseteq Episodes
    /\ \A f \in result.heldOut : f.time >= proposal.cutoff

Record(x) ==
    x = [step |-> x.step, proposal |-> x.proposal, result |-> x.result,
         generation |-> x.generation]

\* What is true of a learner at each of its steps.
LearnerOK(l) ==
    /\ Record(learner[l])
    /\ learner[l].step \in Busy \cup {"idle", "proposed", "evaluated"}
    /\ learner[l].step \in {"proposed", "evaluated", "review", "profile", "pointer"} =>
         active # None /\ Founded(learner[l].proposal)
    /\ learner[l].step \in {"evaluated", "review", "profile", "pointer"} =>
         Judged(learner[l].proposal, learner[l].result)
    /\ learner[l].step = "init" => 0 \in Stored
    /\ learner[l].step \in {"profile", "pointer"} =>
         /\ Review(l) \in reviews /\ learner[l].result.decision # "reject"
         /\ learner[l].generation \in Generations \ {0}
    /\ learner[l].step = "profile" => learner[l].generation \notin Stored
    /\ learner[l].step = "pointer" => learner[l].generation \in Stored

ProfilesOK ==
    /\ Stored \subseteq Generations
    /\ active # None => active \in Stored
    /\ GenerationIsEarned

IInv ==
    /\ StoreOK
    /\ DOMAIN learner = Learners /\ learner = [l \in Learners |-> learner[l]]
    /\ ProfilesOK
    /\ \A l \in Learners : LearnerOK(l)
    /\ \A l, k \in Learners : learner[l].step \in Busy /\ learner[k].step \in Busy => l = k

-----------------------------------------------------------------------------
(* The store.                                                              *)

LEMMA StoreStep ==
  ASSUME StoreOK, StoreNext \/ Crash \/ UNCHANGED <<storeVars, faults>>
  PROVE  StoreOK'
<1> USE StoreAssumption
<1>1. ASSUME NEW s \in Savers, NEW e \in Episodes, SaveBegin(s, e)
      PROVE  StoreOK'
  BY <1>1 DEF StoreOK, StoreTypeOK, IndexedIsReadable, SaveBegin
<1>2. ASSUME NEW s \in Savers, SavePayload(s)
      PROVE  StoreOK'
  BY <1>2 DEF StoreOK, StoreTypeOK, IndexedIsReadable, SavePayload
<1>3. ASSUME NEW s \in Savers, SaveRow(s)
      PROVE  StoreOK'
  BY <1>3 DEF StoreOK, StoreTypeOK, IndexedIsReadable, SaveRow, Resting
<1>4. ASSUME NEW s \in Savers, SaveFails(s)
      PROVE  StoreOK'
  BY <1>4 DEF StoreOK, StoreTypeOK, IndexedIsReadable, SaveFails, Resting
<1>5. CASE Crash
  BY <1>5 DEF StoreOK, StoreTypeOK, IndexedIsReadable, Crash, Resting
<1>6. CASE UNCHANGED <<storeVars, faults>>
  BY <1>6 DEF StoreOK, StoreTypeOK, IndexedIsReadable, storeVars
<1> QED
  BY <1>1, <1>2, <1>3, <1>4, <1>5, <1>6 DEF StoreNext

-----------------------------------------------------------------------------
(* Numbers of generations.                                                 *)

\* A set of generations that is not empty has a greatest element.
LEMMA GreatestGeneration ==
  ASSUME NEW S \in SUBSET Generations, S # {}
  PROVE  \E g \in S : \A h \in S : h <= g
<1> DEFINE T == {MaxGeneration - g : g \in S}
<1>1. T \subseteq Nat /\ T # {}
  <2>1. \A g \in S : g \in Nat /\ MaxGeneration - g \in Nat
    BY LearningAssumption DEF Generations
  <2> QED
    BY <2>1
<1>2. \E x \in T : \A y \in T : ~ (<<y, x>> \in OpToRel(<, Nat))
  BY <1>1, NatLessThanWellFounded, WFMin
<1>3. PICK x \in T : \A y \in T : ~ (<<y, x>> \in OpToRel(<, Nat))
  BY <1>2
<1>4. \A y \in T : ~(y < x)
  BY <1>1, <1>3 DEF OpToRel
<1>5. PICK g \in S : x = MaxGeneration - g
  BY <1>3
<1>6. ASSUME NEW h \in S PROVE h <= g
  <2>1. MaxGeneration - h \in T
    OBVIOUS
  <2>2. ~(MaxGeneration - h < MaxGeneration - g)
    BY <1>4, <1>5, <2>1
  <2> QED
    BY <2>2, LearningAssumption DEF Generations
<1> QED
  BY <1>6

\* promote's number is that of no stored generation, and not zero.
LEMMA NextIsNew ==
  ASSUME NEW base, active # None, ProfilesOK, NextGeneration(base) <= MaxGeneration
  PROVE  /\ NextGeneration(base) \in Generations \ {0}
         /\ NextGeneration(base) \notin Stored
<1>1. Stored \in SUBSET Generations /\ Stored # {}
  BY DEF Stored, ProfilesOK
<1>2. \E g \in Stored : \A h \in Stored : h <= g
  BY <1>1, GreatestGeneration
<1> DEFINE last == CHOOSE g \in Stored : \A h \in Stored : h <= g
<1>3. last \in Stored /\ \A h \in Stored : h <= last
  BY <1>2
<1>4. NextGeneration(base) = 1 + last
  BY DEF NextGeneration
<1> HIDE DEF last
<1>5. last \in Nat
  BY <1>1, <1>3 DEF Generations
<1>6. 1 + last \in Generations \ {0} /\ 1 + last \notin Stored
  BY <1>3, <1>4, <1>5, LearningAssumption DEF Generations
<1> QED
  BY <1>4, <1>6 DEF Stored

-----------------------------------------------------------------------------
(* The Librarian and the Teacher.                                          *)

\* What is eligible was known before the cutoff, and is finite.
LEMMA EligibleEpisodes ==
  ASSUME NEW batch \in SUBSET Episodes, NEW cutoff
  PROVE  /\ Eligible(batch, cutoff) \subseteq batch
         /\ \A e \in Eligible(batch, cutoff) : TruthKnown(e) < cutoff
         /\ Cardinality(Eligible(batch, cutoff)) \in Nat
<1>1. Eligible(batch, cutoff) \subseteq Training(batch, cutoff)
  BY DEF Eligible, IndependentTrials
<1>2. Training(batch, cutoff) \subseteq batch
  BY DEF Training
<1>3. \A e \in Training(batch, cutoff) : TruthKnown(e) < cutoff
  BY DEF Training
<1>4. IsFiniteSet(Eligible(batch, cutoff))
  BY <1>1, <1>2, StoreAssumption, FS_Subset
<1> QED
  BY <1>1, <1>2, <1>3, <1>4, FS_CardinalityType

\* The weight stays as it is on too few trials.
LEMMA TooFewChangeNothing ==
  ASSUME NEW weight, NEW trials, Cardinality(trials) \in Nat, Proposed(weight, trials) # weight
  PROVE  Cardinality(trials) >= MinimumSamples
BY LearningAssumption DEF Proposed

\* Steps of one learner leave the others' part of the invariant alone, as long
\* as profiles they depend on and reviews stay.
LEMMA OthersKeep ==
  ASSUME NEW k \in Learners, LearnerOK(k), learner'[k] = learner[k],
         reviews \subseteq reviews', active # None => active' # None,
         Stored \subseteq Stored',
         learner[k].step = "profile" => learner[k].generation \notin Stored',
         LearningAssumption
  PROVE  LearnerOK(k)'
<1>1. Review(k)' = Review(k)
  BY DEF Review
<1> QED
  BY <1>1 DEF LearnerOK

\* A learner that rests asks nothing.
LEMMA IdleOK ==
  ASSUME NEW l \in Learners, learner'[l] = Idle
  PROVE  LearnerOK(l)'
BY DEF LearnerOK, Idle, Record, Busy

\* A step outside the profiles and the lock: what remains is the learner's part.
LEMMA OutsideKeeps ==
  ASSUME IInv, NEW l \in Learners, NEW next, Goto(l, next), LearnerOK(l)',
         UNCHANGED <<storeVars, profiles, active, faults>>, reviews \subseteq reviews',
         next.step \in Busy => learner[l].step \in Busy \/ LockFree
  PROVE  IInv'
<1>1. /\ learner'[l] = next
      /\ \A k \in Learners \ {l} : learner'[k] = learner[k]
      /\ DOMAIN learner' = Learners /\ learner' = [k \in Learners |-> learner'[k]]
  BY DEF Goto, IInv
<1>2. StoreOK'
  BY StoreStep DEF IInv
<1>3. ProfilesOK'
  BY DEF IInv, ProfilesOK, Stored, GenerationIsEarned
<1>4. ASSUME NEW k \in Learners PROVE LearnerOK(k)'
  <2>1. CASE k = l
    BY <2>1
  <2>2. CASE k # l
    BY <1>1, <2>2, OthersKeep, LearningAssumption DEF IInv, LearnerOK, Stored
  <2> QED
    BY <2>1, <2>2
<1>5. ASSUME NEW j \in Learners, NEW k \in Learners,
             learner'[j].step \in Busy, learner'[k].step \in Busy
      PROVE  j = k
  BY <1>1, <1>5 DEF IInv, LockFree
<1> QED
  BY <1>1, <1>2, <1>3, <1>4, <1>5 DEF IInv

\* What a learner's record becomes when two of its fields change.
LEMMA ProposedRecord ==
  ASSUME NEW x, Record(x), NEW r
  PROVE  [x EXCEPT !.step = "proposed", !.proposal = r] =
           [step |-> "proposed", proposal |-> r, result |-> x.result, generation |-> x.generation]
<1> DEFINE y == [x EXCEPT !.step = "proposed"]
<1>1. y = [step |-> "proposed", proposal |-> x.proposal, result |-> x.result, generation |-> x.generation]
  BY DEF Record
<1>2. [x EXCEPT !.step = "proposed", !.proposal = r] = [y EXCEPT !.proposal = r]
  OBVIOUS
<1> HIDE DEF y
<1>3. [y EXCEPT !.proposal = r] =
        [step |-> "proposed", proposal |-> r, result |-> x.result, generation |-> x.generation]
  BY <1>1
<1> QED
  BY <1>2, <1>3

LEMMA EvaluatedRecord ==
  ASSUME NEW x, Record(x), NEW r
  PROVE  [x EXCEPT !.step = "evaluated", !.result = r] =
           [step |-> "evaluated", proposal |-> x.proposal, result |-> r, generation |-> x.generation]
<1> DEFINE y == [x EXCEPT !.step = "evaluated"]
<1>1. y = [step |-> "evaluated", proposal |-> x.proposal, result |-> x.result, generation |-> x.generation]
  BY DEF Record
<1>2. [x EXCEPT !.step = "evaluated", !.result = r] = [y EXCEPT !.result = r]
  OBVIOUS
<1> HIDE DEF y
<1>3. [y EXCEPT !.result = r] =
        [step |-> "evaluated", proposal |-> x.proposal, result |-> r, generation |-> x.generation]
  BY <1>1
<1> QED
  BY <1>2, <1>3

LEMMA ProfileRecord ==
  ASSUME NEW x, Record(x), NEW r
  PROVE  [x EXCEPT !.step = "profile", !.generation = r] =
           [step |-> "profile", proposal |-> x.proposal, result |-> x.result, generation |-> r]
<1> DEFINE y == [x EXCEPT !.step = "profile"]
<1>1. y = [step |-> "profile", proposal |-> x.proposal, result |-> x.result, generation |-> x.generation]
  BY DEF Record
<1>2. [x EXCEPT !.step = "profile", !.generation = r] = [y EXCEPT !.generation = r]
  OBVIOUS
<1> HIDE DEF y
<1>3. [y EXCEPT !.generation = r] =
        [step |-> "profile", proposal |-> x.proposal, result |-> x.result, generation |-> r]
  BY <1>1
<1> QED
  BY <1>2, <1>3

LEMMA ProposeKeeps ==
  ASSUME IInv, NEW l \in Learners, NEW cutoff \in Cutoffs, NEW created \in Times,
         Propose(l, cutoff, created)
  PROVE  IInv'
<1> DEFINE trials == Eligible(indexed, cutoff)
           weight == profiles[active].weight
           proposal == [base |-> active, cutoff |-> cutoff, created |-> created,
                        training |-> trials, current |-> weight,
                        proposed |-> Proposed(weight, trials)]
           next == [Idle EXCEPT !.step = "proposed", !.proposal = proposal]
<1>1. /\ Goto(l, next) /\ active # None
      /\ UNCHANGED <<storeVars, profiles, reviews, active, faults>>
  BY DEF Propose
<1>2. indexed \subseteq Episodes
  BY DEF IInv, StoreOK, StoreTypeOK
<1>3. Founded(proposal)
  <2>1. /\ trials \subseteq indexed /\ \A e \in trials : TruthKnown(e) < cutoff
        /\ Cardinality(trials) \in Nat
    BY <1>2, EligibleEpisodes
  <2>2. Proposed(weight, trials) # weight => Cardinality(trials) >= MinimumSamples
    BY <2>1, TooFewChangeNothing
  <2> HIDE DEF trials, weight
  <2> QED
    BY <1>1, <1>2, <2>1, <2>2, LearningAssumption DEF Founded
<1> HIDE DEF proposal
<1>4. next = [step |-> "proposed", proposal |-> proposal, result |-> None, generation |-> None]
  <2>1. Record(Idle)
    BY DEF Idle, Record
  <2> QED
    BY <2>1, ProposedRecord DEF Idle
<1> HIDE DEF next
<1>5. learner'[l] = next
  BY <1>1 DEF Goto, IInv
<1>6. LearnerOK(l)'
  BY <1>1, <1>3, <1>4, <1>5 DEF LearnerOK, Record, Busy
<1> QED
  BY <1>1, <1>4, <1>6, OutsideKeeps DEF Busy

LEMMA EvaluateKeeps ==
  ASSUME IInv, NEW l \in Learners, NEW batch \in SUBSET indexed, NEW at \in Times,
         Evaluate(l, batch, at)
  PROVE  IInv'
<1> DEFINE proposal == learner[l].proposal
           trials == IndependentTrials(batch)
<1>1. /\ learner[l].step = "proposed" /\ LearnerOK(l)
      /\ UNCHANGED <<storeVars, profiles, reviews, active, faults>>
  BY DEF Evaluate, IInv
<1>2. CASE Goto(l, Idle)
  <2>1. learner'[l] = Idle
    BY <1>2 DEF Goto, IInv
  <2> QED
    BY <1>1, <1>2, <2>1, IdleOK, OutsideKeeps DEF Idle, Busy
<1>3. ASSUME Admissible(proposal, trials, at),
             NEW d \in Decisions(proposal.current, proposal.proposed),
             Goto(l, [learner[l] EXCEPT !.step = "evaluated", !.result =
                        [decision |-> d.decision, weight |-> d.weight, heldOut |-> trials]])
      PROVE  IInv'
  <2> DEFINE result == [decision |-> d.decision, weight |-> d.weight, heldOut |-> trials]
             next == [learner[l] EXCEPT !.step = "evaluated", !.result = result]
  <2>1. Goto(l, next)
    BY <1>3
  <2>2. Judged(proposal, result)
    <3>1. d.decision # "reject" => proposal.proposed # proposal.current
      BY <1>3 DEF Decisions
    <3>2. trials \subseteq Episodes
      BY DEF IInv, StoreOK, StoreTypeOK, IndependentTrials
    <3>3. \A f \in trials : f.time >= proposal.cutoff
      BY <1>3 DEF Admissible
    <3> HIDE DEF trials
    <3> QED
      BY <3>1, <3>2, <3>3 DEF Judged
  <2>3. Record(learner[l])
    BY <1>1 DEF LearnerOK
  <2> HIDE DEF result
  <2>4. /\ next.step = "evaluated" /\ next.proposal = proposal /\ next.result = result
        /\ Record(next)
    BY <2>3, EvaluatedRecord DEF Record
  <2> HIDE DEF next
  <2>5. learner'[l] = next
    BY <2>1 DEF Goto, IInv
  <2>6. LearnerOK(l)'
    BY <1>1, <2>2, <2>4, <2>5 DEF LearnerOK, Busy
  <2> QED
    BY <1>1, <2>1, <2>4, <2>6, OutsideKeeps DEF Busy
<1> QED
  BY <1>2, <1>3 DEF Evaluate

LEMMA PromoteKeeps ==
  ASSUME IInv, NEW l \in Learners, Promote(l)
  PROVE  IInv'
<1> DEFINE next == [learner[l] EXCEPT !.step = "review"]
<1>1. /\ learner[l].step = "evaluated" /\ LockFree /\ LearnerOK(l)
      /\ UNCHANGED <<storeVars, profiles, reviews, active, faults>>
      /\ Goto(l, next) \/ Goto(l, Idle)
  BY DEF Promote, IInv
<1>2. CASE Goto(l, Idle)
  <2>1. learner'[l] = Idle
    BY <1>2 DEF Goto, IInv
  <2> QED
    BY <1>1, <1>2, <2>1, IdleOK, OutsideKeeps
<1>3. CASE Goto(l, next)
  <2>1. /\ next.step = "review" /\ next.proposal = learner[l].proposal
        /\ next.result = learner[l].result /\ Record(next)
    BY <1>1 DEF LearnerOK, Record
  <2> HIDE DEF next
  <2>2. learner'[l] = next
    BY <1>3 DEF Goto, IInv
  <2>3. LearnerOK(l)'
    BY <1>1, <2>1, <2>2 DEF LearnerOK, Busy
  <2> QED
    BY <1>1, <1>3, <2>3, OutsideKeeps
<1> QED
  BY <1>1, <1>2, <1>3

\* The number is chosen when the review is recorded.
LEMMA RecordReviewKeeps ==
  ASSUME IInv, NEW l \in Learners, RecordReview(l)
  PROVE  IInv'
<1> DEFINE number == NextGeneration(active)
           next == [learner[l] EXCEPT !.step = "profile", !.generation = number]
           ends == learner[l].result.decision = "reject" \/ number > MaxGeneration
<1>1. /\ learner[l].step = "review" /\ LearnerOK(l)
      /\ reviews' = reviews \cup {Review(l)}
      /\ UNCHANGED <<storeVars, profiles, active, faults>>
      /\ Goto(l, IF ends THEN Idle ELSE next)
  BY DEF RecordReview, IInv
<1>2. learner[l].step \in Busy /\ active # None
  BY <1>1 DEF Busy, LearnerOK
<1>3. CASE ends
  <2>1. learner'[l] = Idle /\ Goto(l, Idle)
    BY <1>1, <1>3 DEF Goto, IInv
  <2> QED
    BY <1>1, <1>2, <2>1, IdleOK, OutsideKeeps
<1>4. CASE ~ends
  <2>1. Goto(l, next)
    BY <1>1, <1>4
  <2>2. number <= MaxGeneration
    <3>1. \E g \in Stored : \A h \in Stored : h <= g
      BY <1>2, GreatestGeneration DEF IInv, ProfilesOK, Stored
    <3> DEFINE last == CHOOSE g \in Stored : \A h \in Stored : h <= g
    <3>2. last \in Stored
      BY <3>1
    <3>3. number = 1 + last
      BY DEF NextGeneration
    <3> HIDE DEF last
    <3>4. number \in Nat
      BY <3>2, <3>3 DEF IInv, ProfilesOK, Generations
    <3> HIDE DEF number
    <3> QED
      BY <1>4, <3>4, LearningAssumption
  <2>3. number \in Generations \ {0} /\ number \notin Stored
    BY <1>2, <2>2, NextIsNew DEF IInv
  <2>4. learner[l].result.decision # "reject"
    BY <1>4
  <2> HIDE DEF number
  <2>5. /\ next.step = "profile" /\ next.proposal = learner[l].proposal
        /\ next.result = learner[l].result /\ next.generation = number /\ Record(next)
    <3>1. Record(learner[l])
      BY <1>1 DEF LearnerOK
    <3> QED
      BY <3>1, ProfileRecord DEF Record
  <2> HIDE DEF next
  <2>6. learner'[l] = next
    BY <2>1 DEF Goto, IInv
  <2>7. Review(l)' = Review(l)
    BY <2>5, <2>6 DEF Review
  <2>8. LearnerOK(l)'
    <3>1. /\ active' # None /\ Founded(next.proposal) /\ Judged(next.proposal, next.result)
          /\ number \notin Stored'
      BY <1>1, <1>2, <2>3, <2>5 DEF LearnerOK, Stored, Founded, Judged, TruthKnown
    <3> QED
      BY <1>1, <2>3, <2>4, <2>5, <2>6, <2>7, <3>1 DEF LearnerOK, Busy
  <2> QED
    BY <1>1, <1>2, <2>1, <2>8, OutsideKeeps
<1> QED
  BY <1>3, <1>4

-----------------------------------------------------------------------------
(* The profile store.                                                      *)

\* A step of the one learner inside the lock: what remains is its own part and
\* that of the profiles.
LEMMA InsideKeeps ==
  ASSUME IInv, NEW l \in Learners, NEW next, Goto(l, next), LearnerOK(l)', ProfilesOK',
         UNCHANGED <<storeVars, reviews, faults>>,
         learner[l].step \in Busy \/ LockFree,
         active # None => active' # None, Stored \subseteq Stored'
  PROVE  IInv'
<1>1. /\ learner'[l] = next
      /\ \A k \in Learners \ {l} : learner'[k] = learner[k] /\ learner[k].step \notin Busy
      /\ DOMAIN learner' = Learners /\ learner' = [k \in Learners |-> learner'[k]]
  BY DEF Goto, IInv, LockFree
<1>2. StoreOK'
  BY StoreStep DEF IInv
<1>3. ASSUME NEW k \in Learners PROVE LearnerOK(k)'
  <2>1. CASE k = l
    BY <2>1
  <2>2. CASE k # l
    BY <1>1, <2>2, OthersKeep, LearningAssumption DEF IInv, Busy
  <2> QED
    BY <2>1, <2>2
<1>4. ASSUME NEW j \in Learners, NEW k \in Learners,
             learner'[j].step \in Busy, learner'[k].step \in Busy
      PROVE  j = k
  BY <1>1, <1>4
<1> QED
  BY <1>1, <1>2, <1>3, <1>4, ProfilesOK' DEF IInv

\* What is stored when a file is written.
LEMMA ProfileWritten ==
  ASSUME NEW g, NEW profile, profiles' = WithProfile(g, profile)
  PROVE  /\ Stored' = Stored \cup {g} /\ profiles'[g] = profile
         /\ \A h \in Stored \ {g} : profiles'[h] = profiles[h]
BY DEF WithProfile, Stored

LEMMA InitializeKeeps ==
  ASSUME IInv, NEW l \in Learners, Initialize(l)
  PROVE  IInv'
<1> DEFINE next == [Idle EXCEPT !.step = "init"]
<1>1. /\ LockFree /\ active = None /\ profiles' = WithProfile(0, Initial) /\ Goto(l, next)
      /\ UNCHANGED <<storeVars, reviews, active, faults>>
  BY DEF Initialize
<1>2. Stored' = Stored \cup {0} /\ \A h \in Stored \ {0} : profiles'[h] = profiles[h]
  BY <1>1, ProfileWritten
<1>3. ProfilesOK'
  <2>1. 0 \in Generations
    BY LearningAssumption DEF Generations
  <2> QED
    BY <1>1, <1>2, <2>1 DEF IInv, ProfilesOK, GenerationIsEarned
<1>4. next.step = "init" /\ Record(next)
  BY DEF Idle, Record
<1> HIDE DEF next
<1>5. learner'[l] = next
  BY <1>1 DEF Goto, IInv
<1>6. LearnerOK(l)'
  BY <1>2, <1>4, <1>5 DEF LearnerOK, Busy
<1> QED
  BY <1>1, <1>2, <1>3, <1>6, InsideKeeps

LEMMA InitializePointerKeeps ==
  ASSUME IInv, NEW l \in Learners, InitializePointer(l)
  PROVE  IInv'
<1>1. /\ learner[l].step = "init" /\ active' = 0 /\ Goto(l, Idle) /\ LearnerOK(l)
      /\ UNCHANGED <<storeVars, profiles, reviews, faults>>
  BY DEF InitializePointer, IInv
<1>2. 0 \in Stored /\ Stored' = Stored
  BY <1>1 DEF LearnerOK, Stored
<1>3. ProfilesOK'
  BY <1>1, <1>2 DEF IInv, ProfilesOK, GenerationIsEarned
<1>4. LearnerOK(l)'
  <2>1. learner'[l] = Idle
    BY <1>1 DEF Goto, IInv
  <2> QED
    BY <2>1, IdleOK
<1>5. learner[l].step \in Busy
  BY <1>1 DEF Busy
<1>6. active' # None
  BY <1>1, <1>2, LearningAssumption DEF IInv, ProfilesOK, Generations
<1> QED
  BY <1>1, <1>2, <1>3, <1>4, <1>5, <1>6, InsideKeeps

\* The generation that is written is earned by the review recorded before it.
LEMMA WriteProfileKeeps ==
  ASSUME IInv, NEW l \in Learners, WriteProfile(l)
  PROVE  IInv'
<1> DEFINE number == learner[l].generation
           proposal == learner[l].proposal
           result == learner[l].result
           next == [learner[l] EXCEPT !.step = "pointer"]
<1>1. /\ learner[l].step = "profile" /\ LearnerOK(l) /\ number \notin Stored
      /\ UNCHANGED <<storeVars, reviews, active, faults>>
  BY DEF WriteProfile, IInv, LearnerOK
<1>2. profiles' = WithProfile(number, NewProfile(l)) /\ Goto(l, next)
  BY <1>1 DEF WriteProfile, Conflict
<1>3. /\ Stored' = Stored \cup {number} /\ profiles'[number] = NewProfile(l)
      /\ \A h \in Stored : profiles'[h] = profiles[h]
  BY <1>1, <1>2, ProfileWritten
<1>4. /\ Founded(proposal) /\ Judged(proposal, result) /\ result.decision # "reject"
      /\ Review(l) \in reviews /\ number \in Generations \ {0} /\ active # None
  BY <1>1 DEF LearnerOK, Busy
<1>5. GenerationIsEarned'
  <2> DEFINE Earned(g, r) ==
               /\ r.decision # "reject"
               /\ r.base = profiles'[g].parent /\ r.weight = profiles'[g].weight
               /\ \A e \in r.training, f \in r.heldOut : TruthKnown(e) < f.time
               /\ Cardinality(r.training) >= MinimumSamples
  <2>1. Earned(number, Review(l))
    <3>1. \A e \in proposal.training, f \in result.heldOut : TruthKnown(e) < f.time
      <4>1. ASSUME NEW e \in Episodes, NEW f \in Episodes
            PROVE  TruthKnown(e) \in Nat /\ f.time \in Nat
        BY StoreAssumption DEF TruthKnown
      <4> QED
        BY <1>4, <4>1 DEF Founded, Judged
    <3>2. Cardinality(proposal.training) >= MinimumSamples
      BY <1>4 DEF Founded, Judged
    <3>3. profiles'[number].parent = proposal.base /\ profiles'[number].weight = result.weight
      BY <1>3 DEF NewProfile
    <3> QED
      BY <1>4, <3>1, <3>2, <3>3 DEF Review
  <2>2. ASSUME NEW g \in Stored \ {0} PROVE \E r \in reviews : Earned(g, r)
    <3>1. profiles'[g] = profiles[g]
      BY <1>3
    <3> QED
      BY <3>1 DEF IInv, ProfilesOK, GenerationIsEarned
  <2> HIDE DEF Earned, number
  <2>3. \A g \in Stored' \ {0} : \E r \in reviews : Earned(g, r)
    BY <1>3, <1>4, <2>1, <2>2
  <2> USE DEF Earned
  <2> QED
    BY <1>1, <2>3 DEF GenerationIsEarned, TruthKnown
<1>6. ProfilesOK'
  BY <1>1, <1>3, <1>4, <1>5 DEF IInv, ProfilesOK
<1>7. /\ next.step = "pointer" /\ next.proposal = proposal /\ next.result = result
      /\ next.generation = number /\ Record(next)
  BY <1>1 DEF LearnerOK, Record
<1> HIDE DEF next
<1>8. learner'[l] = next
  BY <1>2 DEF Goto, IInv
<1>9. LearnerOK(l)'
  <2>1. Review(l)' = Review(l)
    BY <1>7, <1>8 DEF Review
  <2>2. active' # None /\ reviews' = reviews /\ number \in Stored'
    BY <1>1, <1>3, <1>4
  <2> QED
    BY <1>4, <1>7, <1>8, <2>1, <2>2 DEF LearnerOK, Busy
<1>10. learner[l].step \in Busy
  BY <1>1 DEF Busy
<1> QED
  BY <1>1, <1>2, <1>3, <1>6, <1>9, <1>10, InsideKeeps

LEMMA WriteActiveKeeps ==
  ASSUME IInv, NEW l \in Learners, WriteActive(l)
  PROVE  IInv'
<1>1. /\ learner[l].step = "pointer" /\ active' = learner[l].generation /\ Goto(l, Idle)
      /\ LearnerOK(l) /\ UNCHANGED <<storeVars, profiles, reviews, faults>>
  BY DEF WriteActive, IInv
<1>2. learner[l].generation \in Stored /\ Stored' = Stored
  BY <1>1 DEF LearnerOK, Stored
<1>3. ProfilesOK'
  BY <1>1, <1>2 DEF IInv, ProfilesOK, GenerationIsEarned
<1>4. LearnerOK(l)'
  <2>1. learner'[l] = Idle
    BY <1>1 DEF Goto, IInv
  <2> QED
    BY <2>1, IdleOK
<1>5. learner[l].step \in Busy
  BY <1>1 DEF Busy
<1>6. active' # None
  BY <1>1, <1>2, LearningAssumption DEF IInv, ProfilesOK, Generations
<1> QED
  BY <1>1, <1>2, <1>3, <1>4, <1>5, <1>6, InsideKeeps

LEMMA RollbackKeeps ==
  ASSUME IInv, NEW g \in Generations, Rollback(g)
  PROVE  IInv'
<1>1. /\ g \in Stored /\ active' = g /\ UNCHANGED <<storeVars, profiles, reviews, learner, faults>>
  BY DEF Rollback
<1>2. Stored' = Stored /\ active' # None
  BY <1>1, LearningAssumption DEF Stored, Generations
<1>3. StoreOK'
  BY <1>1, StoreStep DEF IInv
<1>4. ProfilesOK'
  BY <1>1, <1>2 DEF IInv, ProfilesOK, GenerationIsEarned
<1>5. ASSUME NEW k \in Learners PROVE LearnerOK(k)'
  BY <1>1, <1>2, OthersKeep, LearningAssumption DEF IInv, LearnerOK
<1> QED
  BY <1>1, <1>3, <1>4, <1>5 DEF IInv

LEMMA WriteFailsKeeps ==
  ASSUME IInv, NEW l \in Learners, WriteFails(l)
  PROVE  IInv'
<1>1. /\ learner[l].step \in Busy /\ Goto(l, Idle) /\ faults < MaxFaults /\ faults' = faults + 1
      /\ UNCHANGED <<storeVars, profiles, reviews, active>>
  BY DEF WriteFails
<1>2. StoreOK'
  BY <1>1, StoreAssumption DEF IInv, StoreOK, StoreTypeOK, IndexedIsReadable, storeVars
<1>3. Stored' = Stored /\ ProfilesOK'
  BY <1>1 DEF IInv, ProfilesOK, GenerationIsEarned, Stored
<1>4. /\ learner'[l] = Idle
      /\ \A k \in Learners \ {l} : learner'[k] = learner[k]
      /\ DOMAIN learner' = Learners /\ learner' = [k \in Learners |-> learner'[k]]
  BY <1>1 DEF Goto, IInv
<1>5. ASSUME NEW k \in Learners PROVE LearnerOK(k)'
  <2>1. CASE k = l
    BY <1>4, <2>1, IdleOK
  <2>2. CASE k # l
    BY <1>1, <1>3, <1>4, <2>2, OthersKeep, LearningAssumption DEF IInv, LearnerOK
  <2> QED
    BY <2>1, <2>2
<1>6. ASSUME NEW j \in Learners, NEW k \in Learners,
             learner'[j].step \in Busy, learner'[k].step \in Busy
      PROVE  j = k
  BY <1>4, <1>6 DEF IInv, Idle, Busy
<1> QED
  BY <1>2, <1>3, <1>4, <1>5, <1>6 DEF IInv

LEMMA CrashKeeps ==
  ASSUME IInv, Crash
  PROVE  IInv'
<1>1. /\ learner' = [l \in Learners |-> Idle]
      /\ UNCHANGED <<profiles, reviews, active>>
  BY DEF Crash
<1>2. StoreOK'
  BY StoreStep DEF IInv
<1>3. ProfilesOK'
  BY <1>1 DEF IInv, ProfilesOK, GenerationIsEarned, Stored
<1>4. ASSUME NEW k \in Learners PROVE LearnerOK(k)'
  BY <1>1, IdleOK
<1> QED
  BY <1>1, <1>2, <1>3, <1>4 DEF IInv, Idle, Busy

\* Saves are no concern of the learners: what a proposal needs was read.
LEMMA SavesKeep ==
  ASSUME IInv, StoreNext \/ UNCHANGED <<storeVars, faults>>, UNCHANGED learningVars
  PROVE  IInv'
<1>1. UNCHANGED <<profiles, reviews, active, learner>>
  BY DEF learningVars
<1>2. StoreOK'
  BY StoreStep DEF IInv
<1>3. Stored' = Stored /\ ProfilesOK'
  BY <1>1 DEF IInv, ProfilesOK, GenerationIsEarned, Stored
<1>4. ASSUME NEW k \in Learners PROVE LearnerOK(k)'
  BY <1>1, <1>3, OthersKeep, LearningAssumption DEF IInv, LearnerOK
<1> QED
  BY <1>1, <1>2, <1>3, <1>4 DEF IInv

-----------------------------------------------------------------------------
(* The specification.                                                      *)

LEMMA InitInv ==
  Init => IInv
<1> SUFFICES ASSUME Init PROVE IInv
  OBVIOUS
<1>1. StoreOK
  BY StoreAssumption DEF Init, StoreInit, StoreOK, StoreTypeOK, IndexedIsReadable, Resting
<1>2. ProfilesOK
  BY DEF Init, ProfilesOK, Stored, GenerationIsEarned
<1>3. \A l \in Learners : LearnerOK(l)
  BY DEF Init, LearnerOK, Idle, Record, Busy
<1> QED
  BY <1>1, <1>2, <1>3 DEF Init, IInv, Idle, Busy

LEMMA StepInv ==
  IInv /\ [Next]_vars => IInv'
<1> SUFFICES ASSUME IInv, [Next]_vars PROVE IInv'
  OBVIOUS
<1>1. CASE UNCHANGED vars
  <2>1. UNCHANGED <<storeVars, faults>> /\ UNCHANGED learningVars
    BY <1>1 DEF vars
  <2> QED
    BY <2>1, SavesKeep
<1>2. CASE StoreNext /\ UNCHANGED learningVars
  BY <1>2, SavesKeep
<1>3. CASE LearningNext
  BY <1>3, InitializeKeeps, InitializePointerKeeps, ProposeKeeps, EvaluateKeeps, PromoteKeeps,
     RecordReviewKeeps, WriteProfileKeeps, WriteActiveKeeps, RollbackKeeps, WriteFailsKeeps,
     CrashKeeps DEF LearningNext
<1> QED
  BY <1>1, <1>2, <1>3 DEF Next

\* The inductive invariant holds in every behaviour of the store and the learners.
LEMMA LearningInvariant ==
  Spec => []IInv
BY InitInv, StepInv, PTL DEF Spec

\* Every row of the index has its payload at every instant, through any number of
\* crashes and failed writes of any savers (ExperienceStore.save).
THEOREM IndexedEpisodesAreReadable ==
  Spec => []IndexedIsReadable
<1>1. IInv => IndexedIsReadable
  BY DEF IInv, StoreOK
<1> QED
  BY LearningInvariant, <1>1, PTL

\* Every generation but the first was accepted in a recorded review of a proposal
\* for its parent, whose training was known before its validation began, whatever
\* learners, crashes, rollbacks and saves come between (propose, evaluate, promote).
THEOREM GenerationsAreEarned ==
  Spec => []GenerationIsEarned
<1>1. IInv => GenerationIsEarned
  BY DEF IInv, ProfilesOK
<1> QED
  BY LearningInvariant, <1>1, PTL

\* No promotion that passed its checks meets a generation of its own number
\* (promote, _write_profile).
THEOREM PromotionsNeverConflict ==
  Spec => []PromotionNeverConflicts
<1>1. IInv => PromotionNeverConflicts
  BY DEF IInv, LearnerOK, PromotionNeverConflicts, Conflict
<1> QED
  BY LearningInvariant, <1>1, PTL

-----------------------------------------------------------------------------
(* The line of a generation.                                               *)

\* The first generation has no parent, any other an older one that is stored.
Lineal(g) ==
    IF g = 0 THEN profiles[g].parent = None
    ELSE profiles[g].parent # None /\ profiles[g].parent \in Stored /\ profiles[g].parent < g

\* So has the generation to be written: its base was active when the lock was taken.
LineInv ==
    /\ \A g \in Stored : Lineal(g)
    /\ \A l \in Learners :
          /\ learner[l].step \in {"review", "profile"} => learner[l].proposal.base = active
          /\ learner[l].step = "profile" => \A h \in Stored : h < learner[l].generation

\* A step that leaves profiles and the pointer alone, of a learner that has what
\* its next step needs.
LEMMA LineKept ==
  ASSUME IInv, LineInv, NEW l \in Learners, NEW next, Goto(l, next),
         UNCHANGED <<profiles, active>>,
         next.step \in {"review", "profile"} => next.proposal.base = active,
         next.step = "profile" => \A h \in Stored : h < next.generation
  PROVE  LineInv'
<1>1. \A k \in Learners : learner'[k] = IF k = l THEN next ELSE learner[k]
  BY DEF Goto, IInv
<1>2. Stored' = Stored
  BY DEF Stored
<1> QED
  BY <1>1, <1>2 DEF LineInv, Lineal

\* A step that moves the pointer or writes a profile is taken inside the lock, and
\* its learner leaves or has nothing but the pointer to write.
LEMMA LineInside ==
  ASSUME IInv, LineInv, NEW l \in Learners, NEW next, Goto(l, next),
         learner[l].step \in Busy \/ LockFree,
         next.step \notin {"review", "profile"},
         \A g \in Stored' : Lineal(g)'
  PROVE  LineInv'
<1>1. \A k \in Learners : learner'[k] = IF k = l THEN next ELSE learner[k]
  BY DEF Goto, IInv
<1>2. \A k \in Learners \ {l} : learner[k].step \notin Busy
  BY DEF IInv, LockFree
<1> QED
  BY <1>1, <1>2 DEF LineInv, Busy

LEMMA LineOfLearner ==
  ASSUME IInv, LineInv, NEW l \in Learners,
         \/ Initialize(l) \/ InitializePointer(l) \/ Promote(l)
         \/ WriteActive(l) \/ WriteFails(l)
  PROVE  LineInv'
<1>1. Idle.step = "idle"
  BY DEF Idle
<1>2. CASE Initialize(l)
  <2> DEFINE next == [Idle EXCEPT !.step = "init"]
  <2>1. next.step = "init" /\ Goto(l, next) /\ LockFree
    BY <1>2 DEF Initialize, Idle
  <2>2. /\ Stored' = Stored \cup {0} /\ profiles'[0] = Initial
        /\ \A h \in Stored \ {0} : profiles'[h] = profiles[h]
    BY <1>2, ProfileWritten DEF Initialize
  <2>3. \A g \in Stored' : Lineal(g)'
    BY <2>2 DEF LineInv, Lineal, Initial
  <2> HIDE DEF next
  <2> QED
    BY <2>1, <2>2, <2>3, LineInside
<1>3. CASE InitializePointer(l) \/ WriteActive(l)
  <2>1. Goto(l, Idle) /\ learner[l].step \in Busy /\ profiles' = profiles
    BY <1>3 DEF InitializePointer, WriteActive, Busy
  <2>2. Stored' = Stored
    BY <2>1 DEF Stored
  <2> QED
    BY <1>1, <2>1, <2>2, LineInside DEF LineInv, Lineal
<1>4. CASE Promote(l)
  <2> DEFINE next == [learner[l] EXCEPT !.step = "review"]
  <2>1. UNCHANGED <<profiles, active>>
    BY <1>4 DEF Promote
  <2>2. CASE learner[l].proposal.base = active
    <3>1. Record(learner[l])
      BY DEF IInv, LearnerOK
    <3>2. next.step = "review" /\ next.proposal = learner[l].proposal
      BY <3>1 DEF Record
    <3>3. Goto(l, next)
      BY <1>4, <2>2 DEF Promote
    <3> HIDE DEF next
    <3> QED
      BY <2>1, <2>2, <3>2, <3>3, LineKept
  <2>3. CASE learner[l].proposal.base # active
    <3>1. Goto(l, Idle)
      BY <1>4, <2>3 DEF Promote
    <3> QED
      BY <1>1, <2>1, <3>1, LineKept
  <2> QED
    BY <2>2, <2>3
<1>5. CASE WriteFails(l)
  BY <1>1, <1>5, LineKept DEF WriteFails
<1> QED
  BY <1>2, <1>3, <1>4, <1>5

LEMMA LineOfProposal ==
  ASSUME IInv, LineInv, NEW l \in Learners,
         \/ \E cutoff \in Cutoffs, created \in Times : Propose(l, cutoff, created)
         \/ \E batch \in SUBSET indexed, at \in Times : Evaluate(l, batch, at)
  PROVE  LineInv'
<1>1. Record(learner[l]) /\ Record(Idle) /\ Idle.step = "idle"
  BY DEF IInv, LearnerOK, Idle, Record
<1>2. UNCHANGED <<profiles, active>>
  BY DEF Propose, Evaluate
<1>3. \E next : Goto(l, next) /\ next.step \in {"idle", "proposed", "evaluated"}
  <2>1. ASSUME NEW r PROVE [Idle EXCEPT !.step = "proposed", !.proposal = r].step = "proposed"
    BY <1>1, ProposedRecord
  <2>2. ASSUME NEW r
        PROVE  [learner[l] EXCEPT !.step = "evaluated", !.result = r].step = "evaluated"
    BY <1>1, EvaluatedRecord
  <2> QED
    BY <1>1, <2>1, <2>2 DEF Propose, Evaluate
<1>4. PICK next : Goto(l, next) /\ next.step \in {"idle", "proposed", "evaluated"}
  BY <1>3
<1> QED
  BY <1>2, <1>4, LineKept

\* The number is past every stored generation.
LEMMA LineOfReview ==
  ASSUME IInv, LineInv, NEW l \in Learners, RecordReview(l)
  PROVE  LineInv'
<1> DEFINE number == NextGeneration(active)
           next == [learner[l] EXCEPT !.step = "profile", !.generation = number]
<1>1. /\ UNCHANGED <<profiles, active>> /\ Idle.step = "idle"
      /\ learner[l].step = "review" /\ Record(learner[l])
      /\ Goto(l, Idle) \/ Goto(l, next)
  BY DEF RecordReview, Idle, IInv, LearnerOK
<1>2. CASE Goto(l, Idle)
  BY <1>1, <1>2, LineKept
<1>3. CASE Goto(l, next)
  <2>1. active # None
    BY <1>1 DEF IInv, LearnerOK
  <2>2. Stored \in SUBSET Generations /\ Stored # {}
    BY <2>1 DEF IInv, ProfilesOK
  <2>3. \E g \in Stored : \A h \in Stored : h <= g
    BY <2>2, GreatestGeneration
  <2> DEFINE last == CHOOSE g \in Stored : \A h \in Stored : h <= g
  <2>4. last \in Stored /\ \A h \in Stored : h <= last
    BY <2>3
  <2>5. number = 1 + last
    BY DEF NextGeneration
  <2> HIDE DEF last, number
  <2>6. \A h \in Stored : h < number
    BY <2>2, <2>4, <2>5 DEF Generations
  <2>7. next.step = "profile" /\ next.proposal = learner[l].proposal /\ next.generation = number
    BY <1>1, ProfileRecord
  <2>8. next.proposal.base = active
    BY <1>1, <2>7 DEF LineInv
  <2> HIDE DEF next
  <2> QED
    BY <1>1, <1>3, <2>6, <2>7, <2>8, LineKept
<1> QED
  BY <1>1, <1>2, <1>3

\* What is written continues the line of the active generation.
LEMMA LineOfProfile ==
  ASSUME IInv, LineInv, NEW l \in Learners, WriteProfile(l)
  PROVE  LineInv'
<1> DEFINE number == learner[l].generation
           next == [learner[l] EXCEPT !.step = "pointer"]
<1>1. /\ learner[l].step = "profile" /\ number \notin Stored /\ Record(learner[l])
      /\ active # None /\ active \in Stored
  BY DEF WriteProfile, IInv, LearnerOK, ProfilesOK
<1>2. profiles' = WithProfile(number, NewProfile(l)) /\ Goto(l, next)
  BY <1>1 DEF WriteProfile, Conflict
<1>3. /\ Stored' = Stored \cup {number} /\ profiles'[number] = NewProfile(l)
      /\ \A h \in Stored : profiles'[h] = profiles[h]
  BY <1>1, <1>2, ProfileWritten
<1>4. NewProfile(l).parent = active /\ active < number
  BY <1>1 DEF LineInv, NewProfile
<1>5. next.step = "pointer" /\ learner[l].step \in Busy
  BY <1>1 DEF Record, Busy
<1>6. number # 0
  BY <1>1 DEF IInv, LearnerOK
<1> HIDE DEF number, next
<1>7. \A g \in Stored' : Lineal(g)'
  BY <1>1, <1>3, <1>4, <1>6 DEF LineInv, Lineal
<1> QED
  BY <1>2, <1>5, <1>7, LineInside

\* The lines of all generations, in every behaviour.
LEMMA LineInvariant ==
  Spec => []LineInv
<1>1. Init => LineInv
  BY DEF Init, LineInv, Stored, Idle
<1>2. IInv /\ LineInv /\ [Next]_vars => LineInv'
  <2> SUFFICES ASSUME IInv, LineInv, [Next]_vars PROVE LineInv'
    OBVIOUS
  <2>1. CASE UNCHANGED learningVars
    <3>1. UNCHANGED <<profiles, active, learner>>
      BY <2>1 DEF learningVars
    <3> QED
      BY <3>1 DEF LineInv, Lineal, Stored
  <2>2. ASSUME NEW g \in Generations, Rollback(g) PROVE LineInv'
    <3>1. LockFree /\ UNCHANGED <<profiles, learner>>
      BY <2>2 DEF Rollback
    <3>2. \A l \in Learners : learner[l].step \notin {"review", "profile"}
      BY <3>1 DEF LockFree, Busy
    <3> QED
      BY <3>1, <3>2 DEF LineInv, Lineal, Stored
  <2>3. CASE Crash
    <3>1. UNCHANGED <<profiles, active>> /\ \A l \in Learners : learner'[l].step = "idle"
      BY <2>3 DEF Crash, Idle
    <3> QED
      BY <3>1 DEF LineInv, Lineal, Stored
  <2>4. CASE UNCHANGED vars
    BY <2>1, <2>4 DEF vars
  <2>5. CASE StoreNext /\ UNCHANGED learningVars
    BY <2>1, <2>5
  <2>6. CASE LearningNext
    BY <2>2, <2>3, <2>6, LineOfLearner, LineOfProposal, LineOfReview, LineOfProfile
    DEF LearningNext
  <2> QED
    BY <2>4, <2>5, <2>6 DEF Next
<1> QED
  BY LearningInvariant, <1>1, <1>2, PTL DEF Spec

\* From the active generation the parents lead, each stored and each older, to
\* generation zero, whatever crash or failed write came between a profile and the
\* pointer, and whatever lines rollbacks left (promote, rollback, initialize).
THEOREM ActiveLineIsComplete ==
  Spec => []ActiveIsLineal
<1>1. IInv /\ LineInv => ActiveIsLineal
  <2> SUFFICES ASSUME IInv, LineInv, active # None PROVE ActiveIsLineal
    BY DEF ActiveIsLineal
  <2>1. active \in Stored /\ Stored \in SUBSET Generations
    BY DEF IInv, ProfilesOK
  <2>2. Ancestors(active) \subseteq Stored
    BY <2>1 DEF Ancestors, LineInv, Lineal
  <2> QED
    BY <2>1, <2>2 DEF ActiveIsLineal, LineInv, Lineal
<1> QED
  BY LearningInvariant, LineInvariant, <1>1, PTL
================================================================================
