-------------------------------- MODULE Council --------------------------------
(***************************************************************************)
(* DeterministicCouncil.aggregate (council/aggregator.py) and the contract *)
(* of the signals it is given (schemas.py, context/dispatch.py), as        *)
(* operators on one round: a function from the agents to their signals.    *)
(*                                                                         *)
(* Confidence and thresholds of confidence are numerators over             *)
(* ConfidenceUnit; exposures and thresholds of conviction are numerators   *)
(* over the unit of exposure.  A weighted mean is kept as a quotient, and  *)
(* rounded down only where it becomes a target.                            *)
(***************************************************************************)
EXTENDS Integers, FiniteSets, FiniteSetsExt

CONSTANTS
  Agents,
  AlphaAgents,        \* those whose signals are of type ALPHA
  Weight,             \* agent -> its weight
  Requires,           \* agent -> the capabilities it cannot do without
  Lifetime,           \* agent -> ticks its signals live
  Targets,            \* exposures an agent may ask for
  Confidences,        \* confidences an agent may state
  ConfidenceUnit,
  MinimumConfidence,  \* CouncilConfig
  MinimumConviction

ASSUME CouncilAssumption ==
  /\ Agents # {} /\ IsFiniteSet(Agents) /\ AlphaAgents \subseteq Agents
  /\ Weight \in [Agents -> Nat] /\ Lifetime \in [Agents -> Nat]
  /\ Targets \subseteq Int
  /\ ConfidenceUnit \in Nat \ {0} /\ Confidences \subseteq 0 .. ConfidenceUnit
  /\ MinimumConfidence \in 0 .. ConfidenceUnit /\ MinimumConviction \in Nat

Actionable == {"target_exposure", "reduce_only"}

(***************************************************************************)
(* What the validators of AgentSignal let an agent say: only a valid       *)
(* signal acts, and only an acting one has a target.  A signal that does   *)
(* not act, whether it abstains, takes no action or is not valid, is the   *)
(* same to the Council.                                                    *)
(***************************************************************************)
Passive == [action |-> "none", target |-> 0, confidence |-> 0]

Acting == [action : Actionable, target : Targets, confidence : Confidences]

(***************************************************************************)
(* analyze_with_context: without a capability it requires, an agent is not *)
(* asked and abstains.                                                     *)
(***************************************************************************)
SignalsOf(a, available) ==
  {Passive} \cup IF Requires[a] \subseteq available THEN Acting ELSE {}

Rounds(available) ==
  {r \in [Agents -> Acting \cup {Passive}] : \A a \in Agents : r[a] \in SignalsOf(a, available)}

(***************************************************************************)
(* The round.                                                              *)
(***************************************************************************)
Alpha(round) == {a \in AlphaAgents : round[a].action \in Actionable}

Capacity(round) == MapThenSumSet(LAMBDA a : Weight[a], Alpha(round))
EffectiveWeight(round) == MapThenSumSet(LAMBDA a : Weight[a] * round[a].confidence, Alpha(round))

AllFlat(round) == Alpha(round) # {} /\ \A a \in Alpha(round) : round[a].target = 0
AllReduceOnly(round) ==
  Alpha(round) # {} /\ \A a \in Alpha(round) : round[a].action = "reduce_only"

\* A mean of the targets, by weight and confidence or, where nobody is
\* confident, by weight.
Conviction(round) ==
  IF Capacity(round) = 0 THEN [num |-> 0, den |-> 1]
  ELSE IF EffectiveWeight(round) = 0
       THEN [num |-> MapThenSumSet(LAMBDA a : Weight[a] * round[a].target, Alpha(round)),
             den |-> Capacity(round)]
       ELSE [num |-> MapThenSumSet(LAMBDA a : Weight[a] * round[a].confidence * round[a].target,
                                   Alpha(round)),
             den |-> EffectiveWeight(round)]

Confidence(round) ==
  IF EffectiveWeight(round) = 0 THEN [num |-> 0, den |-> 1]
  ELSE [num |-> EffectiveWeight(round), den |-> Capacity(round)]

Below(quotient, threshold) ==
  (IF quotient.num < 0 THEN -quotient.num ELSE quotient.num) < threshold * quotient.den

\* Mutant of Action: a reduction is a target like another.
ActionOnTargets(round) ==
  IF Alpha(round) = {} THEN "none"
  ELSE IF ~AllFlat(round) /\ (\/ Below(Confidence(round), MinimumConfidence)
                              \/ Below(Conviction(round), MinimumConviction))
  THEN "none"
  ELSE "target_exposure"

(***************************************************************************)
(* The intent of the Council; "none" stands for ABSTAIN and NO_ACTION.     *)
(* Weak conviction stops a round unless all of it preserves or reduces     *)
(* exposure.                                                               *)
(***************************************************************************)
Action(round) ==
  IF Alpha(round) = {} THEN "none"
  ELSE IF ~AllFlat(round) /\ ~AllReduceOnly(round)
          /\ (\/ Below(Confidence(round), MinimumConfidence)
              \/ Below(Conviction(round), MinimumConviction))
  THEN "none"
  ELSE IF AllReduceOnly(round) THEN "reduce_only" ELSE "target_exposure"

Target(round) ==
  IF Action(round) = "none" \/ AllFlat(round) THEN 0
  ELSE Conviction(round).num \div Conviction(round).den

\* The decision on a round whose snapshot was observed at time at.
Aggregate(round, at) ==
  [action |-> Action(round), target |-> Target(round), confidence |-> Confidence(round),
   decidedAt |-> at, expires |-> at + Min({Lifetime[a] : a \in Agents})]
=============================================================================
