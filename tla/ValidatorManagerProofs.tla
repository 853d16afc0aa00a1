----------------------- MODULE ValidatorManagerProofs -----------------------
(***************************************************************************)
(* What the operations of ValidatorManager return, for every validator set *)
(* and every number of slots.  DescartesV2Proofs uses these lemmas for the *)
(* transactions that call them.                                            *)
(***************************************************************************)
EXTENDS ValidatorManager, TLAPS, WellFoundedInduction

\* The loops over validators find a slot exactly when there is one to find.
LEMMA LowestIsSingle ==
    ASSUME NEW S \in SUBSET Slots, S # {}
    PROVE  \E i \in S : Lowest(S) = {i}
<1>. DEFINE R == {ss \in Nat \X Nat : ss[1] < ss[2]}
<1>1. S \subseteq Nat
  BY DEF Slots
<1>2. IsWellFoundedOn(R, Nat)
  BY NatLessThanWellFounded DEF OpToRel
<1>3. PICK i \in S : \A j \in S : ~(<<j, i>> \in R)
  <2>. HIDE DEF R
  <2>. QED BY <1>1, <1>2, WFMin
<1>4. ASSUME NEW j \in S PROVE i <= j
  <2>1. i \in Nat /\ j \in Nat
    BY <1>1
  <2>2. j < i => <<j, i>> \in R
    BY <2>1
  <2>. QED BY <1>3, <2>1, <2>2
<1>5. \A k \in Lowest(S) : k = i
  BY <1>1, <1>4 DEF Lowest
<1>. QED BY <1>4, <1>5 DEF Lowest

\* The lowest slot of a set is one of it.
LEMMA LowestInside == ASSUME NEW S PROVE Lowest(S) \subseteq S
  BY DEF Lowest

-----------------------------------------------------------------------------
(* The predicates that the operations preserve.                            *)

\* What an agreement bit stands for: an active validator that claimed the
\* current claim, V being the pairs <<sender, claim>> claimed so far.
Earned(vm, V) ==
    \A i \in vm.agreed : /\ vm.validators[i] # NoAddress
                         /\ <<vm.validators[i], vm.claim>> \in V

\* Some sender made the claim c.
Made(c, V) == \E a \in Addresses : <<a, c>> \in V

\* The goal is the set of active slots.
GoalIsActive(vm) == vm.goal = ActiveSlots(vm.validators)

-----------------------------------------------------------------------------
(* Helpers.                                                                *)

\* Who defends the current claim is a validator that agrees with it.
LEMMA ClaimerOfCurrentClaim ==
    ASSUME NEW vm \in ValidatorManagerState, vm.agreed # {}
    PROVE  \E i \in vm.agreed : GetClaimerOfCurrentClaim(vm) = vm.validators[i]
<1>1. vm.agreed \in SUBSET Slots
  BY DEF ValidatorManagerState
<1>2. PICK i \in vm.agreed : Lowest(vm.agreed) = {i}
  BY <1>1, LowestIsSingle
<1>. QED BY <1>2 DEF GetClaimerOfCurrentClaim

\* Removing a validator keeps the storage well formed and the current claim,
\* and adds no bit to the agreement mask.
LEMMA RemovalKeeps ==
    ASSUME NEW vm \in ValidatorManagerState, NEW v,
           NEW left, left = RemoveFromValidatorSetAndBothBitmasks(vm, v)
    PROVE  /\ left \in ValidatorManagerState
           /\ left.claim = vm.claim
           /\ left.agreed \subseteq vm.agreed
           /\ \A i \in left.agreed : left.validators[i] = vm.validators[i]
<1>. DEFINE s == Lowest(SlotsOf(vm, v))
<1>1. CASE s = {}
  BY <1>1 DEF RemoveFromValidatorSetAndBothBitmasks, ValidatorManagerState
<1>2. CASE s # {}
  BY <1>2 DEF RemoveFromValidatorSetAndBothBitmasks, ValidatorManagerState
<1>. QED BY <1>1, <1>2

\* Removing a validator takes bits away and gives none.
LEMMA RemovalKeepsEarned ==
    ASSUME NEW vm \in ValidatorManagerState, NEW v, NEW V, Earned(vm, V)
    PROVE  Earned(RemoveFromValidatorSetAndBothBitmasks(vm, v), V)
  BY RemovalKeeps DEF Earned

\* Only slots of the validator to remove change, and they become empty.
LEMMA RemovalEmpties ==
    ASSUME NEW vm \in ValidatorManagerState, NEW v, NEW i \in Slots,
           NEW left, left = RemoveFromValidatorSetAndBothBitmasks(vm, v),
           left.validators[i] # vm.validators[i]
    PROVE  left.validators[i] = NoAddress /\ vm.validators[i] = v
<1>. DEFINE s == Lowest(SlotsOf(vm, v))
<1>1. s \subseteq SlotsOf(vm, v)
  BY LowestInside
<1>2. CASE s = {}
  BY <1>2 DEF RemoveFromValidatorSetAndBothBitmasks, ValidatorManagerState
<1>3. CASE s # {}
  BY <1>1, <1>3 DEF RemoveFromValidatorSetAndBothBitmasks, ValidatorManagerState, SlotsOf
<1>. QED BY <1>2, <1>3

\* A validator that is found takes its slot out of the goal and nothing else.
LEMMA RemovalKeepsGoal ==
    ASSUME NEW vm \in ValidatorManagerState, NEW v, IsAllowed(vm, v), GoalIsActive(vm)
    PROVE  GoalIsActive(RemoveFromValidatorSetAndBothBitmasks(vm, v))
<1>1. SlotsOf(vm, v) \in SUBSET Slots /\ SlotsOf(vm, v) # {}
  BY DEF IsAllowed, SlotsOf
<1>2. PICK i \in SlotsOf(vm, v) : Lowest(SlotsOf(vm, v)) = {i}
  BY <1>1, LowestIsSingle
<1>. QED
  BY <1>1, <1>2
  DEF RemoveFromValidatorSetAndBothBitmasks, GoalIsActive, ActiveSlots, ValidatorManagerState

-----------------------------------------------------------------------------
(* The answers.  Backed(o, V) is what every answer o guarantees, V being   *)
(* the claims made so far: well formed storage with an earned agreement on *)
(* a claim somebody made, disputants that claimed what they dispute, and   *)
(* no NoConflict while the masks are equal.                                *)

Backed(o, V) ==
    /\ o.result \in Results
    /\ o.vm \in ValidatorManagerState
    /\ o.vm.claim \in Claims
    /\ Made(o.vm.claim, V)
    /\ Earned(o.vm, V)
    /\ o.result = "Consensus" => o.vm.agreed = o.vm.goal
    /\ o.result = "NoConflict" => o.vm.agreed # o.vm.goal
    /\ o.result = "Conflict" =>
          /\ o.claims \in [1 .. 2 -> Claims]
          /\ o.claimers \in [1 .. 2 -> Addresses \cup {NoAddress}]
          /\ <<o.claimers[1], o.claims[1]>> \in V
          /\ <<o.claimers[2], o.claims[2]>> \in V
          /\ o.claims[1] = o.vm.claim /\ o.claims[2] # o.vm.claim

\* An answer without conflict names a claim that was made.
LEMMA ConsensusOrNotIsBacked ==
    ASSUME NEW vm \in ValidatorManagerState, vm.claim \in Claims, NEW c, NEW a, NEW V,
           Made(vm.claim, V), Earned(vm, V)
    PROVE  /\ Backed(ConsensusOrNot(vm, c, a), V)
           /\ ConsensusOrNot(vm, c, a).vm = vm
           /\ ConsensusOrNot(vm, c, a).result \in {"NoConflict", "Consensus"}
  BY DEF ConsensusOrNot, Outcome, IsConsensus, Backed, Results

\* A claim whose sender is counted was made by that sender.
LEMMA AgreeingIsEarned ==
    ASSUME NEW vm \in ValidatorManagerState, NEW a \in Addresses, NEW V,
           Earned(vm, V), <<a, vm.claim>> \in V,
           NEW after, after = [vm EXCEPT !.agreed = UpdateClaimAgreementMask(vm, a)]
    PROVE  /\ after \in ValidatorManagerState
           /\ after.claim = vm.claim /\ after.goal = vm.goal
           /\ after.validators = vm.validators
           /\ Earned(after, V)
<1>1. Lowest(SlotsOf(vm, a)) \subseteq SlotsOf(vm, a)
  BY LowestInside
<1>2. \A i \in SlotsOf(vm, a) : i \in Slots /\ vm.validators[i] = a
  BY DEF SlotsOf
<1>3. after.agreed = vm.agreed \cup Lowest(SlotsOf(vm, a))
  BY DEF UpdateClaimAgreementMask, ValidatorManagerState
<1>4. /\ after \in ValidatorManagerState
      /\ after.claim = vm.claim /\ after.goal = vm.goal
      /\ after.validators = vm.validators
  BY <1>1, <1>2 DEF UpdateClaimAgreementMask, ValidatorManagerState
<1>5. a # NoAddress
  BY ConstantsAssumption
<1>. QED BY <1>1, <1>2, <1>3, <1>4, <1>5 DEF Earned

\* The first claim of an epoch changes nothing but the current claim.
LEMMA FirstClaim ==
    ASSUME NEW vm \in ValidatorManagerState, NEW c \in Claims, NEW V,
           V \in SUBSET (Addresses \X Claims), Earned(vm, V)
    PROVE  /\ WithFirstClaim(vm, c) \in ValidatorManagerState
           /\ WithFirstClaim(vm, c).claim \in Claims
           /\ WithFirstClaim(vm, c).validators = vm.validators
           /\ WithFirstClaim(vm, c).agreed = vm.agreed
           /\ WithFirstClaim(vm, c).goal = vm.goal
           /\ Earned(WithFirstClaim(vm, c), V)
<1>1. CASE vm.claim = NoClaim
  <2>1. vm.agreed = {}
    BY <1>1, ConstantsAssumption DEF Earned
  <2>. QED BY <1>1, <2>1 DEF WithFirstClaim, ValidatorManagerState, Earned
<1>2. CASE vm.claim # NoClaim
  BY <1>2 DEF WithFirstClaim, ValidatorManagerState, Earned
<1>. QED BY <1>1, <1>2

\* onClaim, the sender's own claim being part of V.
LEMMA OnClaimIsBacked ==
    ASSUME NEW vm \in ValidatorManagerState, NEW a \in Addresses, NEW c \in Claims,
           ~OnClaimReverts(vm, a, c),
           NEW V, V \in SUBSET (Addresses \X Claims), Earned(vm, V), <<a, c>> \in V
    PROVE  /\ Backed(OnClaim(vm, a, c), V)
           /\ OnClaim(vm, a, c).vm.goal = vm.goal
           /\ OnClaim(vm, a, c).vm.validators = vm.validators
           /\ OnClaim(vm, a, c).result = "Conflict" => OnClaim(vm, a, c).claimers[2] = a
<1>. DEFINE first == WithFirstClaim(vm, c)
<1>1. /\ first \in ValidatorManagerState
      /\ first.claim \in Claims
      /\ first.validators = vm.validators
      /\ first.goal = vm.goal
      /\ Earned(first, V)
  BY FirstClaim
<1>. HIDE DEF first
<1>2. CASE c # first.claim
  <2>1. first.agreed = vm.agreed
    BY FirstClaim DEF first
  <2>2. first.agreed # {}
    BY <1>2, <2>1 DEF OnClaimReverts, first
  <2>3. PICK i \in first.agreed : GetClaimerOfCurrentClaim(first) = first.validators[i]
    BY <1>1, <2>2, ClaimerOfCurrentClaim
  <2>4. <<first.validators[i], first.claim>> \in V
    BY <1>1 DEF Earned
  <2>5. OnClaim(vm, a, c) = Outcome("Conflict", <<first.claim, c>>,
                                    <<first.validators[i], a>>, first)
    BY <1>2, <2>3 DEF OnClaim, first
  <2>6. first.validators[i] \in Addresses
    BY <2>4
  <2>. DEFINE o == OnClaim(vm, a, c)
  <2>7. /\ o.result = "Conflict" /\ o.vm = first
        /\ o.claims = <<first.claim, c>> /\ o.claimers = <<first.validators[i], a>>
    BY <2>5 DEF Outcome
  <2>8. o.claims \in [1 .. 2 -> Claims] /\ o.claims[1] = first.claim /\ o.claims[2] = c
    BY <1>1, <2>7
  <2>9. /\ o.claimers \in [1 .. 2 -> Addresses \cup {NoAddress}]
        /\ o.claimers[1] = first.validators[i] /\ o.claimers[2] = a
    BY <2>6, <2>7
  <2>. QED BY <1>1, <1>2, <2>4, <2>6, <2>7, <2>8, <2>9 DEF Backed, Results, Made
<1>3. CASE c = first.claim
  <2>. DEFINE after == [first EXCEPT !.agreed = UpdateClaimAgreementMask(first, a)]
  <2>1. /\ after \in ValidatorManagerState
        /\ after.claim = first.claim /\ after.goal = first.goal
        /\ after.validators = first.validators
        /\ Earned(after, V)
    BY <1>1, <1>3, AgreeingIsEarned
  <2>2. OnClaim(vm, a, c) = ConsensusOrNot(after, c, a)
    BY <1>3 DEF OnClaim, first
  <2>. HIDE DEF after
  <2>3. Made(after.claim, V)
    BY <1>3, <2>1 DEF Made
  <2>4. /\ Backed(ConsensusOrNot(after, c, a), V)
        /\ ConsensusOrNot(after, c, a).vm = after
        /\ ConsensusOrNot(after, c, a).result \in {"NoConflict", "Consensus"}
    BY <1>1, <2>1, <2>3, ConsensusOrNotIsBacked
  <2>. QED BY <1>1, <2>1, <2>2, <2>4
<1>. QED BY <1>2, <1>3

\* onDisputeEnd, whoever wins, when the winner did claim the winning claim.
LEMMA OnDisputeEndIsBacked ==
    ASSUME NEW vm \in ValidatorManagerState, vm.claim \in Claims,
           NEW V, V \in SUBSET (Addresses \X Claims), Earned(vm, V),
           NEW w, NEW l, NEW c, <<w, c>> \in V
    PROVE  Backed(OnDisputeEnd(vm, w, l, c), V)
<1>. DEFINE left == RemoveFromValidatorSetAndBothBitmasks(vm, l)
            won  == [left EXCEPT !.claim = c]
<1>1. left \in ValidatorManagerState /\ left.claim = vm.claim
  BY RemovalKeeps
<1>2. Earned(left, V)
  BY RemovalKeepsEarned
<1>3. w \in Addresses /\ c \in Claims
  OBVIOUS
<1>. HIDE DEF left
<1>4. CASE c = left.claim
  <2>1. OnDisputeEnd(vm, w, l, c) = ConsensusOrNot(left, c, w)
    BY <1>4 DEF OnDisputeEnd, left
  <2>. QED BY <1>1, <1>2, <1>3, <1>4, <2>1, ConsensusOrNotIsBacked DEF Made
<1>5. CASE c # left.claim /\ left.agreed # {}
  <2>1. PICK i \in left.agreed : GetClaimerOfCurrentClaim(left) = left.validators[i]
    BY <1>1, <1>5, ClaimerOfCurrentClaim
  <2>2. <<left.validators[i], left.claim>> \in V
    BY <1>2 DEF Earned
  <2>. DEFINE o == OnDisputeEnd(vm, w, l, c)
  <2>3. o = Outcome("Conflict", <<left.claim, c>>, <<left.validators[i], w>>, left)
    BY <1>5, <2>1 DEF OnDisputeEnd, left
  <2>4. /\ o.result = "Conflict" /\ o.vm = left
        /\ o.claims = <<left.claim, c>> /\ o.claimers = <<left.validators[i], w>>
    BY <2>3 DEF Outcome
  <2>5. o.claims \in [1 .. 2 -> Claims] /\ o.claims[1] = left.claim /\ o.claims[2] = c
    BY <1>1, <1>3, <2>4
  <2>6. left.validators[i] \in Addresses
    BY <2>2
  <2>7. /\ o.claimers \in [1 .. 2 -> Addresses \cup {NoAddress}]
        /\ o.claimers[1] = left.validators[i] /\ o.claimers[2] = w
    BY <1>3, <2>4, <2>6
  <2>. QED BY <1>1, <1>2, <1>5, <2>2, <2>4, <2>5, <2>6, <2>7 DEF Backed, Results, Made
<1>6. CASE c # left.claim /\ left.agreed = {}
  <2>1. won \in ValidatorManagerState /\ won.claim = c /\ won.agreed = {}
    BY <1>1, <1>3, <1>6 DEF ValidatorManagerState
  <2>. DEFINE after == [won EXCEPT !.agreed = UpdateClaimAgreementMask(won, w)]
  <2>2. OnDisputeEnd(vm, w, l, c) = ConsensusOrNot(after, c, w)
    BY <1>6 DEF OnDisputeEnd, left
  <2>. HIDE DEF won
  <2>3. Earned(won, V)
    BY <2>1 DEF Earned
  <2>4. after \in ValidatorManagerState /\ after.claim = won.claim /\ Earned(after, V)
    BY <1>3, <2>1, <2>3, AgreeingIsEarned
  <2>. HIDE DEF after
  <2>. QED BY <1>3, <2>1, <2>2, <2>4, ConsensusOrNotIsBacked DEF Made
<1>. QED BY <1>4, <1>5, <1>6

\* A dispute won by the current claim never raises another, keeps the claim,
\* and keeps the goal in step with the set if the loser is in it.
LEMMA CurrentClaimWins ==
    ASSUME NEW vm \in ValidatorManagerState, vm.claim \in Claims, NEW w, NEW l
    PROVE  LET o == OnDisputeEnd(vm, w, l, vm.claim) IN
           /\ o.result \in {"NoConflict", "Consensus"}
           /\ o.vm = RemoveFromValidatorSetAndBothBitmasks(vm, l)
<1>. DEFINE left == RemoveFromValidatorSetAndBothBitmasks(vm, l)
<1>1. left.claim = vm.claim
  BY RemovalKeeps
<1>2. OnDisputeEnd(vm, w, l, vm.claim) = ConsensusOrNot(left, vm.claim, w)
  BY <1>1 DEF OnDisputeEnd
<1>. HIDE DEF left
<1>3. ConsensusOrNot(left, vm.claim, w).result \in {"NoConflict", "Consensus"}
      /\ ConsensusOrNot(left, vm.claim, w).vm = left
  BY DEF ConsensusOrNot, Outcome
<1>. QED BY <1>2, <1>3 DEF left

\* onNewEpoch.
LEMMA OnNewEpochClears ==
    ASSUME NEW vm \in ValidatorManagerState, NEW V
    PROVE  /\ OnNewEpoch(vm) \in ValidatorManagerState
           /\ OnNewEpoch(vm).claim = NoClaim /\ OnNewEpoch(vm).agreed = {}
           /\ OnNewEpoch(vm).validators = vm.validators
           /\ OnNewEpoch(vm).goal = vm.goal
           /\ Earned(OnNewEpoch(vm), V)
  BY DEF OnNewEpoch, ValidatorManagerState, Earned

\* The constructor.
LEMMA InitialValidatorManagerIsActive ==
    /\ InitialValidatorManager \in ValidatorManagerState
    /\ InitialValidatorManager.claim = NoClaim /\ InitialValidatorManager.agreed = {}
    /\ GoalIsActive(InitialValidatorManager)
<1>1. InitialValidators \in [Slots -> Addresses \cup {NoAddress}]
  BY ConstantsAssumption DEF Slots
<1>. QED
  BY <1>1 DEF InitialValidatorManager, ValidatorManagerState, UpdateConsensusGoalMask,
              ActiveSlots, GoalIsActive

=============================================================================
