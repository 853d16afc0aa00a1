------------------------- MODULE DescartesV2Proofs -------------------------
(***************************************************************************)
(* Theorems about DescartesV2 for every validator set, duration, and       *)
(* bound.  The inductive invariant is the conjunction of                   *)
(*   TypeOK,                                                               *)
(*   AgreementInv     an agreement is earned, disputants claimed,          *)
(*   InboxesMatchEpochs,                                                   *)
(*   TimestampInv     what sealingEpochTimestamp holds in each phase,      *)
(*   InstantInv       what holds in addition under DisputeManagerImpl.     *)
(***************************************************************************)
EXTENDS DescartesV2, ValidatorManagerProofs, SequenceTheorems

\* An agreement bit is earned also at the moment the epoch is sealed, when
\* there is no claim, somebody made the claim there is, and every dispute is
\* between claims of its disputants.
AgreementInv ==
    /\ Earned(vm, votes)
    /\ vm.claim # NoClaim => Made(vm.claim, votes)
    /\ currentPhase = "InputAccumulation" => vm.claim = NoClaim
    /\ DisputantsClaimed

\* Nobody agrees with a claim that does not exist.
LEMMA NoClaimNoAgreement ==
    ASSUME TypeOK, AgreementInv, vm.claim = NoClaim
    PROVE  vm.agreed = {} /\ \A V : Earned(vm, V)
<1>1. vm.agreed = {}
  <2>1. SUFFICES ASSUME NEW i \in vm.agreed PROVE FALSE
    OBVIOUS
  <2>2. <<vm.validators[i], NoClaim>> \in votes
    BY DEF AgreementInv, Earned
  <2>3. votes \in SUBSET (Addresses \X Claims)
    BY DEF TypeOK
  <2>. QED BY <2>2, <2>3, ConstantsAssumption
<1>. QED BY <1>1 DEF Earned

\* A new epoch starts with well formed storage and no claim.
LEMMA StartNewEpochTypes ==
    ASSUME TypeOK, NEW v \in ValidatorManagerState, v.claim \in Claims, NEW box \in 0 .. 1,
           StartNewEpoch(v, box)
    PROVE  /\ inputAccumulationStart' \in DeploymentTime .. MaxTime
           /\ sealingEpochTimestamp' \in Nat
           /\ vm' \in ValidatorManagerState /\ vm'.claim = NoClaim
           /\ \A V : Earned(vm', V)
           /\ inputBox' \in [0 .. 1 -> Seq(Inputs)]
           /\ epochHashes' \in Seq(Claims) /\ Len(epochHashes') <= MaxEpochs
           /\ Len(epochHashes') = Len(epochHashes) + 1
<1>1. /\ inputAccumulationStart' \in DeploymentTime .. MaxTime
      /\ sealingEpochTimestamp' \in Nat
  BY TimeAssumption DEF StartNewEpoch, TypeOK
<1>2. vm' \in ValidatorManagerState /\ vm'.claim = NoClaim /\ \A V : Earned(vm', V)
  BY OnNewEpochClears DEF StartNewEpoch
<1>3. inputBox' \in [0 .. 1 -> Seq(Inputs)]
  BY EmptySeq DEF StartNewEpoch, ClearSealedBox, TypeOK
<1>4. /\ epochHashes' \in Seq(Claims) /\ Len(epochHashes') <= MaxEpochs
      /\ Len(epochHashes') = Len(epochHashes) + 1
  BY BoundsAssumption DEF StartNewEpoch, TypeOK
<1>. QED BY <1>1, <1>2, <1>3, <1>4

\* Resolving an answer that is backed by the votes V keeps the types, and the
\* agreement once V are the votes.
LEMMA ResolveKeeps ==
    ASSUME TypeOK, NEW r, NEW box \in 0 .. 1, NEW t \in Nat,
           ResolveValidatorResult(r, box, t),
           NEW V, V \in SUBSET (Addresses \X Claims), Backed(r, V), votes' = V
    PROVE  /\ currentPhase' \in Phases
           /\ inputAccumulationStart' \in DeploymentTime .. MaxTime
           /\ sealingEpochTimestamp' \in Nat
           /\ vm' \in ValidatorManagerState
           /\ inputBox' \in [0 .. 1 -> Seq(Inputs)]
           /\ epochHashes' \in Seq(Claims) /\ Len(epochHashes') <= MaxEpochs
           /\ disputes' \in SUBSET Disputes
           /\ AgreementInv'
<1>1. /\ r.vm \in ValidatorManagerState /\ r.vm.claim \in Claims
      /\ Made(r.vm.claim, V) /\ Earned(r.vm, V)
  BY DEF Backed
<1>2. CASE r.result = "NoConflict"
  BY <1>1, <1>2 DEF ResolveValidatorResult, TypeOK, Phases, AgreementInv, DisputantsClaimed
<1>3. CASE r.result = "Consensus"
  <2>1. StartNewEpoch(r.vm, box) /\ currentPhase' = "InputAccumulation" /\ disputes' = {}
    BY <1>3 DEF ResolveValidatorResult
  <2>. QED
    BY <1>1, <2>1, StartNewEpochTypes DEF Phases, AgreementInv, DisputantsClaimed
<1>4. CASE r.result = "Conflict"
  <2>. DEFINE d == [claims |-> r.claims, claimers |-> r.claimers]
  <2>1. /\ currentPhase' = "AwaitingDispute" /\ disputes' = {d} /\ vm' = r.vm
        /\ sealingEpochTimestamp' = t
        /\ UNCHANGED <<inputAccumulationStart, epochHashes, inputBox>>
    BY <1>4 DEF ResolveValidatorResult
  <2>2. /\ r.claims \in [1 .. 2 -> Claims]
        /\ r.claimers \in [1 .. 2 -> Addresses \cup {NoAddress}]
        /\ <<r.claimers[1], r.claims[1]>> \in V /\ <<r.claimers[2], r.claims[2]>> \in V
        /\ r.claims[1] = r.vm.claim /\ r.claims[2] # r.vm.claim
    BY <1>4 DEF Backed
  <2>3. d \in Disputes /\ d.claims = r.claims /\ d.claimers = r.claimers
    BY <2>2 DEF Disputes
  <2>. HIDE DEF d
  <2>4. DisputantsClaimed'
    BY <2>1, <2>2, <2>3 DEF DisputantsClaimed
  <2>. QED BY <1>1, <2>1, <2>3, <2>4 DEF TypeOK, Phases, AgreementInv
<1>. QED BY <1>2, <1>3, <1>4 DEF Backed, Results

-----------------------------------------------------------------------------
(* The answers of the validator manager in the two transactions that       *)
(* resolve one.                                                            *)

\* claim: the answer, after an instant dispute if it raised one, is backed by
\* the votes including the sender's.
LEMMA ClaimAnswerIsBacked ==
    ASSUME TypeOK, AgreementInv, NEW a \in Addresses, NEW c \in Claims,
           ~OnClaimReverts(vm, a, c),
           NEW V, V = (IF SealingTimeReached THEN {} ELSE votes) \cup {<<a, c>>}
    PROVE  LET r == OnClaim(vm, a, c) IN
           /\ V \in SUBSET (Addresses \X Claims)
           /\ Backed(Settled(r), V)
           /\ InstantDisputes => Settled(r).result # "Conflict"
           /\ InstantDisputes /\ GoalIsActive(vm) => GoalIsActive(Settled(r).vm)
<1>. DEFINE r == OnClaim(vm, a, c)
<1>1. V \in SUBSET (Addresses \X Claims) /\ <<a, c>> \in V
  BY DEF TypeOK
<1>2. Earned(vm, V)
  <2>1. CASE SealingTimeReached
    BY <2>1, NoClaimNoAgreement DEF SealingTimeReached, AgreementInv
  <2>2. CASE ~SealingTimeReached
    BY <2>2 DEF AgreementInv, Earned
  <2>. QED BY <2>1, <2>2
<1>3. vm \in ValidatorManagerState
  BY DEF TypeOK
<1>4. /\ Backed(r, V)
      /\ r.vm.goal = vm.goal /\ r.vm.validators = vm.validators
      /\ r.result = "Conflict" => r.claimers[2] = a
  BY <1>1, <1>2, <1>3, OnClaimIsBacked
<1>5. GoalIsActive(vm) => GoalIsActive(r.vm)
  BY <1>4 DEF GoalIsActive
<1>6. IsAllowed(r.vm, a)
  BY <1>4 DEF OnClaimReverts, IsAllowed, SlotsOf
<1>. HIDE DEF r
<1>7. CASE ~Raised(r)
  BY <1>1, <1>4, <1>5, <1>7 DEF Settled, Raised, r
<1>8. CASE Raised(r)
  <2>1. /\ r.vm \in ValidatorManagerState /\ r.vm.claim \in Claims /\ Earned(r.vm, V)
        /\ <<r.claimers[1], r.claims[1]>> \in V /\ r.claims[1] = r.vm.claim
        /\ r.claimers[2] = a
    BY <1>4, <1>8 DEF Backed, Raised
  <2>2. Settled(r) = OnDisputeEnd(r.vm, r.claimers[1], a, r.vm.claim)
    BY <1>8, <2>1 DEF Settled
  <2>3. Backed(Settled(r), V)
    BY <1>1, <2>1, <2>2, OnDisputeEndIsBacked
  <2>4. /\ Settled(r).result \in {"NoConflict", "Consensus"}
        /\ Settled(r).vm = RemoveFromValidatorSetAndBothBitmasks(r.vm, a)
    BY <2>1, <2>2, CurrentClaimWins
  <2>5. GoalIsActive(vm) => GoalIsActive(Settled(r).vm)
    BY <1>5, <1>6, <2>1, <2>4, RemovalKeepsGoal
  <2>. QED BY <1>1, <2>3, <2>4, <2>5 DEF r
<1>. QED BY <1>7, <1>8

\* resolveDispute: both disputants claimed, so the winner's claim is backed.
LEMMA DisputeAnswerIsBacked ==
    ASSUME TypeOK, AgreementInv, NEW d \in disputes, NEW k \in 1 .. 2
    PROVE  Backed(OnDisputeEnd(vm, d.claimers[k], d.claimers[3 - k], d.claims[k]), votes)
<1>1. <<d.claimers[k], d.claims[k]>> \in votes
  BY DEF AgreementInv, DisputantsClaimed
<1>2. vm.claim \in Claims
  <2>1. d \in Disputes
    BY DEF TypeOK
  <2>2. d.claims[1] \in Claims
    BY <2>1 DEF Disputes
  <2>. QED BY <2>2 DEF AgreementInv, DisputantsClaimed
<1>3. vm \in ValidatorManagerState /\ votes \in SUBSET (Addresses \X Claims)
  BY DEF TypeOK
<1>. QED BY <1>1, <1>2, <1>3, OnDisputeEndIsBacked DEF AgreementInv

-----------------------------------------------------------------------------
(* Types and agreement.                                                    *)

\* The contracts are deployed with their types and with no claim.
LEMMA InitTypesAndAgreement == Init => TypeOK /\ AgreementInv
<1>. SUFFICES ASSUME Init PROVE TypeOK /\ AgreementInv
  OBVIOUS
<1>1. vm \in ValidatorManagerState /\ vm.claim = NoClaim /\ vm.agreed = {}
  BY InitialValidatorManagerIsActive DEF Init
<1>2. TypeOK
  BY <1>1, TimeAssumption, BoundsAssumption, EmptySeq
  DEF Init, TypeOK, Phases, Challenges
<1>3. AgreementInv
  BY <1>1 DEF Init, AgreementInv, Earned, DisputantsClaimed
<1>. QED BY <1>2, <1>3

\* Every transaction keeps types and earned agreement, with any dispute manager.
LEMMA StepTypesAndAgreement ==
    ASSUME TypeOK, AgreementInv, [Next]_vars PROVE TypeOK' /\ AgreementInv'
<1>. USE TimeAssumption, BoundsAssumption
<1>1. now \in DeploymentTime .. MaxTime /\ currentInputBox \in 0 .. 1
  BY DEF TypeOK
<1>2. InboxAfter(TRUE) \in 0 .. 1 /\ InboxAfter(FALSE) \in 0 .. 1
  BY <1>1 DEF InboxAfter, SwapInputBox
<1>3. ASSUME NEW a \in Addresses, NEW c \in Claims, Claim(a, c)
      PROVE  TypeOK' /\ AgreementInv'
  <2>. DEFINE r == OnClaim(vm, a, c)
              s == SealingTimeReached
              V == (IF s THEN {} ELSE votes) \cup {<<a, c>>}
  <2>1. /\ ~OnClaimReverts(vm, a, c)
        /\ currentInputBox' = InboxAfter(s)
        /\ ResolveValidatorResult(Settled(r), InboxAfter(s), SealingAfter(s, r))
        /\ votes' = V
        /\ UNCHANGED <<now, inputAdded>>
    BY <1>3 DEF Claim
  <2>2. challenge' \in Challenges
    BY <1>1, <1>3 DEF Claim, TypeOK, Challenges
  <2>3. V \in SUBSET (Addresses \X Claims) /\ Backed(Settled(r), V)
    BY <2>1, ClaimAnswerIsBacked
  <2>4. SealingAfter(s, r) \in Nat /\ InboxAfter(s) \in 0 .. 1
    BY <1>1 DEF SealingAfter, InboxAfter, SwapInputBox, TypeOK
  <2>. HIDE DEF r, s, V
  <2>5. /\ currentPhase' \in Phases
        /\ inputAccumulationStart' \in DeploymentTime .. MaxTime
        /\ sealingEpochTimestamp' \in Nat
        /\ vm' \in ValidatorManagerState
        /\ inputBox' \in [0 .. 1 -> Seq(Inputs)]
        /\ epochHashes' \in Seq(Claims) /\ Len(epochHashes') <= MaxEpochs
        /\ disputes' \in SUBSET Disputes
        /\ AgreementInv'
    BY <2>1, <2>3, <2>4, ResolveKeeps
  <2>. QED BY <2>1, <2>2, <2>3, <2>4, <2>5 DEF TypeOK
<1>4. CASE FinalizeEpoch
  <2>1. /\ StartNewEpoch(vm, currentInputBox) /\ currentPhase' = "InputAccumulation"
        /\ UNCHANGED <<now, currentInputBox, disputes, inputAdded, votes, challenge>>
        /\ currentPhase = "AwaitingConsensus"
    BY <1>4 DEF FinalizeEpoch, historyVars
  <2>2. vm \in ValidatorManagerState /\ vm.claim \in Claims
    BY <1>4 DEF TypeOK, FinalizeEpoch, ValidatorManagerState
  <2>3. disputes = {}
    BY <2>1 DEF AgreementInv, DisputantsClaimed
  <2>. QED
    BY <1>1, <2>1, <2>2, <2>3, StartNewEpochTypes
    DEF TypeOK, AgreementInv, DisputantsClaimed, Phases
<1>5. ASSUME NEW x \in Inputs, AddInput(x)
      PROVE  TypeOK' /\ AgreementInv'
  <2>1. currentInputBox' \in 0 .. 1
    BY <1>2, <1>5 DEF AddInput, SealingTimeReached
  <2>2. inputBox' \in [0 .. 1 -> Seq(Inputs)]
    BY <1>5, <2>1 DEF AddInput, TypeOK
  <2>3. inputAdded' \in [Epochs -> Seq(Inputs)]
    <3>1. PICK e : inputAdded' = [inputAdded EXCEPT ![e] = Append(@, x)]
      BY <1>5 DEF AddInput
    <3>2. inputAdded \in [Epochs -> Seq(Inputs)]
      BY DEF TypeOK
    <3>3. \A f \in Epochs : Append(inputAdded[f], x) \in Seq(Inputs)
      BY <3>2
    <3>. QED BY <3>1, <3>2, <3>3
  <2>4. currentPhase' \in Phases /\ challenge' \in Challenges /\ votes' \subseteq votes
    BY <1>1, <1>5 DEF AddInput, TypeOK, Phases, Challenges
  <2>5. AgreementInv'
    <3>1. CASE SealingTimeReached
      <4>1. vm.claim = NoClaim /\ disputes = {}
        BY <3>1 DEF SealingTimeReached, AgreementInv, DisputantsClaimed
      <4>2. vm' = vm /\ disputes' = disputes /\ currentPhase' = "AwaitingConsensus"
        BY <1>5, <3>1 DEF AddInput
      <4>3. Earned(vm, votes')
        BY <4>1, NoClaimNoAgreement
      <4>. QED BY <4>1, <4>2, <4>3 DEF AgreementInv, DisputantsClaimed
    <3>2. CASE ~SealingTimeReached
      BY <1>5, <3>2 DEF AddInput, AgreementInv, DisputantsClaimed, Earned, Made
    <3>. QED BY <3>1, <3>2
  <2>. QED BY <1>5, <2>1, <2>2, <2>3, <2>4, <2>5 DEF AddInput, TypeOK
<1>6. ASSUME NEW d \in disputes, NEW k \in 1 .. 2, ResolveDispute(d, k)
      PROVE  TypeOK' /\ AgreementInv'
  <2>. DEFINE r == OnDisputeEnd(vm, d.claimers[k], d.claimers[3 - k], d.claims[k])
  <2>1. /\ ResolveValidatorResult(r, currentInputBox, now)
        /\ challenge' = [by |-> "dispute", start |-> now]
        /\ UNCHANGED <<now, currentInputBox, inputAdded, votes>>
    BY <1>6 DEF ResolveDispute
  <2>2. Backed(r, votes)
    BY DisputeAnswerIsBacked
  <2>3. votes \in SUBSET (Addresses \X Claims) /\ now \in Nat
    BY <1>1 DEF TypeOK
  <2>. HIDE DEF r
  <2>4. /\ currentPhase' \in Phases
        /\ inputAccumulationStart' \in DeploymentTime .. MaxTime
        /\ sealingEpochTimestamp' \in Nat
        /\ vm' \in ValidatorManagerState
        /\ inputBox' \in [0 .. 1 -> Seq(Inputs)]
        /\ epochHashes' \in Seq(Claims) /\ Len(epochHashes') <= MaxEpochs
        /\ disputes' \in SUBSET Disputes
        /\ AgreementInv'
    BY <1>1, <2>1, <2>2, <2>3, ResolveKeeps
  <2>5. challenge' \in Challenges
    BY <1>1, <2>1 DEF Challenges
  <2>. QED BY <1>1, <2>1, <2>3, <2>4, <2>5 DEF TypeOK
<1>7. CASE AdvanceTime
  <2>1. now' \in DeploymentTime .. MaxTime
    BY <1>1, <1>7 DEF AdvanceTime
  <2>2. UNCHANGED <<chainVars, historyVars>>
    BY <1>7 DEF AdvanceTime
  <2>. QED
    BY <2>1, <2>2
    DEF chainVars, historyVars, TypeOK, AgreementInv, DisputantsClaimed, Earned, Made
<1>8. CASE UNCHANGED vars
  BY <1>8
  DEF vars, chainVars, historyVars, TypeOK, AgreementInv, DisputantsClaimed, Earned, Made
<1>. QED BY <1>3, <1>4, <1>5, <1>6, <1>7, <1>8 DEF Next

\* Every variable keeps its type, whatever the validators, the inputs and the
\* dispute manager do.
THEOREM TypeCorrect == Spec => []TypeOK
<1>1. TypeOK /\ AgreementInv /\ [Next]_vars => (TypeOK /\ AgreementInv)'
  BY StepTypesAndAgreement
<1>. QED BY <1>1, InitTypesAndAgreement, PTL DEF Spec

\* An agreement bit always stands for a validator that is in the set and made
\* the current claim since the epoch was sealed.
THEOREM AgreementIsAlwaysEarned == Spec => []AgreementIsEarned
<1>1. TypeOK /\ AgreementInv /\ [Next]_vars => (TypeOK /\ AgreementInv)'
  BY StepTypesAndAgreement
<1>2. AgreementInv => AgreementIsEarned
  BY DEF AgreementInv, AgreementIsEarned, Earned
<1>. QED BY <1>1, <1>2, InitTypesAndAgreement, PTL DEF Spec

\* A dispute is always between two senders that made the two claims.
THEOREM DisputantsAlwaysClaimed == Spec => []DisputantsClaimed
<1>1. TypeOK /\ AgreementInv /\ [Next]_vars => (TypeOK /\ AgreementInv)'
  BY StepTypesAndAgreement
<1>2. AgreementInv => DisputantsClaimed
  BY DEF AgreementInv
<1>. QED BY <1>1, <1>2, InitTypesAndAgreement, PTL DEF Spec

-----------------------------------------------------------------------------
(* The input boxes.                                                        *)

\* Whether an epoch was sealed before or is sealed by this very transaction,
\* the box that receives inputs from here on is that of the epoch after it.
LEMMA AfterSealing ==
    ASSUME TypeOK, InboxesMatchEpochs,
           SealingTimeReached \/ currentPhase # "InputAccumulation",
           NEW b, b = InboxAfter(SealingTimeReached)
    PROVE  /\ b \in 0 .. 1
           /\ inputBox[b] = inputAdded[Len(epochHashes) + 1]
           /\ inputBox[1 - b] = inputAdded[Len(epochHashes)]
           /\ \A e \in Epochs : e > Len(epochHashes) + 1 => inputAdded[e] = <<>>
<1>1. Len(epochHashes) \in Nat /\ Len(epochHashes) + 1 \in Epochs
  BY BoundsAssumption DEF TypeOK, Epochs
<1>2. CASE SealingTimeReached
  <2>1. /\ currentPhase = "InputAccumulation" /\ b = 1 - currentInputBox
        /\ GetCurrentEpoch = Len(epochHashes)
    BY <1>2 DEF SealingTimeReached, InboxAfter, SwapInputBox, GetCurrentEpoch
  <2>2. 1 - b = currentInputBox /\ b \in 0 .. 1
    BY <2>1 DEF TypeOK
  <2>. QED BY <1>1, <2>1, <2>2 DEF InboxesMatchEpochs, Epochs
<1>3. CASE ~SealingTimeReached
  <2>1. /\ currentPhase # "InputAccumulation" /\ b = currentInputBox
        /\ GetCurrentEpoch = Len(epochHashes) + 1
    BY <1>3 DEF InboxAfter, GetCurrentEpoch
  <2>. QED BY <1>1, <2>1 DEF InboxesMatchEpochs, TypeOK
<1>. QED BY <1>2, <1>3

\* Finalizing the sealed epoch leaves the other box for the open epoch.
LEMMA StartNewEpochKeepsInboxes ==
    ASSUME TypeOK, NEW b \in 0 .. 1, NEW v, StartNewEpoch(v, b),
           inputBox[b] = inputAdded[Len(epochHashes) + 1],
           \A e \in Epochs : e > Len(epochHashes) + 1 => inputAdded[e] = <<>>,
           currentPhase' = "InputAccumulation", currentInputBox' = b, inputAdded' = inputAdded
    PROVE  InboxesMatchEpochs'
<1>1. inputBox' = [inputBox EXCEPT ![1 - b] = <<>>]
  BY DEF StartNewEpoch, ClearSealedBox
<1>2. Len(epochHashes') = Len(epochHashes) + 1
  BY DEF StartNewEpoch, TypeOK
<1>3. GetCurrentEpoch' = Len(epochHashes) + 1
  BY <1>2 DEF GetCurrentEpoch
<1>4. inputBox'[b] = inputBox[b] /\ inputBox'[1 - b] = <<>>
  BY <1>1 DEF TypeOK
<1>. QED BY <1>2, <1>3, <1>4 DEF InboxesMatchEpochs

\* The answer of the validator manager ends an epoch or leaves the boxes alone.
LEMMA ResolveKeepsInboxes ==
    ASSUME TypeOK, NEW b \in 0 .. 1, NEW r, NEW t, ResolveValidatorResult(r, b, t),
           inputBox[b] = inputAdded[Len(epochHashes) + 1],
           inputBox[1 - b] = inputAdded[Len(epochHashes)],
           \A e \in Epochs : e > Len(epochHashes) + 1 => inputAdded[e] = <<>>,
           currentInputBox' = b, inputAdded' = inputAdded
    PROVE  InboxesMatchEpochs'
<1>1. CASE StartNewEpoch(r.vm, b) /\ currentPhase' = "InputAccumulation"
  BY <1>1, StartNewEpochKeepsInboxes
<1>2. CASE /\ currentPhase' \in {"AwaitingConsensus", "AwaitingDispute"}
           /\ UNCHANGED <<epochHashes, inputBox>>
  <2>1. GetCurrentEpoch' = Len(epochHashes) + 1 /\ currentPhase' # "InputAccumulation"
    BY <1>2 DEF GetCurrentEpoch
  <2>. QED BY <1>2, <2>1 DEF InboxesMatchEpochs
<1>. QED BY <1>1, <1>2 DEF ResolveValidatorResult

\* An input is announced for the epoch whose box it goes to.
LEMMA AddInputKeepsInboxes ==
    ASSUME TypeOK, InboxesMatchEpochs, NEW x \in Inputs, AddInput(x)
    PROVE  InboxesMatchEpochs'
<1>. DEFINE n == Len(epochHashes)
            b == InboxAfter(SealingTimeReached)
            e == GetCurrentEpoch'
<1>1. n \in Nat /\ n \in Epochs /\ n + 1 \in Epochs
  BY BoundsAssumption DEF TypeOK, Epochs
<1>2. /\ currentInputBox' = b /\ epochHashes' = epochHashes
      /\ inputBox' = [inputBox EXCEPT ![b] = Append(@, x)]
      /\ inputAdded' = [inputAdded EXCEPT ![e] = Append(@, x)]
      /\ currentPhase' = IF SealingTimeReached THEN "AwaitingConsensus" ELSE currentPhase
  BY DEF AddInput
<1>3. DOMAIN inputBox = 0 .. 1 /\ DOMAIN inputAdded = Epochs
  BY DEF TypeOK
<1>4. CASE SealingTimeReached \/ currentPhase # "InputAccumulation"
  <2>1. /\ b \in 0 .. 1 /\ inputBox[b] = inputAdded[n + 1] /\ inputBox[1 - b] = inputAdded[n]
        /\ \A f \in Epochs : f > n + 1 => inputAdded[f] = <<>>
    BY <1>4, AfterSealing
  <2>2. currentPhase' # "InputAccumulation" /\ e = n + 1
    BY <1>2, <1>4 DEF GetCurrentEpoch
  <2>. HIDE DEF n, b, e
  <2>3. /\ inputBox'[b] = Append(inputBox[b], x) /\ inputBox'[1 - b] = inputBox[1 - b]
    BY <1>2, <1>3, <2>1
  <2>4. /\ inputAdded'[n + 1] = Append(inputAdded[n + 1], x)
        /\ \A f \in Epochs : f # n + 1 => inputAdded'[f] = inputAdded[f]
    BY <1>1, <1>2, <1>3, <2>2
  <2>. QED
    BY <1>1, <1>2, <2>1, <2>2, <2>3, <2>4 DEF InboxesMatchEpochs, n, e, Epochs
<1>5. CASE ~SealingTimeReached /\ currentPhase = "InputAccumulation"
  <2>1. /\ b = currentInputBox /\ e = n /\ currentPhase' = "InputAccumulation"
        /\ GetCurrentEpoch = n
    BY <1>2, <1>5 DEF InboxAfter, GetCurrentEpoch
  <2>2. /\ b \in 0 .. 1 /\ inputBox[b] = inputAdded[n] /\ inputBox[1 - b] = <<>>
        /\ \A f \in Epochs : f > n => inputAdded[f] = <<>>
    BY <1>5, <2>1 DEF InboxesMatchEpochs, TypeOK
  <2>. HIDE DEF n, b, e
  <2>3. /\ inputBox'[b] = Append(inputBox[b], x) /\ inputBox'[1 - b] = inputBox[1 - b]
    BY <1>2, <1>3, <2>2
  <2>4. /\ inputAdded'[n] = Append(inputAdded[n], x)
        /\ \A f \in Epochs : f # n => inputAdded'[f] = inputAdded[f]
    BY <1>1, <1>2, <1>3, <2>1
  <2>. QED
    BY <1>1, <1>2, <2>1, <2>2, <2>3, <2>4 DEF InboxesMatchEpochs, e, Epochs
<1>. QED BY <1>4, <1>5

\* Every transaction keeps boxes and announced inputs together.
LEMMA StepInboxes ==
    ASSUME TypeOK, AgreementInv, InboxesMatchEpochs, [Next]_vars
    PROVE  InboxesMatchEpochs'
<1>1. ASSUME NEW a \in Addresses, NEW c \in Claims, Claim(a, c)
      PROVE  InboxesMatchEpochs'
  <2>1. /\ SealingTimeReached \/ currentPhase # "InputAccumulation"
        /\ currentInputBox' = InboxAfter(SealingTimeReached)
        /\ \E r, t : ResolveValidatorResult(r, InboxAfter(SealingTimeReached), t)
        /\ inputAdded' = inputAdded
    BY <1>1 DEF Claim
  <2>. QED BY <2>1, AfterSealing, ResolveKeepsInboxes
<1>2. CASE FinalizeEpoch
  <2>1. /\ currentPhase = "AwaitingConsensus" /\ currentPhase' = "InputAccumulation"
        /\ StartNewEpoch(vm, currentInputBox)
        /\ currentInputBox' = currentInputBox /\ inputAdded' = inputAdded
    BY <1>2 DEF FinalizeEpoch, historyVars
  <2>2. currentInputBox = InboxAfter(SealingTimeReached)
    BY <2>1 DEF InboxAfter, SealingTimeReached
  <2>. QED BY <2>1, <2>2, AfterSealing, StartNewEpochKeepsInboxes
<1>3. ASSUME NEW x \in Inputs, AddInput(x)
      PROVE  InboxesMatchEpochs'
  BY <1>3, AddInputKeepsInboxes
<1>4. ASSUME NEW d \in disputes, NEW k \in 1 .. 2, ResolveDispute(d, k)
      PROVE  InboxesMatchEpochs'
  <2>1. /\ \E r, t : ResolveValidatorResult(r, currentInputBox, t)
        /\ currentInputBox' = currentInputBox /\ inputAdded' = inputAdded
    BY <1>4 DEF ResolveDispute
  <2>2. currentPhase = "AwaitingDispute"
    BY DEF AgreementInv, DisputantsClaimed
  <2>3. currentInputBox = InboxAfter(SealingTimeReached)
    BY <2>2 DEF InboxAfter, SealingTimeReached
  <2>. QED BY <2>1, <2>2, <2>3, AfterSealing, ResolveKeepsInboxes
<1>5. CASE AdvanceTime \/ UNCHANGED vars
  <2>1. UNCHANGED <<inputBox, currentInputBox, inputAdded, epochHashes, currentPhase>>
    BY <1>5 DEF AdvanceTime, vars, chainVars, historyVars
  <2>. QED BY <2>1 DEF InboxesMatchEpochs, GetCurrentEpoch
<1>. QED BY <1>1, <1>2, <1>3, <1>4, <1>5 DEF Next

-----------------------------------------------------------------------------
(* DisputeManagerImpl: the goal stays in step with the set and no consensus *)
(* is left unresolved.                                                      *)

InstantInv ==
    InstantDisputes => /\ GoalIsActive(vm)
                       /\ NoDisputeLeftOpen
                       /\ vm.claim # NoClaim => vm.agreed # vm.goal

\* Every transaction with the instant dispute manager keeps goal, consensus and disputes.
LEMMA StepInstant ==
    ASSUME TypeOK, AgreementInv, InstantInv, [Next]_vars PROVE InstantInv'
<1>. SUFFICES ASSUME InstantDisputes
              PROVE  GoalIsActive(vm') /\ NoDisputeLeftOpen'
                     /\ (vm'.claim # NoClaim => vm'.agreed # vm'.goal)
  BY DEF InstantInv, GoalIsActive
<1>1. GoalIsActive(vm) /\ NoDisputeLeftOpen /\ (vm.claim # NoClaim => vm.agreed # vm.goal)
  BY DEF InstantInv
<1>2. vm \in ValidatorManagerState
  BY DEF TypeOK
<1>3. ASSUME NEW v \in ValidatorManagerState, GoalIsActive(v), vm' = OnNewEpoch(v),
             currentPhase' = "InputAccumulation", disputes' = {}
      PROVE  /\ GoalIsActive(vm') /\ NoDisputeLeftOpen'
             /\ vm'.claim # NoClaim => vm'.agreed # vm'.goal
  BY <1>3, OnNewEpochClears DEF GoalIsActive, NoDisputeLeftOpen
<1>4. ASSUME NEW a \in Addresses, NEW c \in Claims, Claim(a, c)
      PROVE  /\ GoalIsActive(vm') /\ NoDisputeLeftOpen'
             /\ vm'.claim # NoClaim => vm'.agreed # vm'.goal
  <2>. DEFINE r == Settled(OnClaim(vm, a, c))
              V == (IF SealingTimeReached THEN {} ELSE votes) \cup {<<a, c>>}
  <2>1. \E b, t : ResolveValidatorResult(r, b, t)
    BY <1>4 DEF Claim
  <2>2. Backed(r, V) /\ r.result # "Conflict" /\ GoalIsActive(r.vm)
    BY <1>1, <1>4, ClaimAnswerIsBacked DEF Claim
  <2>. HIDE DEF r, V
  <2>3. CASE r.result = "NoConflict"
    BY <2>1, <2>2, <2>3 DEF ResolveValidatorResult, Backed, NoDisputeLeftOpen
  <2>4. CASE r.result = "Consensus"
    BY <1>3, <2>1, <2>2, <2>4 DEF ResolveValidatorResult, StartNewEpoch, Backed
  <2>. QED BY <2>2, <2>3, <2>4 DEF Backed, Results
<1>5. CASE FinalizeEpoch
  BY <1>1, <1>2, <1>3, <1>5 DEF FinalizeEpoch, StartNewEpoch, NoDisputeLeftOpen
<1>6. ASSUME NEW x \in Inputs, AddInput(x)
      PROVE  /\ GoalIsActive(vm') /\ NoDisputeLeftOpen'
             /\ vm'.claim # NoClaim => vm'.agreed # vm'.goal
  BY <1>1, <1>6 DEF AddInput, NoDisputeLeftOpen
<1>7. disputes = {}
  BY <1>1 DEF NoDisputeLeftOpen
<1>8. CASE AdvanceTime \/ UNCHANGED vars
  BY <1>1, <1>8 DEF AdvanceTime, vars, chainVars, NoDisputeLeftOpen
<1>. QED BY <1>4, <1>5, <1>6, <1>7, <1>8 DEF Next

-----------------------------------------------------------------------------
(* The timestamp of the sealed epoch.                                      *)

\* SealingTimestampIsCurrent together with the value the timestamp keeps
\* while inputs accumulate, which an epoch sealed by an input inherits.
TimestampInv ==
    sealingEpochTimestamp =
        IF currentPhase # "InputAccumulation" /\ challenge.by # "input" THEN challenge.start
        ELSE IF epochHashes = <<>> THEN 0 ELSE MaxUint

\* Whatever the answer, the timestamp is that of the new challenge, or of
\* none if a new epoch starts.
LEMMA ResolveSetsTimestamp ==
    ASSUME TypeOK, NEW r, NEW b, NEW t, ResolveValidatorResult(r, b, t),
           \/ challenge' = [by |-> "dispute", start |-> t]
           \/ challenge' = [by |-> "claim", start |-> t]
           \/ /\ challenge' = challenge /\ t = sealingEpochTimestamp
              /\ currentPhase # "InputAccumulation" /\ TimestampInv
    PROVE  TimestampInv'
<1>1. CASE StartNewEpoch(r.vm, b) /\ currentPhase' = "InputAccumulation"
  <2>1. epochHashes' # <<>> /\ sealingEpochTimestamp' = MaxUint
    BY <1>1 DEF StartNewEpoch, TypeOK
  <2>. QED BY <1>1, <2>1 DEF TimestampInv
<1>2. CASE /\ currentPhase' \in {"AwaitingConsensus", "AwaitingDispute"}
           /\ sealingEpochTimestamp' = t /\ epochHashes' = epochHashes
  BY <1>2 DEF TimestampInv
<1>. QED BY <1>1, <1>2 DEF ResolveValidatorResult

\* Every transaction leaves the timestamp of the sealing, or the one of before, in place.
LEMMA StepTimestamp ==
    ASSUME TypeOK, TimestampInv, [Next]_vars PROVE TimestampInv'
<1>1. ASSUME NEW a \in Addresses, NEW c \in Claims, Claim(a, c)
      PROVE  TimestampInv'
  <2>. DEFINE r == OnClaim(vm, a, c)
              t == SealingAfter(SealingTimeReached, r)
  <2>1. /\ SealingTimeReached \/ currentPhase = "AwaitingConsensus"
        /\ ResolveValidatorResult(Settled(r), InboxAfter(SealingTimeReached), t)
        /\ challenge' = IF Raised(r) THEN [by |-> "dispute", start |-> now]
                        ELSE IF SealingTimeReached THEN [by |-> "claim", start |-> now]
                        ELSE challenge
    BY <1>1 DEF Claim
  <2>2. IF SealingTimeReached \/ Raised(r) THEN t = now ELSE t = sealingEpochTimestamp
    BY DEF SealingAfter
  <2>. HIDE DEF r, t
  <2>. QED BY <2>1, <2>2, ResolveSetsTimestamp
<1>2. CASE FinalizeEpoch
  <2>1. epochHashes' # <<>> /\ sealingEpochTimestamp' = MaxUint
    BY <1>2 DEF FinalizeEpoch, StartNewEpoch, TypeOK
  <2>. QED BY <1>2, <2>1 DEF FinalizeEpoch, TimestampInv
<1>3. ASSUME NEW x \in Inputs, AddInput(x)
      PROVE  TimestampInv'
  BY <1>3 DEF AddInput, SealingTimeReached, TimestampInv
<1>4. ASSUME NEW d \in disputes, NEW k \in 1 .. 2, ResolveDispute(d, k)
      PROVE  TimestampInv'
  <2>. DEFINE r == OnDisputeEnd(vm, d.claimers[k], d.claimers[3 - k], d.claims[k])
  <2>1. /\ ResolveValidatorResult(r, currentInputBox, now)
        /\ challenge' = [by |-> "dispute", start |-> now]
    BY <1>4 DEF ResolveDispute
  <2>. HIDE DEF r
  <2>. QED BY <2>1, ResolveSetsTimestamp
<1>5. CASE AdvanceTime \/ UNCHANGED vars
  BY <1>5 DEF AdvanceTime, vars, chainVars, historyVars, TimestampInv
<1>. QED BY <1>1, <1>2, <1>3, <1>4, <1>5 DEF Next

-----------------------------------------------------------------------------
IInv == TypeOK /\ AgreementInv /\ InboxesMatchEpochs /\ TimestampInv /\ InstantInv

\* The inductive invariant holds at deployment.
LEMMA InitInductive == Init => IInv
<1>. SUFFICES ASSUME Init PROVE IInv
  OBVIOUS
<1>1. TypeOK /\ AgreementInv
  BY InitTypesAndAgreement
<1>2. InboxesMatchEpochs
  <2>1. GetCurrentEpoch = 0 /\ 0 \in Epochs
    BY BoundsAssumption DEF Init, GetCurrentEpoch, Epochs
  <2>. QED BY <2>1 DEF Init, InboxesMatchEpochs
<1>3. InstantInv
  BY InitialValidatorManagerIsActive DEF Init, InstantInv, NoDisputeLeftOpen
<1>4. TimestampInv
  BY DEF Init, TimestampInv
<1>. QED BY <1>1, <1>2, <1>3, <1>4 DEF IInv

\* Every transaction keeps the inductive invariant.
LEMMA StepInductive == IInv /\ [Next]_vars => IInv'
  BY StepTypesAndAgreement, StepInboxes, StepTimestamp, StepInstant DEF IInv

\* The boxes always hold the inputs that were announced for the accumulating
\* and for the sealed epoch.
THEOREM InboxesAlwaysMatchEpochs == Spec => []InboxesMatchEpochs
<1>1. IInv => InboxesMatchEpochs
  BY DEF IInv
<1>. QED BY <1>1, InitInductive, StepInductive, PTL DEF Spec

\* Under DisputeManagerImpl the consensus goal is the set of active validators.
THEOREM GoalIsAlwaysActive == InstantDisputes /\ Spec => []GoalIsActiveValidators
<1>. SUFFICES ASSUME InstantDisputes PROVE Spec => []GoalIsActiveValidators
  OBVIOUS
<1>1. IInv => GoalIsActiveValidators
  BY DEF IInv, InstantInv, GoalIsActive, GoalIsActiveValidators
<1>. QED BY <1>1, InitInductive, StepInductive, PTL DEF Spec

\* Under DisputeManagerImpl no dispute outlives its transaction.
THEOREM NoDisputeIsLeftOpen == InstantDisputes /\ Spec => []NoDisputeLeftOpen
<1>. SUFFICES ASSUME InstantDisputes PROVE Spec => []NoDisputeLeftOpen
  OBVIOUS
<1>1. IInv => NoDisputeLeftOpen
  BY DEF IInv, InstantInv
<1>. QED BY <1>1, InitInductive, StepInductive, PTL DEF Spec

\* Under DisputeManagerImpl an epoch with a claim only waits while an active
\* validator has not agreed.
THEOREM ConsensusIsNeverMissed == InstantDisputes /\ Spec => []ConsensusNotMissed
<1>. SUFFICES ASSUME InstantDisputes PROVE Spec => []ConsensusNotMissed
  OBVIOUS
<1>1. IInv => ConsensusNotMissed
  <2>. SUFFICES ASSUME IInv, vm.claim # NoClaim
                PROVE  \E i \in Slots : vm.validators[i] # NoAddress /\ i \notin vm.agreed
    BY DEF ConsensusNotMissed
  <2>1. vm.agreed \in SUBSET Slots
    BY DEF IInv, TypeOK, ValidatorManagerState
  <2>2. vm.agreed \subseteq ActiveSlots(vm.validators)
    BY <2>1 DEF IInv, AgreementInv, Earned, ActiveSlots
  <2>3. vm.agreed # ActiveSlots(vm.validators)
    BY DEF IInv, InstantInv, GoalIsActive
  <2>. QED BY <2>2, <2>3 DEF ActiveSlots
<1>. QED BY <1>1, InitInductive, StepInductive, PTL DEF Spec

\* The timestamp finalizeEpoch reads is the start of the running challenge
\* period, or the value of the previous epoch's end if an input sealed this one.
THEOREM SealingTimestampIsAlwaysCurrent == Spec => []SealingTimestampIsCurrent
<1>1. IInv => SealingTimestampIsCurrent
  BY DEF IInv, TimestampInv, SealingTimestampIsCurrent
<1>. QED BY <1>1, InitInductive, StepInductive, PTL DEF Spec

-----------------------------------------------------------------------------
(* What a step may never do under DisputeManagerImpl.                      *)

\* A claim removes at most its sender, who differs from the current claim.
LEMMA ClaimRemovesDissenter ==
    ASSUME TypeOK, NEW a \in Addresses, NEW c \in Claims, ~OnClaimReverts(vm, a, c),
           NEW left, left = Settled(OnClaim(vm, a, c)).vm,
           NEW i \in Slots, left.validators[i] # vm.validators[i]
    PROVE  left.validators[i] = NoAddress /\ vm.validators[i] = a /\ c # vm.claim
<1>. DEFINE first == WithFirstClaim(vm, c)
            r     == OnClaim(vm, a, c)
<1>1. first \in ValidatorManagerState /\ first.validators = vm.validators
      /\ first.claim \in Claims /\ (first.claim # c => first.claim = vm.claim)
  BY DEF TypeOK, ValidatorManagerState, WithFirstClaim
<1>2. CASE c = first.claim
  <2>1. r.result # "Conflict" /\ r.vm.validators = vm.validators
    BY <1>1, <1>2
    DEF OnClaim, ConsensusOrNot, Outcome, ValidatorManagerState
  <2>. QED BY <2>1 DEF Settled, Raised
<1>3. CASE c # first.claim
  <2>1. /\ r.vm = first /\ r.claims[1] = first.claim /\ r.claimers[2] = a
        /\ r.vm.claim = r.claims[1]
    BY <1>3 DEF OnClaim, Outcome
  <2>. HIDE DEF first, r
  <2>2. CASE Raised(r)
    <3>1. Settled(r) = OnDisputeEnd(first, r.claimers[1], a, first.claim)
      BY <2>1, <2>2 DEF Settled
    <3>2. left = RemoveFromValidatorSetAndBothBitmasks(first, a)
      BY <1>1, <3>1, CurrentClaimWins DEF r
    <3>. QED BY <1>1, <1>3, <3>2, RemovalEmpties
  <2>3. CASE ~Raised(r)
    BY <1>1, <2>1, <2>3 DEF Settled, r
  <2>. QED BY <2>2, <2>3
<1>. QED BY <1>2, <1>3

\* The validators after a claim are those of the answer, whether or not a new
\* epoch starts with them.
LEMMA ResolveKeepsValidators ==
    ASSUME NEW r, r.vm \in ValidatorManagerState, NEW b, NEW t, ResolveValidatorResult(r, b, t)
    PROVE  vm'.validators = r.vm.validators
  BY OnNewEpochClears DEF ResolveValidatorResult, StartNewEpoch

\* Nobody but a validator that contradicted the current claim is removed.
THEOREM OnlyDissentersAreEverRemoved == InstantDisputes /\ Spec => OnlyDissentersAreRemoved
<1>. SUFFICES ASSUME InstantDisputes PROVE Spec => OnlyDissentersAreRemoved
  OBVIOUS
<1>. DEFINE Dissented(i) == /\ vm'.validators[i] = NoAddress
                            /\ \E c \in Claims \ {vm.claim} : <<vm.validators[i], c>> \in votes'
            Removal == \A i \in Slots : vm'.validators[i] # vm.validators[i] => Dissented(i)
<1>1. IInv /\ [Next]_vars => [Removal]_vars
  <2>. SUFFICES ASSUME IInv, Next, NEW i \in Slots, vm'.validators[i] # vm.validators[i]
                PROVE  Dissented(i)
    OBVIOUS
  <2>1. ASSUME NEW a \in Addresses, NEW c \in Claims, Claim(a, c)
        PROVE  Dissented(i)
    <3>. DEFINE r == Settled(OnClaim(vm, a, c))
    <3>1. /\ ~OnClaimReverts(vm, a, c) /\ <<a, c>> \in votes'
          /\ \E b, t : ResolveValidatorResult(r, b, t)
      BY <2>1 DEF Claim
    <3>2. r.vm \in ValidatorManagerState
      BY <3>1, ClaimAnswerIsBacked DEF IInv, Backed
    <3>3. r.vm.validators[i] = vm'.validators[i]
      BY <3>1, <3>2, ResolveKeepsValidators
    <3>4. r.vm.validators[i] = NoAddress /\ vm.validators[i] = a /\ c # vm.claim
      BY <3>1, <3>3, ClaimRemovesDissenter DEF IInv
    <3>. QED BY <3>1, <3>3, <3>4
  <2>2. disputes = {} /\ vm \in ValidatorManagerState
    BY DEF IInv, InstantInv, NoDisputeLeftOpen, TypeOK
  <2>3. CASE \/ FinalizeEpoch
             \/ \E x \in Inputs : AddInput(x)
             \/ AdvanceTime
    <3>1. vm'.validators = vm.validators
      BY <2>2, <2>3, OnNewEpochClears
      DEF FinalizeEpoch, StartNewEpoch, AddInput, AdvanceTime, chainVars
    <3>. QED BY <3>1
  <2>. QED BY <2>1, <2>2, <2>3 DEF Next
<1>. HIDE DEF Removal
<1>2. Spec => [][Removal]_vars
  BY <1>1, InitInductive, StepInductive, PTL DEF Spec
<1>. QED BY <1>2 DEF OnlyDissentersAreRemoved, Removal

\* An epoch ends by the unanimity of the active validators or by the timeout,
\* and with a claim that somebody made since it was sealed.
THEOREM FinalizationIsAlwaysBacked == InstantDisputes /\ Spec => FinalizationIsBacked
<1>. SUFFICES ASSUME InstantDisputes PROVE Spec => FinalizationIsBacked
  OBVIOUS
<1>. DEFINE final   == epochHashes'[Len(epochHashes')]
            Backing == /\ Made(final, votes')
                       /\ \/ FinalizeEpoch
                          \/ \A i \in ActiveSlots(vm'.validators) :
                                <<vm'.validators[i], final>> \in votes'
            Ending  == epochHashes' # epochHashes => Backing
<1>1. IInv /\ [Next]_vars => [Ending]_vars
  <2>. SUFFICES ASSUME IInv, Next, epochHashes' # epochHashes
                PROVE  Backing
    OBVIOUS
  <2>1. ASSUME NEW v, NEW b, StartNewEpoch(v, b), v.claim \in Claims
        PROVE  final = v.claim
    BY <2>1 DEF StartNewEpoch, IInv, TypeOK
  <2>2. ASSUME NEW a \in Addresses, NEW c \in Claims, Claim(a, c)
        PROVE  Backing
    <3>. DEFINE r == Settled(OnClaim(vm, a, c))
    <3>1. /\ ~OnClaimReverts(vm, a, c)
          /\ votes' = (IF SealingTimeReached THEN {} ELSE votes) \cup {<<a, c>>}
          /\ \E b, t : ResolveValidatorResult(r, b, t)
      BY <2>2 DEF Claim
    <3>2. Backed(r, votes') /\ GoalIsActive(r.vm)
      BY <3>1, ClaimAnswerIsBacked DEF IInv, InstantInv
    <3>. HIDE DEF r
    <3>3. r.vm \in ValidatorManagerState /\ r.vm.claim \in Claims /\ Earned(r.vm, votes')
          /\ Made(r.vm.claim, votes') /\ (r.result = "Consensus" => r.vm.agreed = r.vm.goal)
      BY <3>2 DEF Backed
    <3>4. r.result = "Consensus" /\ \E b : StartNewEpoch(r.vm, b)
      BY <3>1 DEF ResolveValidatorResult
    <3>5. final = r.vm.claim /\ vm'.validators = r.vm.validators
      BY <2>1, <3>1, <3>3, <3>4, ResolveKeepsValidators
    <3>6. \A i \in ActiveSlots(r.vm.validators) : <<r.vm.validators[i], r.vm.claim>> \in votes'
      BY <3>2, <3>3, <3>4 DEF GoalIsActive, Earned
    <3>. HIDE DEF final
    <3>. QED BY <3>3, <3>5, <3>6
  <2>3. CASE FinalizeEpoch
    <3>1. /\ StartNewEpoch(vm, currentInputBox) /\ vm.claim # NoClaim /\ votes' = votes
      BY <2>3 DEF FinalizeEpoch, historyVars
    <3>2. vm.claim \in Claims /\ Made(vm.claim, votes)
      BY <3>1 DEF IInv, TypeOK, ValidatorManagerState, AgreementInv
    <3>3. final = vm.claim
      BY <2>1, <3>1, <3>2
    <3>. HIDE DEF final
    <3>. QED BY <2>3, <3>1, <3>2, <3>3
  <2>4. CASE (\E x \in Inputs : AddInput(x)) \/ AdvanceTime
    BY <2>4 DEF AddInput, AdvanceTime, chainVars
  <2>5. disputes = {}
    BY DEF IInv, InstantInv, NoDisputeLeftOpen
  <2>. QED BY <2>2, <2>3, <2>4, <2>5 DEF Next
<1>. HIDE DEF Ending
<1>2. Spec => [][Ending]_vars
  BY <1>1, InitInductive, StepInductive, PTL DEF Spec
<1>. QED BY <1>2 DEF FinalizationIsBacked, Ending, Made

-----------------------------------------------------------------------------
(* The refinement.  By InboxesMatchEpochs the mapped inputs are inputAdded. *)

MappedInputs ==
    [e \in Epochs |->
        IF e = GetCurrentEpoch THEN inputBox[currentInputBox]
        ELSE IF e = Len(epochHashes) THEN inputBox[1 - currentInputBox]
        ELSE inputAdded[e]]

\* The two boxes are the inputs announced for the epochs they stand for.
LEMMA MappedInputsAreAdded ==
    TypeOK /\ InboxesMatchEpochs => MappedInputs = inputAdded
<1>. SUFFICES ASSUME TypeOK, InboxesMatchEpochs PROVE MappedInputs = inputAdded
  OBVIOUS
<1>1. inputAdded = [e \in Epochs |-> inputAdded[e]]
  BY DEF TypeOK
<1>2. ASSUME NEW e \in Epochs, e # GetCurrentEpoch, e = Len(epochHashes)
      PROVE  inputBox[1 - currentInputBox] = inputAdded[e]
  BY <1>2 DEF GetCurrentEpoch, InboxesMatchEpochs
<1>3. \A e \in Epochs : MappedInputs[e] = inputAdded[e]
  BY <1>2 DEF MappedInputs, InboxesMatchEpochs
<1>. QED BY <1>1, <1>3 DEF MappedInputs

\* Pushing the claim finalizes the epoch before the open one; the other
\* outcomes leave open whether a claim sealed it.
LEMMA ResolveRefines ==
    ASSUME TypeOK, NEW r, NEW b, NEW t, ResolveValidatorResult(r, b, t), r.vm.claim \in Claims,
           SealingTimeReached \/ currentPhase # "InputAccumulation"
    PROVE  /\ GetCurrentEpoch' = Len(epochHashes) + 1
           /\ \/ epochHashes' = epochHashes
              \/ /\ Len(epochHashes) < MaxEpochs
                 /\ \E c \in Claims : epochHashes' = Append(epochHashes, c)
<1>1. CASE StartNewEpoch(r.vm, b) /\ currentPhase' = "InputAccumulation"
  <2>1. /\ Len(epochHashes) < MaxEpochs
        /\ epochHashes' = Append(epochHashes, r.vm.claim)
    BY <1>1 DEF StartNewEpoch
  <2>2. Len(epochHashes') = Len(epochHashes) + 1
    BY <2>1 DEF TypeOK
  <2>. QED BY <1>1, <2>1, <2>2 DEF GetCurrentEpoch
<1>2. CASE /\ currentPhase' \in {"AwaitingConsensus", "AwaitingDispute"}
           /\ epochHashes' = epochHashes
  BY <1>2 DEF GetCurrentEpoch
<1>. QED BY <1>1, <1>2 DEF ResolveValidatorResult

\* Every transaction is a step of EpochLifecycle or changes nothing that it sees.
LEMMA MappedStep ==
    ASSUME IInv, IInv', [Next]_vars
    PROVE  [Lifecycle!Next]_(Lifecycle!vars)
<1>. DEFINE n == Len(epochHashes)
<1>1. /\ MappedInputs = inputAdded /\ MappedInputs' = inputAdded'
  <2>1. (TypeOK /\ InboxesMatchEpochs => MappedInputs = inputAdded)'
    BY MappedInputsAreAdded, PTL
  <2>. QED BY <2>1, MappedInputsAreAdded DEF IInv
<1>2. n \in Nat
  BY DEF IInv, TypeOK
<1>3. GetCurrentEpoch \in {n, n + 1}
      /\ (GetCurrentEpoch = n <=> currentPhase = "InputAccumulation")
  BY <1>2 DEF GetCurrentEpoch
<1>4. ASSUME UNCHANGED inputAdded, GetCurrentEpoch' = n + 1,
             \/ epochHashes' = epochHashes
             \/ n < MaxEpochs /\ \E c \in Claims : epochHashes' = Append(epochHashes, c)
      PROVE  [Lifecycle!Next]_(Lifecycle!vars)
  <2>1. UNCHANGED MappedInputs
    BY <1>1, <1>4
  <2>2. Lifecycle!MaySeal
    BY <1>2, <1>3, <1>4 DEF Lifecycle!MaySeal
  <2>3. CASE epochHashes' = epochHashes
    BY <1>3, <1>4, <2>1, <2>3
    DEF Lifecycle!Next, Lifecycle!Seal, Lifecycle!vars, MappedInputs
  <2>4. ASSUME NEW c \in Claims, n < MaxEpochs, epochHashes' = Append(epochHashes, c)
        PROVE  Lifecycle!Finalize(c)
    BY <1>4, <2>1, <2>2, <2>4 DEF Lifecycle!Finalize, MappedInputs
  <2>. QED BY <1>4, <2>3, <2>4 DEF Lifecycle!Next
<1>5. ASSUME NEW a \in Addresses, NEW c \in Claims, Claim(a, c)
      PROVE  [Lifecycle!Next]_(Lifecycle!vars)
  <2>. DEFINE r == Settled(OnClaim(vm, a, c))
  <2>1. /\ SealingTimeReached \/ currentPhase # "InputAccumulation"
        /\ \E b, t : ResolveValidatorResult(r, b, t)
        /\ ~OnClaimReverts(vm, a, c)
        /\ UNCHANGED inputAdded
    BY <1>5 DEF Claim
  <2>2. r.vm.claim \in Claims
    BY <2>1, ClaimAnswerIsBacked DEF IInv, Backed
  <2>. HIDE DEF r
  <2>. QED BY <1>4, <2>1, <2>2, ResolveRefines DEF IInv
<1>6. CASE FinalizeEpoch
  <2>1. /\ currentPhase = "AwaitingConsensus" /\ currentPhase' = "InputAccumulation"
        /\ n < MaxEpochs /\ epochHashes' = Append(epochHashes, vm.claim)
        /\ vm.claim # NoClaim /\ UNCHANGED inputAdded
    BY <1>6 DEF FinalizeEpoch, StartNewEpoch, historyVars
  <2>2. vm.claim \in Claims
    BY <2>1 DEF IInv, TypeOK, ValidatorManagerState
  <2>3. Len(epochHashes') = n + 1
    BY <2>1 DEF IInv, TypeOK
  <2>4. GetCurrentEpoch' = n + 1
    BY <2>1, <2>3 DEF GetCurrentEpoch
  <2>. QED BY <1>4, <2>1, <2>2, <2>4
<1>7. ASSUME NEW x \in Inputs, AddInput(x)
      PROVE  [Lifecycle!Next]_(Lifecycle!vars)
  <2>1. /\ inputAdded' = [inputAdded EXCEPT ![GetCurrentEpoch'] = Append(@, x)]
        /\ epochHashes' = epochHashes
        /\ currentPhase' = IF SealingTimeReached THEN "AwaitingConsensus" ELSE currentPhase
    BY <1>7 DEF AddInput
  <2>2. Lifecycle!MaySeal
    BY <1>2, <1>3, <2>1 DEF Lifecycle!MaySeal, GetCurrentEpoch, SealingTimeReached
  <2>3. Len(inputAdded[GetCurrentEpoch']) < MaxBoxSize
    <3>1. Len(inputBox[InboxAfter(SealingTimeReached)]) < MaxBoxSize
      BY <1>7 DEF AddInput
    <3>2. CASE SealingTimeReached \/ currentPhase # "InputAccumulation"
      <4>1. GetCurrentEpoch' = n + 1
        BY <2>1, <3>2 DEF GetCurrentEpoch
      <4>. QED BY <3>1, <3>2, <4>1, AfterSealing DEF IInv
    <3>3. CASE ~SealingTimeReached /\ currentPhase = "InputAccumulation"
      BY <2>1, <3>1, <3>3 DEF GetCurrentEpoch, InboxAfter, InboxesMatchEpochs, IInv
    <3>. QED BY <3>2, <3>3
  <2>4. Lifecycle!Add(x)
    BY <1>1, <2>1, <2>2, <2>3 DEF Lifecycle!Add, MappedInputs
  <2>. QED BY <2>4 DEF Lifecycle!Next
<1>8. ASSUME NEW d \in disputes, NEW k \in 1 .. 2, ResolveDispute(d, k)
      PROVE  [Lifecycle!Next]_(Lifecycle!vars)
  <2>. DEFINE r == OnDisputeEnd(vm, d.claimers[k], d.claimers[3 - k], d.claims[k])
  <2>1. /\ \E b, t : ResolveValidatorResult(r, b, t)
        /\ UNCHANGED inputAdded
    BY <1>8 DEF ResolveDispute
  <2>2. r.vm.claim \in Claims
    BY DisputeAnswerIsBacked DEF IInv, Backed
  <2>3. currentPhase # "InputAccumulation"
    BY DEF IInv, AgreementInv, DisputantsClaimed
  <2>. HIDE DEF r
  <2>. QED BY <1>4, <2>1, <2>2, <2>3, ResolveRefines DEF IInv
<1>9. CASE AdvanceTime \/ UNCHANGED vars
  <2>1. UNCHANGED <<inputAdded, epochHashes, currentPhase>>
    BY <1>9 DEF AdvanceTime, vars, chainVars, historyVars
  <2>. QED
    BY <1>1, <2>1 DEF Lifecycle!vars, MappedInputs, GetCurrentEpoch
<1>. QED BY <1>5, <1>6, <1>7, <1>8, <1>9 DEF Next

\* The composition implements the life cycle of epochs, for every validator
\* set, durations, inputs and dispute manager.
THEOREM LifecycleTheorem == Spec => LifecycleIsImplemented
<1>1. Init => Lifecycle!Init
  <2>. SUFFICES ASSUME Init PROVE Lifecycle!Init
    OBVIOUS
  <2>1. MappedInputs = inputAdded /\ inputAdded = [e \in Epochs |-> <<>>]
    BY InitInductive, MappedInputsAreAdded DEF IInv, Init
  <2>. QED BY <2>1 DEF Init, Lifecycle!Init, MappedInputs, GetCurrentEpoch, Lifecycle!Epochs, Epochs
<1>2. IInv /\ IInv' /\ [Next]_vars => [Lifecycle!Next]_(Lifecycle!vars)
  BY MappedStep
<1>. QED
  BY <1>1, <1>2, InitInductive, StepInductive, PTL
  DEF Spec, LifecycleIsImplemented, Lifecycle!Spec

=============================================================================
