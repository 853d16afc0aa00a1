----------------------------- MODULE DescartesV2 -----------------------------
(***************************************************************************)
(* The on-chain rollup: the phases and timers of DescartesV2Impl.sol       *)
(* composed with the validator manager, the two input boxes of             *)
(* InputImpl.sol, the finalized epochs of OutputImpl.sol and a dispute     *)
(* manager.                                                                *)
(*                                                                         *)
(* An action is one transaction that succeeds, with every contract it      *)
(* calls.  One that reverts changes nothing and is a stuttering step.      *)
(* Block time is the variable now; several transactions may share a block. *)
(*                                                                         *)
(* DisputeManagerImpl.sol, the only implementation in the repository,      *)
(* settles a dispute inside the transaction that raises it, in favour of   *)
(* the current claim (InstantDisputes).  The interface DisputeManager.sol  *)
(* also admits a manager that calls resolveDispute in a later transaction  *)
(* with either outcome; that one is external to the repository.            *)
(***************************************************************************)
EXTENDS ValidatorManager

CONSTANTS
    InputDuration, ChallengePeriod,  \* seconds, given to the constructor
    DeploymentTime,   \* timestamp of the constructor's block
    MaxUint,          \* type(uint256).max
    InstantDisputes,  \* TRUE for DisputeManagerImpl
    Inputs,           \* input hashes
    MaxTime, MaxEpochs, MaxBoxSize   \* bounds on time, finalized epochs, inputs in a box

ASSUME TimeAssumption ==
    /\ InputDuration \in Nat /\ ChallengePeriod \in Nat
    /\ DeploymentTime \in Nat /\ MaxTime \in Nat /\ MaxUint \in Nat
    /\ DeploymentTime <= MaxTime /\ MaxTime < MaxUint

ASSUME BoundsAssumption ==
    /\ MaxEpochs \in Nat /\ MaxBoxSize \in Nat
    /\ InstantDisputes \in BOOLEAN

VARIABLES
    now,                      \* block.timestamp
    currentPhase,
    inputAccumulationStart,
    sealingEpochTimestamp,
    vm,                       \* storage of the validator manager
    inputBox,                 \* inputBox0 and inputBox1
    currentInputBox,
    epochHashes,              \* finalized claims, in OutputImpl
    disputes,                 \* what the dispute manager has not settled yet
    (* History of what the transactions emitted; the contracts never read it. *)
    inputAdded,               \* InputAdded events: the inputs of each epoch
    votes,                    \* Claim events since the last epoch was sealed
    challenge                 \* what last made the sealed epoch challengeable, and when

chainVars == <<currentPhase, inputAccumulationStart, sealingEpochTimestamp, vm,
               inputBox, currentInputBox, epochHashes, disputes>>
historyVars == <<inputAdded, votes, challenge>>
vars == <<now, chainVars, historyVars>>

Phases == {"InputAccumulation", "AwaitingConsensus", "AwaitingDispute"}

\* Epochs an input can be emitted for.
Epochs == 0 .. MaxEpochs + 1

\* The claimant of claims[k] is claimers[k].
Disputes == [claims   : [1 .. 2 -> Claims],
             claimers : [1 .. 2 -> Addresses \cup {NoAddress}]]

Challenges == [by : {"claim", "input", "dispute"}, start : DeploymentTime .. MaxTime]

-----------------------------------------------------------------------------
\* The epoch that receives inputs.
GetCurrentEpoch ==
    IF currentPhase = "InputAccumulation" THEN Len(epochHashes) ELSE Len(epochHashes) + 1

\* claim and addInput add these checked in the accumulation phase.
SealingTimeFits ==
    currentPhase = "InputAccumulation" => inputAccumulationStart + InputDuration <= MaxUint

\* The next claim or input closes the accumulating epoch.
SealingTimeReached ==
    /\ currentPhase = "InputAccumulation"
    /\ now > inputAccumulationStart + InputDuration

SwapInputBox(box) == 1 - box

InboxAfter(seals) == IF seals THEN SwapInputBox(currentInputBox) ELSE currentInputBox

WrongClearSealedBox(boxes, current) == [boxes EXCEPT ![current] = <<>>]

\* InputImpl.onNewEpoch deletes the box that is not receiving inputs.
ClearSealedBox(boxes, current) == [boxes EXCEPT ![1 - current] = <<>>]

StartNewEpoch(vmAfter, box) ==
    /\ Len(epochHashes) < MaxEpochs
    /\ inputAccumulationStart' = now
    /\ sealingEpochTimestamp' = MaxUint
    /\ vm' = OnNewEpoch(vmAfter)
    /\ epochHashes' = Append(epochHashes, vmAfter.claim)
    /\ inputBox' = ClearSealedBox(inputBox, box)

\* What DisputeManagerImpl answers at once: the current claim wins.
Raised(r) == r.result = "Conflict" /\ InstantDisputes

WrongSettled(r) ==
    IF Raised(r)
    THEN OnDisputeEnd(r.vm, r.claimers[2], r.claimers[1], r.claims[2])
    ELSE r

Settled(r) ==
    IF Raised(r)
    THEN OnDisputeEnd(r.vm, r.claimers[1], r.claimers[2], r.claims[1])
    ELSE r

WrongSealingAfter(seals, r) == IF Raised(r) THEN now ELSE sealingEpochTimestamp

\* The challenge period starts with the claim that seals the epoch and again
\* with the end of a dispute.
SealingAfter(seals, r) == IF seals \/ Raised(r) THEN now ELSE sealingEpochTimestamp

\* r is the validator manager's answer, box the box inputs now go to, and
\* sealing the timestamp the sealed epoch has from here on.
ResolveValidatorResult(r, box, sealing) ==
    \/ /\ r.result = "NoConflict"
       /\ currentPhase' = "AwaitingConsensus"
       /\ disputes' = {}
       /\ sealingEpochTimestamp' = sealing
       /\ vm' = r.vm
       /\ UNCHANGED <<inputAccumulationStart, epochHashes, inputBox>>
    \/ /\ r.result = "Consensus"
       /\ currentPhase' = "InputAccumulation"
       /\ disputes' = {}
       /\ StartNewEpoch(r.vm, box)
    \/ /\ r.result = "Conflict"
       /\ currentPhase' = "AwaitingDispute"
       /\ disputes' = {[claims |-> r.claims, claimers |-> r.claimers]}
       /\ sealingEpochTimestamp' = sealing
       /\ vm' = r.vm
       /\ UNCHANGED <<inputAccumulationStart, epochHashes, inputBox>>

-----------------------------------------------------------------------------
Init ==
    /\ now = DeploymentTime
    /\ currentPhase = "InputAccumulation"
    /\ inputAccumulationStart = DeploymentTime
    /\ sealingEpochTimestamp = 0
    /\ vm = InitialValidatorManager
    /\ inputBox = [b \in 0 .. 1 |-> <<>>]
    /\ currentInputBox = 0
    /\ epochHashes = <<>>
    /\ disputes = {}
    /\ inputAdded = [e \in Epochs |-> <<>>]
    /\ votes = {}
    /\ challenge = [by |-> "input", start |-> DeploymentTime]

\* DescartesV2Impl.claim, sent by a.
Claim(a, c) ==
    LET r     == OnClaim(vm, a, c)
        seals == SealingTimeReached
    IN  /\ SealingTimeFits
        /\ seals \/ currentPhase = "AwaitingConsensus"
        /\ ~OnClaimReverts(vm, a, c)
        /\ currentInputBox' = InboxAfter(seals)
        /\ ResolveValidatorResult(Settled(r), InboxAfter(seals), SealingAfter(seals, r))
        /\ votes' = (IF seals THEN {} ELSE votes) \cup {<<a, c>>}
        /\ challenge' = IF Raised(r) THEN [by |-> "dispute", start |-> now]
                        ELSE IF seals THEN [by |-> "claim", start |-> now]
                        ELSE challenge
        /\ UNCHANGED <<now, inputAdded>>

WrongFinalizeEpoch ==
    /\ currentPhase = "AwaitingConsensus"
    /\ now > sealingEpochTimestamp + ChallengePeriod
    /\ currentPhase' = "InputAccumulation"
    /\ StartNewEpoch(vm, currentInputBox)
    /\ UNCHANGED <<now, currentInputBox, disputes, historyVars>>

\* DescartesV2Impl.finalizeEpoch, by anyone.
FinalizeEpoch ==
    /\ currentPhase = "AwaitingConsensus"
    /\ sealingEpochTimestamp + ChallengePeriod <= MaxUint
    /\ now > sealingEpochTimestamp + ChallengePeriod
    /\ vm.claim # NoClaim
    /\ currentPhase' = "InputAccumulation"
    /\ StartNewEpoch(vm, currentInputBox)
    /\ UNCHANGED <<now, currentInputBox, disputes, historyVars>>

\* InputImpl.addInput, which calls notifyInput.  The new phase does not start
\* a challenge period: sealingEpochTimestamp keeps its value.
AddInput(x) ==
    /\ SealingTimeFits
    /\ Len(inputBox[InboxAfter(SealingTimeReached)]) < MaxBoxSize
    /\ currentPhase' = IF SealingTimeReached THEN "AwaitingConsensus" ELSE currentPhase
    /\ currentInputBox' = InboxAfter(SealingTimeReached)
    /\ inputBox' = [inputBox EXCEPT ![currentInputBox'] = Append(@, x)]
    /\ UNCHANGED <<inputAccumulationStart, sealingEpochTimestamp, vm, epochHashes, disputes>>
    /\ inputAdded' = [inputAdded EXCEPT ![GetCurrentEpoch'] = Append(@, x)]
    /\ votes' = IF SealingTimeReached THEN {} ELSE votes
    /\ challenge' = IF SealingTimeReached THEN [by |-> "input", start |-> now] ELSE challenge
    /\ UNCHANGED now

WrongResolveDispute(d, winner) ==
    /\ now <= sealingEpochTimestamp + ChallengePeriod
    /\ ResolveValidatorResult(OnDisputeEnd(vm, d.claimers[winner], d.claimers[3 - winner],
                                           d.claims[winner]),
                              currentInputBox, now)
    /\ challenge' = [by |-> "dispute", start |-> now]
    /\ UNCHANGED <<now, currentInputBox, inputAdded, votes>>

\* DescartesV2Impl.resolveDispute, called by a dispute manager that does not
\* settle at once; either claimer may win.
ResolveDispute(d, winner) ==
    /\ ResolveValidatorResult(OnDisputeEnd(vm, d.claimers[winner], d.claimers[3 - winner],
                                           d.claims[winner]),
                              currentInputBox, now)
    /\ challenge' = [by |-> "dispute", start |-> now]
    /\ UNCHANGED <<now, currentInputBox, inputAdded, votes>>

\* The next block.
AdvanceTime ==
    /\ now < MaxTime
    /\ now' = now + 1
    /\ UNCHANGED <<chainVars, historyVars>>

Next ==
    \/ \E a \in Addresses, c \in Claims : Claim(a, c)
    \/ FinalizeEpoch
    \/ \E x \in Inputs : AddInput(x)
    \/ \E d \in disputes, winner \in 1 .. 2 : ResolveDispute(d, winner)
    \/ AdvanceTime

Spec == Init /\ [][Next]_vars

\* Blocks keep coming, someone asks for the finalization the timeout allows
\* ("at any time by anyone") and a dispute manager settles what it was given.
Fairness ==
    /\ WF_vars(AdvanceTime)
    /\ WF_vars(FinalizeEpoch)
    /\ WF_vars(\E d \in disputes, winner \in 1 .. 2 : ResolveDispute(d, winner))

FairSpec == Spec /\ Fairness

-----------------------------------------------------------------------------
(* Type invariant.                                                         *)

\* Every variable of the composition has its type; in particular the vm
\* record keeps the shape of the contract's storage through every operation.
TypeOK ==
    /\ now \in DeploymentTime .. MaxTime
    /\ currentPhase \in Phases
    /\ inputAccumulationStart \in DeploymentTime .. MaxTime
    /\ sealingEpochTimestamp \in Nat
    /\ vm \in ValidatorManagerState
    /\ inputBox \in [0 .. 1 -> Seq(Inputs)]
    /\ currentInputBox \in 0 .. 1
    /\ epochHashes \in Seq(Claims)
    /\ Len(epochHashes) <= MaxEpochs
    /\ disputes \in SUBSET Disputes
    /\ inputAdded \in [Epochs -> Seq(Inputs)]
    /\ votes \in SUBSET (Addresses \X Claims)
    /\ challenge \in Challenges

-----------------------------------------------------------------------------
(* Safety.                                                                 *)

\* The two boxes hold exactly what InputAdded announced for the accumulating
\* epoch and for the sealed one: swapping in addInput or claim and deleting
\* at finalization never lose, mix or resurrect an input, and getInput (the
\* box that is not current) is empty unless an epoch is sealed.
InboxesMatchEpochs ==
    /\ inputBox[currentInputBox] = inputAdded[GetCurrentEpoch]
    /\ inputBox[1 - currentInputBox] =
           IF currentPhase = "InputAccumulation" THEN <<>> ELSE inputAdded[Len(epochHashes)]
    /\ \A e \in Epochs : e > GetCurrentEpoch => inputAdded[e] = <<>>

\* A set bit of the agreement mask was earned: the validator in that slot,
\* still in the set, claimed the current claim since the epoch was sealed.
AgreementIsEarned ==
    \A i \in vm.agreed :
        /\ vm.validators[i] # NoAddress
        /\ <<vm.validators[i], vm.claim>> \in votes

\* No consensus goes unnoticed: while an epoch with a claim waits, some
\* validator still in the set does not agree with it.
ConsensusNotMissed ==
    vm.claim # NoClaim => \E i \in Slots : vm.validators[i] # NoAddress /\ i \notin vm.agreed

\* consensusGoalMask has "a one" for "every validator who should approve"
\* (ValidatorManagerImpl.sol:27): exactly those still in the set.
GoalIsActiveValidators == vm.goal = ActiveSlots(vm.validators)

\* An instant dispute is over when its transaction is: claim never leaves the
\* system awaiting one, however the conflict came about.
NoDisputeLeftOpen == currentPhase # "AwaitingDispute" /\ disputes = {}

\* Whoever meets in a dispute did claim, in this epoch, what the dispute holds
\* against them, also when it follows from the end of another dispute; and the
\* phase tells whether one is open.
DisputantsClaimed ==
    /\ currentPhase = "AwaitingDispute" <=> disputes # {}
    /\ \A d \in disputes :
           /\ \A k \in 1 .. 2 : <<d.claimers[k], d.claims[k]>> \in votes
           /\ d.claims[1] = vm.claim /\ d.claims[2] # vm.claim

\* The timestamp finalizeEpoch reads is the start of the running challenge
\* period unless the epoch was sealed by an input and not disputed since; then
\* it still has the value of the constructor or of the previous epoch's end.
SealingTimestampIsCurrent ==
    currentPhase # "InputAccumulation" =>
        sealingEpochTimestamp =
            IF challenge.by # "input" THEN challenge.start
            ELSE IF epochHashes = <<>> THEN 0 ELSE MaxUint

\* An epoch only ends by the unanimity of the validators still in the set or
\* by finalizeEpoch, and with a claim some sender made since it was sealed.
FinalizationIsBacked ==
    [][epochHashes' # epochHashes =>
        LET final == epochHashes'[Len(epochHashes')] IN
        /\ \E a \in Addresses : <<a, final>> \in votes'
        /\ \/ FinalizeEpoch
           \/ \A i \in ActiveSlots(vm'.validators) : <<vm'.validators[i], final>> \in votes']_vars

\* A validator is only removed for a claim that differs from the one that was
\* current: agreeing, or staying silent, is safe under DisputeManagerImpl.
OnlyDissentersAreRemoved ==
    [][\A i \in Slots : vm'.validators[i] # vm.validators[i] =>
        /\ vm'.validators[i] = NoAddress
        /\ \E c \in Claims \ {vm.claim} : <<vm.validators[i], c>> \in votes']_vars

-----------------------------------------------------------------------------
(* The promise the composition implements.                                 *)

\* The boxes are the inputs of the accumulating and of the sealed epoch.
Lifecycle ==
    INSTANCE EpochLifecycle WITH
        inputs    <- [e \in Epochs |->
                        IF e = GetCurrentEpoch THEN inputBox[currentInputBox]
                        ELSE IF e = Len(epochHashes) THEN inputBox[1 - currentInputBox]
                        ELSE inputAdded[e]],
        open      <- GetCurrentEpoch,
        finalized <- epochHashes

\* Whoever reads the two boxes and the finalized claims sees epochs that are
\* sealed and finalized in order, and whose inputs never change once sealed.
LifecycleIsImplemented == Lifecycle!Spec

-----------------------------------------------------------------------------
(* What the code's comments say and the code does not do.                  *)

\* finalizeEpoch "can only be called if challenge period is over"
\* (DescartesV2Impl.sol:154), counted from when the epoch was sealed or last
\* disputed, the earliest its claim can have become challengeable.
ChallengePeriodIsRespected ==
    [][FinalizeEpoch => now > challenge.start + ChallengePeriod]_vars

\* A claim that disagrees "warns DescartesV2 Manager that a conflict is
\* happening" (README.md:43): a waiting claim has a validator to dispute with.
ConflictsCanBeRaised ==
    currentPhase = "AwaitingConsensus" /\ vm.claim # NoClaim => vm.agreed # {}

-----------------------------------------------------------------------------
(* Liveness, up to the horizon MaxTime and to MaxEpochs finalized epochs.   *)

\* A claimed epoch whose challenge period was started by the claim that sealed
\* it or by a dispute is finalized once the period is over, even if every
\* validator keeps silent.
ClaimedEpochIsFinalized ==
    /\ currentPhase = "AwaitingConsensus" /\ vm.claim # NoClaim
    /\ challenge.by # "input"
    ~> \/ currentPhase = "InputAccumulation"
       \/ challenge.start + ChallengePeriod >= MaxTime
       \/ Len(epochHashes) = MaxEpochs

\* A chain of disputes comes to an end: each one removes a validator or leaves
\* none to dispute with.
DisputesEnd ==
    currentPhase = "AwaitingDispute"
    ~> currentPhase # "AwaitingDispute" \/ Len(epochHashes) = MaxEpochs

=============================================================================
