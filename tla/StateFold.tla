------------------------------ MODULE StateFold ------------------------------
(***************************************************************************)
(* The off-chain view of the rollup (offchain/src/fold): the validator     *)
(* node rebuilds the state of the contracts from the events of each block, *)
(* with one delegate per part of the state.  A delegate either syncs, from *)
(* all the events up to a block, or folds the events of one more block     *)
(* into the state it archived for the previous one.                        *)
(*                                                                         *)
(* The chain is the one of module DescartesV2, whose transactions here     *)
(* also log their events; a block is a value of now.  The view is computed *)
(* for every block that is closed, from the block in which the node        *)
(* starts; where a delegate fails, the node stops and starts again later   *)
(* with nothing archived.  StateFold, which decides between sync and fold, *)
(* and the bloom filter of a block come from libraries that are not in the *)
(* repository.                                                             *)
(***************************************************************************)
EXTENDS DescartesV2, SequencesExt

CONSTANTS
    InitialEpochs,    \* values of config.initial_epoch
    SafetyMargin,     \* config.safety_margin: sync happens that many blocks back
    Noise,            \* what a bloom filter may wrongly say a block logs: sets of events
    MaxLogs           \* bound: a block with that many logs takes no transaction

ASSUME FoldAssumption ==
    /\ InitialEpochs \subseteq Nat /\ SafetyMargin \in Nat /\ MaxLogs \in Nat

VARIABLES
    logs,      \* events of the block being built
    blocks,    \* the closed blocks
    view,      \* archived EpochState of the last closed block, or NoView
    initialEpoch   \* config.initial_epoch, which never changes

foldVars == <<logs, blocks, view, initialEpoch>>
allVars == <<vars, foldVars>>

NoView == [phase |-> "NotStarted"]
None == 0    \* timestamps start at DeploymentTime > 0

-----------------------------------------------------------------------------
(* Events, with the timestamp of their block, and queries for them.        *)

PhaseChange(p)     == [kind |-> "PhaseChange", ts |-> now, phase |-> p]
ClaimEvent(a, c)   == [kind |-> "Claim", ts |-> now, epoch |-> Len(epochHashes),
                       claimer |-> a, hash |-> c]
InputAdded(e, x)   == [kind |-> "InputAdded", ts |-> now, epoch |-> e, input |-> x]
EpochFinalized(h)  == [kind |-> "FinalizeEpoch", ts |-> now, epoch |-> Len(epochHashes),
                       hash |-> h]

\* updatePhase emits only if the phase is a new one.
UpdatePhase(from, to) == IF from = to THEN <<>> ELSE <<PhaseChange(to)>>

FinalizedNow ==
    IF epochHashes' = epochHashes THEN <<>> ELSE <<EpochFinalized(Last(epochHashes'))>>

AllLogs(chain) ==
    LET upTo[k \in 0 .. Len(chain)] ==
            IF k = 0 THEN <<>> ELSE upTo[k - 1] \o chain[k].logs
    IN  upTo[Len(chain)]

\* The elements of s that are in S, in their order.
Picked(s, S) ==
    LET upTo[k \in 0 .. Len(s)] ==
            IF k = 0 THEN <<>>
            ELSE IF s[k] \in S THEN Append(upTo[k - 1], s[k]) ELSE upTo[k - 1]
    IN  upTo[Len(s)]

OfKind(events, kind) == {ev \in ToSet(events) : ev.kind = kind}

Query(events, kind) == Picked(events, OfKind(events, kind))

QueryEpoch(events, kind, e) == Picked(events, {ev \in OfKind(events, kind) : ev.epoch = e})

\* contains_address and contains_topic on the block's bloom filter: always
\* true of what the block logs, sometimes of what it does not.
InBloom(block, kind) == Query(block.logs, kind) # <<>> \/ kind \in block.noise

-----------------------------------------------------------------------------
(* The delegates.                                                          *)

\* Input and accumulating epoch delegates: the fold appends the events of the
\* block, and what sync queries are those of all blocks.
EpochInputs(e, chain) ==
    LET added == QueryEpoch(AllLogs(chain), "InputAdded", e)
    IN  [i \in 1 .. Len(added) |-> added[i].input]

AccumulatingEpoch(e, chain) == [number |-> e, inputs |-> EpochInputs(e, chain)]

ClaimsIn(events) == {<<events[i].claimer, events[i].hash>> : i \in 1 .. Len(events)}

WrongSealedSync(e, chain) ==
    LET claimed == QueryEpoch(AllLogs(chain), "Claim", e)
    IN  [epoch  |-> e,
         inputs |-> EpochInputs(e, <<Last(chain)>>),
         claims |-> ClaimsIn(claimed),
         first  |-> IF claimed = <<>> THEN None ELSE claimed[1].ts]

\* Sealed epoch delegate.  An epoch without claims has claims = {}.
SealedSync(e, chain) ==
    LET claimed == QueryEpoch(AllLogs(chain), "Claim", e)
    IN  [epoch  |-> e,
         inputs |-> EpochInputs(e, chain),
         claims |-> ClaimsIn(claimed),
         first  |-> IF claimed = <<>> THEN None ELSE claimed[1].ts]

WrongSealedFold(sealed, block) ==
    LET claimed == QueryEpoch(block.logs, "Claim", sealed.epoch)
    IN  IF ~InBloom(block, "Claim") \/ claimed = <<>>
        THEN sealed
        ELSE [sealed EXCEPT !.claims = @ \cup ClaimsIn(claimed), !.first = block.timestamp]

\* Inputs are those of the previous state: "epoch is sealed".
SealedFold(sealed, block) ==
    LET claimed == QueryEpoch(block.logs, "Claim", sealed.epoch)
    IN  IF ~InBloom(block, "Claim") \/ claimed = <<>>
        THEN sealed
        ELSE [sealed EXCEPT !.claims = @ \cup ClaimsIn(claimed),
                            !.first  = IF sealed.claims = {} THEN block.timestamp ELSE @]

\* Finalized epoch delegate: [initial_epoch ..] of the events, in order.
FinalizedEpoch(ev, chain) ==
    [number |-> ev.epoch, hash |-> ev.hash, inputs |-> EpochInputs(ev.epoch, chain)]

WrongNextEpoch(finalized) == Len(finalized)

NextEpoch(finalized) == initialEpoch + Len(finalized)

FinalizedSync(chain) ==
    LET all == Query(AllLogs(chain), "FinalizeEpoch")
    IN  [i \in 1 .. IF Len(all) < initialEpoch THEN 0 ELSE Len(all) - initialEpoch |->
            FinalizedEpoch(all[initialEpoch + i], chain)]

\* Inserting an epoch that is not the next one fails an assertion.
FinalizedFold(finalized, chain) ==
    LET events == Last(chain).logs
        new    == Picked(events, {ev \in OfKind(events, "FinalizeEpoch") :
                                      ev.epoch >= NextEpoch(finalized)})
    IN  IF InBloom(Last(chain), "FinalizeEpoch")
        THEN finalized \o [i \in 1 .. Len(new) |-> FinalizedEpoch(new[i], chain)]
        ELSE finalized

-----------------------------------------------------------------------------
(* StateFold: the state for a block is folded from the archived state of   *)
(* an earlier one or, if there is none, from a sync at a safe distance.    *)

SyncBlock(chain) == IF Len(chain) > SafetyMargin THEN Len(chain) - SafetyMargin ELSE 1

SealedFromSync(e, chain) ==
    LET s == SyncBlock(chain)
        after[k \in 0 .. Len(chain) - s] ==
            IF k = 0 THEN SealedSync(e, SubSeq(chain, 1, s))
                     ELSE SealedFold(after[k - 1], chain[s + k])
    IN  after[Len(chain) - s]

-----------------------------------------------------------------------------
(* The epoch delegate composes the others.                                 *)

InputAccumulationState(finalized, changed, chain) ==
    [phase       |-> "InputAccumulation",
     finalized   |-> finalized,
     phaseChange |-> changed,
     current     |-> AccumulatingEpoch(NextEpoch(finalized), chain)]

\* A dispute about an epoch without claims is an error of the delegate: Illegal.
SealedState(phase, sealed, finalized, changed, chain) ==
    [phase       |-> IF phase = "AwaitingDispute" /\ sealed.claims = {} THEN "Illegal" ELSE phase,
     finalized   |-> finalized,
     phaseChange |-> changed,
     current     |-> AccumulatingEpoch(NextEpoch(finalized) + 1, chain),
     sealed      |-> sealed,
     roundStart  |-> changed]

WrongPhaseAfter(changes, finalized, changed, sealed, chain) ==
    IF changes = <<>> \/ changes[1].phase = "InputAccumulation"
    THEN InputAccumulationState(finalized, changed, chain)
    ELSE SealedState(changes[1].phase, sealed, finalized, changed, chain)

\* The last of the phase changes decides.
PhaseAfter(changes, finalized, changed, sealed, chain) ==
    IF changes = <<>> \/ Last(changes).phase = "InputAccumulation"
    THEN InputAccumulationState(finalized, changed, chain)
    ELSE SealedState(Last(changes).phase, sealed, finalized, changed, chain)

EpochSync(chain) ==
    LET finalized == FinalizedSync(chain)
        changes   == Query(AllLogs(chain), "PhaseChange")
    IN  PhaseAfter(changes, finalized, IF changes = <<>> THEN None ELSE Last(changes).ts,
                   SealedFromSync(NextEpoch(finalized), chain), chain)

Archived(state, e) == "sealed" \in DOMAIN state /\ state.sealed.epoch = e

SealedAt(state, e, chain) ==
    IF Archived(state, e) THEN SealedFold(state.sealed, Last(chain)) ELSE SealedFromSync(e, chain)

EpochFold(state, chain) ==
    LET block     == Last(chain)
        changes   == Query(block.logs, "PhaseChange")
        finalized == FinalizedFold(state.finalized, chain)
        sameEpoch == AccumulatingEpoch(state.current.number, chain)
    IN  IF ~InBloom(block, "PhaseChange")
        THEN IF state.phase = "InputAccumulation"
             THEN [state EXCEPT !.current = sameEpoch]
             ELSE [state EXCEPT !.current = sameEpoch,
                                !.sealed  = SealedFold(@, block)]
        ELSE PhaseAfter(changes, finalized,
                        IF changes = <<>> THEN state.phaseChange ELSE block.timestamp,
                        SealedAt(state, NextEpoch(finalized), chain), chain)

\* What get_state_for_block answers with an error or, when convert_raw_to_logical
\* meets a dispute ("unreachable!()"), not at all.
Illegal    == {"Illegal"}
Unanswered == Illegal \cup {"AwaitingDispute"}

\* Without an answer the node stops, and what it archived is lost.
Answered(state) == IF state.phase \in Unanswered THEN NoView ELSE state

\* The blocks after s are folded into state, until one of them fails.
FoldFrom(state, s, chain, failed) ==
    LET after[k \in 0 .. Len(chain) - s] ==
            IF k = 0 THEN state
            ELSE IF after[k - 1].phase \in failed THEN after[k - 1]
            ELSE EpochFold(after[k - 1], SubSeq(chain, 1, s + k))
    IN  after[Len(chain) - s]

EpochFromSync(chain) ==
    LET s == SyncBlock(chain)
    IN  FoldFrom(EpochSync(SubSeq(chain, 1, s)), s, chain, Illegal)

\* The first block the node asks for, with nothing archived yet: the sync of the
\* outer delegate asks the epoch delegate, which has to sync as well.
FromSync(chain) ==
    LET s == SyncBlock(chain)
    IN  FoldFrom(EpochFromSync(SubSeq(chain, 1, s)), s, chain, Unanswered)

-----------------------------------------------------------------------------
(* convert_raw_to_logical: what the node's decisions are based on.         *)

WrongAccumulationStart(raw) == DeploymentTime

AccumulationStart(raw) == IF raw.phaseChange = None THEN DeploymentTime ELSE raw.phaseChange

\* The raw phase has not noticed yet that its time is over.
Expired(raw, timestamp) ==
    raw.phase = "InputAccumulation" /\ timestamp > AccumulationStart(raw) + InputDuration

WrongTimeOfLastMove(raw) == raw.sealed.first

\* The challenge period starts with the first claim and again after a dispute.
TimeOfLastMove(raw) ==
    IF raw.sealed.first > raw.roundStart THEN raw.sealed.first ELSE raw.roundStart

LogicalPhase(raw, timestamp) ==
    IF Expired(raw, timestamp) THEN "EpochSealedAwaitingFirstClaim"
    ELSE IF raw.phase # "AwaitingConsensus" THEN raw.phase
    ELSE IF raw.sealed.claims = {} THEN "EpochSealedAwaitingFirstClaim"
    ELSE IF timestamp > TimeOfLastMove(raw) + ChallengePeriod THEN "ConsensusTimeout"
    ELSE IF TimeOfLastMove(raw) = raw.sealed.first THEN "AwaitingConsensusNoConflict"
    ELSE "AwaitingConsensusAfterConflict"

\* The epoch the node takes for sealed, if any, and the one it takes for open.
LogicalSealed(raw, timestamp) ==
    IF Expired(raw, timestamp) THEN {raw.current}
    ELSE IF raw.phase = "InputAccumulation" THEN {}
    ELSE {[number |-> raw.sealed.epoch, inputs |-> raw.sealed.inputs]}

LogicalCurrent(raw, timestamp) ==
    IF Expired(raw, timestamp) THEN [number |-> raw.current.number + 1, inputs |-> <<>>]
    ELSE raw.current

-----------------------------------------------------------------------------
(* The chain logs, the node follows.                                       *)

FoldInit ==
    /\ Init
    /\ logs = <<>>
    /\ blocks = <<>>
    /\ view = NoView
    /\ initialEpoch \in InitialEpochs

LogClaim(a, c) ==
    /\ Len(logs) < MaxLogs
    /\ Claim(a, c)
    /\ logs' = logs
               \o (IF SealingTimeReached THEN <<PhaseChange("AwaitingConsensus")>> ELSE <<>>)
               \o <<ClaimEvent(a, c)>>
               \o (IF Raised(OnClaim(vm, a, c))
                   THEN <<PhaseChange("AwaitingDispute"), PhaseChange(currentPhase')>>
                   ELSE UpdatePhase("AwaitingConsensus", currentPhase'))
               \o FinalizedNow
    /\ UNCHANGED <<blocks, view, initialEpoch>>

LogFinalizeEpoch ==
    /\ Len(logs) < MaxLogs
    /\ FinalizeEpoch
    /\ logs' = logs \o UpdatePhase(currentPhase, currentPhase') \o FinalizedNow
    /\ UNCHANGED <<blocks, view, initialEpoch>>

LogInput(x) ==
    /\ Len(logs) < MaxLogs
    /\ AddInput(x)
    /\ logs' = logs \o UpdatePhase(currentPhase, currentPhase')
                    \o <<InputAdded(GetCurrentEpoch', x)>>
    /\ UNCHANGED <<blocks, view, initialEpoch>>

LogResolveDispute(d, winner) ==
    /\ Len(logs) < MaxLogs
    /\ ResolveDispute(d, winner)
    /\ logs' = logs \o UpdatePhase(currentPhase, currentPhase') \o FinalizedNow
    /\ UNCHANGED <<blocks, view, initialEpoch>>

\* The block is closed; the node folds it if it is running, or starts now.
CloseBlock(noise) ==
    /\ AdvanceTime
    /\ blocks' = Append(blocks, [timestamp |-> now, logs |-> logs, noise |-> noise])
    /\ logs' = <<>>
    /\ UNCHANGED initialEpoch
    /\ \/ view # NoView /\ view' = Answered(EpochFold(view, blocks'))
       \/ view = NoView /\ view' = Answered(FromSync(blocks'))
       \/ view = NoView /\ view' = NoView

FoldNext ==
    \/ \E a \in Addresses, c \in Claims : LogClaim(a, c)
    \/ LogFinalizeEpoch
    \/ \E x \in Inputs : LogInput(x)
    \/ \E d \in disputes, winner \in 1 .. 2 : LogResolveDispute(d, winner)
    \/ \E noise \in Noise : CloseBlock(noise)

FoldSpec == FoldInit /\ [][FoldNext]_allVars

-----------------------------------------------------------------------------
(* Properties.                                                             *)

\* The node looks at the chain as of its latest block: no transaction of the
\* next one has been executed yet.  An initial epoch in the future is no epoch.
Seen == view # NoView /\ logs = <<>> /\ Len(epochHashes) >= initialEpoch

\* Wherever the node starts, phase, epoch numbers, final claims and their
\* inputs, the open epoch's inputs and the claims of the sealed epoch are the
\* contracts', however many phase changes a block holds and whatever else its
\* bloom filter matches.
ViewMatchesChain ==
    Seen =>
    /\ view.phase = currentPhase
    /\ view.current = [number |-> GetCurrentEpoch, inputs |-> inputBox[currentInputBox]]
    /\ Len(view.finalized) = Len(epochHashes) - initialEpoch
    /\ \A i \in DOMAIN view.finalized :
          LET e == initialEpoch + i - 1
          IN  view.finalized[i] =
                  [number |-> e, hash |-> epochHashes[e + 1], inputs |-> inputAdded[e]]
    /\ currentPhase # "InputAccumulation" =>
          view.sealed.epoch = Len(epochHashes) /\ view.sealed.claims = votes

\* The timers rebuilt from timestamps of events are those of the contract,
\* which emits neither: the start of the accumulation, and the start of the
\* challenge period (of an epoch that a claim sealed or a dispute restarted).
TimersMatchChain ==
    Seen =>
    /\ currentPhase = "InputAccumulation" => AccumulationStart(view) = inputAccumulationStart
    /\ /\ currentPhase = "AwaitingConsensus"
       /\ vm.claim # NoClaim
       /\ challenge.by # "input"
       => TimeOfLastMove(view) = sealingEpochTimestamp

\* The events of the chain show that epoch e is sealed.
ShowsSealed(e, chain) ==
    LET changes == Query(AllLogs(chain), "PhaseChange")
    IN  /\ changes # <<>> /\ Last(changes).phase # "InputAccumulation"
        /\ Len(Query(AllLogs(chain), "FinalizeEpoch")) = e

\* What the machine is told to compute the claim from are the inputs of the
\* sealed epoch as of a block at most safety_margin blocks before one that
\* already shows it sealed: "don't need to re-update inputs because epoch is
\* sealed" (sealed_epoch_delegate.rs:241).  These are all the contract has if
\* none was added in the blocks between, as always with a margin of 0 or 1.
SealedInputsMatchChain ==
    Seen /\ currentPhase # "InputAccumulation" =>
        \E k, n \in DOMAIN blocks :
            /\ n <= k + SafetyMargin
            /\ ShowsSealed(Len(epochHashes), SubSeq(blocks, 1, n))
            /\ view.sealed.inputs = EpochInputs(Len(epochHashes), SubSeq(blocks, 1, k))

\* Once the node takes an epoch for sealed, by the clock or by the contract's
\* phase, no later block changes its inputs, so that a claim computed from them
\* stays right; but when the contract's phase follows the clock, the inputs are
\* those of a sync safety_margin blocks back.
SealedInputsNeverChange ==
    [][view # NoView /\ view' # NoView =>
         \A s \in LogicalSealed(view, now - 1), t \in LogicalSealed(view', now) :
             s.number = t.number =>
                 \/ s.inputs = t.inputs
                 \/ /\ view.phase = "InputAccumulation" /\ view'.phase # "InputAccumulation"
                    /\ t.inputs = EpochInputs(t.number, SubSeq(blocks', 1, SyncBlock(blocks')))]_view

\* DescartesV2Impl.claim sent by a does not revert, nor does finalizeEpoch.
ClaimIsAccepted(a, c) ==
    /\ SealingTimeFits
    /\ SealingTimeReached \/ currentPhase = "AwaitingConsensus"
    /\ ~OnClaimReverts(vm, a, c)

FinalizeIsAccepted ==
    /\ currentPhase = "AwaitingConsensus"
    /\ sealingEpochTimestamp + ChallengePeriod <= MaxUint
    /\ now > sealingEpochTimestamp + ChallengePeriod
    /\ vm.claim # NoClaim

\* What the node may send by its view is accepted in the next block.  The first
\* claim always is, from when the node takes the epoch for sealed; a later one
\* unless it disagrees with a claim nobody in the set defends.  finalizeEpoch is
\* accepted from when the node sees the timeout, unless an input sealed the epoch
\* after another one was finalized: then the deadline overflows, although the
\* epoch "can be finalized at any time by anyone" (types.rs:236).
DecisionsAreAccepted ==
    LET phase == LogicalPhase(view, now - 1) IN
    Seen /\ phase # "InputAccumulation" =>
    /\ \A i \in ActiveSlots(vm.validators), c \in Claims :
          \/ ClaimIsAccepted(vm.validators[i], c)
          \/ phase # "EpochSealedAwaitingFirstClaim" /\ vm.claim # c /\ vm.agreed = {}
    /\ phase = "ConsensusTimeout" =>
          (FinalizeIsAccepted <=> ~(challenge.by = "input" /\ epochHashes # <<>>))

\* "Define the current_phase and current_epoch based on the last phase_change
\* event" (epoch_delegate.rs:155), also when a block only seems to hold one.
PhaseMatchesChain == Seen => view.phase = currentPhase

=============================================================================
