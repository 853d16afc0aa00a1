# Verification of DescartesV2

TLA+ specifications of the rollup in this repository, the instances TLC checks, and proofs for TLAPS.
Paths are relative to the repository; `Impl.sol` files are under `contracts/`, Rust files under `offchain/src/`.

1. [The system](#1-the-system): components, state, operations, what is hard, what makes each correct
2. [The modules](#2-the-modules): what models what
3. [The runs](#3-the-runs): what is checked, with which bounds and fairness
4. [What the code does not do](#4-what-the-code-does-not-do): disagreements between code and documentation
5. [The proofs](#5-the-proofs)
6. [Not modelled, and the plan](#6-not-modelled-and-the-plan)

## 1. The system

A rollup moves computation off the chain. Anyone adds inputs on the chain; they are grouped into *epochs*.
Validators run the inputs of a sealed epoch in a deterministic machine and *claim* the hash of the result; when they
agree, or stay silent long enough, the claim is *final*, and the *outputs* it commits to can be executed on the chain.

| component | state | operations | who calls it |
|---|---|---|---|
| DescartesV2 manager (`DescartesV2Impl.sol`) | phase, `inputAccumulationStart`, `sealingEpochTimestamp` | `claim`, `finalizeEpoch`, `notifyInput`, `resolveDispute` | validators, anyone, the input contract, the dispute manager |
| Validator manager (`ValidatorManagerImpl.sol`) | current claim, validators, `claimAgreementMask`, `consensusGoalMask` | `onClaim`, `onDisputeEnd`, `onNewEpoch` | DescartesV2 |
| Input (`InputImpl.sol`) | two boxes and which one is current | `addInput`, `onNewInputAccumulation`, `onNewEpoch` | anyone, DescartesV2 |
| Dispute manager (`DisputeManagerImpl.sol`) | none (mock: the current claim wins at once) | `initiateDispute` | DescartesV2 |
| Output (`OutputImpl.sol`) | epoch hashes, bit mask of executed outputs, lock | `executeOutput`, `onNewEpoch` | anyone, DescartesV2 |
| Portal (`PortalImpl.sol`) | the assets it holds | deposits, `executeDescartesV2Output` | anyone, Output |
| Mock wallet (`mockWallet/`) | assets held, box of ten inputs, balances | deposits, `addInput`, `onNewEpoch` | anyone |
| State fold (`fold/`) | archived accumulators per delegate and block | `sync`, `fold`, `convert` | the node, per block |
| Node logic (`logic/descartes_logic.rs`) | none across blocks | `main_loop`, `react` | the block subscriber |
| Machine manager client (`machine/`) | a session id; the server holds epochs and inputs | status, enqueue, finish, claim | the node |

The contracts call each other inside one transaction: `addInput` calls `notifyInput`, which may seal the epoch; `claim`
calls `onNewInputAccumulation`, `onClaim`, and then either finalizes (`onNewEpoch` of three contracts) or raises a
dispute, which the mock manager settles by calling `resolveDispute` from inside. The node sees the chain only through
events and block timestamps, and acts only through transactions that may be mined much later.

What is hard, and what makes each part correct (PROJECT.json lists the hazards at their lines):

* **Manager and validators.** First claim and first input race to seal the epoch; disputes chain, remove validators and
  replace the current claim while the masks change meaning; timers are set on some paths and not on others. Correct:
  votes that count were cast for the current claim in this epoch; consensus is neither missed nor invented; an epoch
  ends by unanimity or timeout; the timeout measures the current challenge period; disputes end.
* **Input boxes.** Swapping and deleting must follow the epochs. Correct: the boxes hold what was announced for the
  open and the sealed epoch, and a sealed epoch never changes.
* **Outputs.** The destination runs in the middle of `executeOutput`, whose caller chooses indices nothing checks. Correct: at most once for each
  bit of the mask, only of final epochs, again possible after a failure, and then not prevented for ever. That each *output* runs at most once is not so (section 4).
* **Portal.** Deposits, requests, withdrawals and final epochs interleave, also inside a call that is undone later. Correct: it holds of each
  kind of asset what is ordered less what executions ordered, and pays exactly what executed outputs order.
* **Mock wallet.** Inputs wait in a box for the one that fills it, whose transaction executes them all or reverts. Correct: each deposit
  is credited once, transfers preserve the sum, and only the holder spends.
* **State fold.** Several events per block, bloom filters that only say "possibly", syncing from an older block, the
  clock against the contract's phase. Correct: the view is the chain's state as of its block, and the contracts accept what is decided from it.
* **Node.** Chain and machine move between any two remote calls; calls fail; the process panics. Correct: the machine
  follows the chain's inputs, claims are of complete epochs, and a sealed epoch is claimed in the end.

## 2. The modules

```
ValidatorManager <- DescartesV2 <- StateFold            (EXTENDS)
                        |
                        +-- refines --> EpochLifecycle <- ValidatorNode
OutputExecution <- Portal -- instance of EpochLifecycle
Sums <- Portal, MockWallet

ValidatorManagerProofs <- DescartesV2Proofs             (each also extends the module it is about)
EpochLifecycleProofs <- ValidatorNodeProofs
SumProofs <- PortalProofs, MockWalletProofs
DescartesV2Proofs, SumProofs <- StateFoldProofs
```

A definition called `Wrong...` is a mistake a programmer could make in the definition after it. Nothing uses it. Each
property is there to notice one: PROJECT.json's `mutants` name, for every property of a run, the definition that is
replaced and by what, and TLC then finds that property violated.

**ValidatorManager** is `ValidatorManagerImpl.sol` as operators from storage to storage (`OnClaim`, `OnDisputeEnd`,
`OnNewEpoch`, the mask helpers). A mask is the set of slots whose bit is one; fewer than 32 validators, because the
constructor overflows at 32. `OnClaimReverts` is the disjunction of the operation's `require`s.

**DescartesV2** is the composition of manager, validator manager, boxes, final epochs and a dispute manager; one action is
one successful transaction with every call it makes, a revert is a stuttering step, and `now` is the block's timestamp.
`InstantDisputes = TRUE` is the repository's dispute manager; `FALSE` one that calls `resolveDispute` later and for either
side, which `DisputeManager.sol` admits. `inputAdded`, `votes` and `challenge` record what transactions emitted; no
guard reads them. Inputs are hashes, so their encoding and size limits are left out. Sealing by a claim that then
raises a conflict, is settled and ends in consensus, all in one step, is one `Claim` action.

**EpochLifecycle** is the abstract specification: inputs go to one open epoch, the epoch before it may wait for its
claim, epochs become final in order. `DescartesV2!LifecycleIsImplemented` is the refinement, with the two *boxes* as the
inputs of the open and the sealed epoch: what is abstracted is storage, not the history of events.

**OutputExecution** splits `executeOutput` at its external call. `frames` is the stack of open calls of the current
transaction, each with the storage to restore if it fails. An epoch hash is the triple that is hashed; its first part, the output
drive, maps *places* (an input's position and an output's, as `getIntraDrivePosition` computes them, with its cast to `uint64`) to calls. A proof is
the indices it names, any `uint256` numbers, so two indices that lead to one place prove the same call. Positions of the bit mask are shifted and
added as in `getBitMaskPosition`: a shift drops what does not fit in the word, a checked sum or product reverts (`Overflows`). `SamePlace` and `SameBit` are the
outputs that share a place or a bit; `IndexRange` stands for 2^64 and the other widths follow from it.

**Portal** composes OutputExecution with the portal, the inputs and the life cycle of epochs. A destination may do anything the
contracts allow: execute outputs, deposit, add inputs, make an epoch final. `undo` is what the other contracts restore when the call around it fails. The
machine is external and assumed correct: `MayOrder` lets it put any calls in an epoch's drive that the deposits announced so far cover.
What it is told of a deposit is whether it was ether or a token, and the amount, not which token; lists of receivers are summed. So what is ordered of
tokens is compared with all tokens together (`OfKind`), and a single order may ask for one that is not there (`IsShort`).

**MockWallet** is the mock portal and its input contract: the box, the batch as a run over its inputs and their payments, and a revert of
the batch as an action that is not enabled. Ether and tokens are one kind of asset.

**Sums** adds up the values of a function as the number of its units, so that what is known of finite sets applies to sums.

**StateFold** adds to DescartesV2 the events each transaction emits, blocks, and the node's view, rebuilt by the
delegates' `sync` (all events up to a block) or `fold` (one more block). `SyncBlock` and `InBloom` are the two facts about the
external state-fold library that matter: a first sync happens `safety_margin` blocks back, and bloom filters have
no false negatives and perhaps false positives (`Noise`). A query picks events from a log by a recursive function (`Picked`),
which proofs can follow along the log. The outer delegate asks the epoch delegate for its state, so a node without an archive syncs on two levels:
`FromSync` folds from a block that far back, whose own state is `EpochFromSync`. A state the delegates answer with an error (`Illegal`: a dispute without
claims) or a panic (`AwaitingDispute`, `unreachable!()`) leaves no view: the node is down, its archive is lost, and it starts again at
some later block (`Answered`, `CloseBlock`). `LogicalPhase`, `LogicalSealed` and `LogicalCurrent` are
`convert_raw_to_logical`.

**ValidatorNode** is `main_loop` and `react` over the abstract chain of EpochLifecycle plus claims. Each remote call
(`pc` in `status`, `enqueue`, `finish`, `claim`, `finalize`) is a step, so chain and machine move in between. The manager's server is
external: it takes inputs in order for its active epoch and refuses anything else. A call may fail before it
arrives, or take effect and lose its answer; a panic, an error and `todo!()` all take the loop down, and `Restart` starts it
with nothing remembered, while the server keeps its session (`rollup_mm.rs:81`). A claim transaction is executed at any time after
it was sent, repeatedly (the node sends one per block), and counts for the epoch that is sealed then: `mine` holds the epochs such
claims were meant for. A claim that disagrees, however late, is disputed and settled at once and restarts the challenge period
(`MayDisagree`); an epoch becomes final by the timeout or by consensus, of which this node need not be part. The node's view is here the chain's own
state; that it is so is StateFold's subject. `initialEpoch` is the first epoch the node is configured to keep.

The `MC...` modules give the constants their values and the symmetry of claims (StateFold, DescartesV2), which no definition tells apart. `*Proofs` modules hold the theorems.

## 3. The runs

| run (`.cfg`) | checks | shows |
|---|---|---|
| `DescartesV2Instant` | TypeOK, InboxesMatchEpochs, AgreementIsEarned, ConsensusNotMissed, GoalIsActiveValidators, NoDisputeLeftOpen, SealingTimestampIsCurrent, FinalizationIsBacked, OnlyDissentersAreRemoved, LifecycleIsImplemented | the repository's contracts together, and the refinement |
| `DescartesV2Async` | DisputantsClaimed, AgreementIsEarned, DisputesEnd, ClaimedEpochIsFinalized | disputes that stay open, go either way and chain, but end; silence does not stop an epoch; an `address(0)` among the validators |
| `Portal` | BitsAreExecutions, LockIsReleased, PortalIsSolvent, WithdrawalsArePaid, OrdersAreExecuted | destinations that call back, calls that fail and are tried again, indices that collide, assets against what the machine orders |
| `MockWallet` | DepositsAreAccounted, OnlyHolderSpends | batches with deposits, transfers, withdrawals and what only pretends to be a deposit |
| `StateFold` | ViewMatchesChain, TimersMatchChain, SealedInputsMatchChain, DecisionsAreAccepted, SealedInputsNeverChange | the view, from any starting block and two initial epochs, with disputes at which the node goes down, noisy bloom filters and a sync two blocks back; what the contracts accept of what it decides |
| `ValidatorNode` | MachineFollowsChain, ClaimsAreComplete, FinalizationsAreDue, SealedEpochIsClaimed | the node's calls, failures and restarts, over a chain that moves in between; going down only costs time |

**Bounds.** `MaxEpochs` (epochs that become final), `MaxTime` (the last block's timestamp), `MaxBoxSize` (inputs in a box),
`MaxLogs` (events in a block), `MaxDepth` (nested calls), `MaxFailures` (failed remote calls). With an input duration
and a challenge period of one block each, an epoch fits in two to three blocks: `MaxTime` leaves time for two full epochs and the
sealing of a third where `MaxEpochs = 2`. Two epochs are needed because the interesting timestamps, boxes and masks are
those the *previous* epoch left. Three validators allow the longest chain of disputes of a claim with two
supporters; an outsider exercises the permission check. Two claims suffice for conflict: a third one disagrees with
the current one as the second does. In `DescartesV2Async` the empty slot takes the place of a validator that stays silent, which leaves
three to dispute. `StateFold` lets disputes stay open: a dispute that is settled in the transaction that raised it
leaves the same block as one settled by the next transaction of that block. Its sync is two blocks back, the least distance at which an epoch can be read before its
last inputs. `Portal` has two epochs of one input, two outputs in the first, and a third proof that collides with them both: with an
`IndexRange` of 4 and leaves of 2, input 4 leads to the place of input 0 and to the bit of the next output. There are ether and two tokens, one of which may answer false; amounts are units against a `msg.value` of 0, 1 or 2,
and room for a second open call, which the lock has to prevent; deposits, epochs and failures happen inside the first. `MockWallet` has boxes of three inputs instead of ten: a
deposit, a transfer out of it and one that spends what was just received fit into one batch, and later batches meet its balances; `MaxHeld` bounds
deposits. `MaxUint` is far above any timestamp, so that overflow happens for the
deactivated timestamp and nothing else. In `ValidatorNode` one epoch can become final while a second is sealed and a
third accumulates, which is as far as the node looks; one challenge period that is over starts again, and one failure at every place of the loop, with panics that are not bounded,
covers being behind by any number of calls. Inputs are alike there, so that the run counts them; their values and order are the matter of theorem
`MachineAlwaysFollowsChain`. Nodes are configured to keep epochs from 0 or from 1.

`CHECK_DEADLOCK FALSE` stands in the runs whose bounds end every behaviour (time, epochs, outputs to execute). The node's
run checks deadlock: the loop never stops.

**Fairness.** `FairSpec` of DescartesV2 assumes that blocks keep coming, that someone calls `finalizeEpoch` when it stays
possible ("at any time by anyone", `fold/types.rs:236`; the node sends it, `descartes_logic.rs:294`) and that a dispute manager settles what it was
given. Nothing is assumed of validators or of inputs. Properties stop at the horizon: an epoch whose period ends after `MaxTime`, or after
`MaxEpochs` epochs, is excused. `Portal` assumes that a call ends (it has only so much gas), that
someone keeps trying each final output, and that the portal or another destination does not always fail what it is able to do: strong
fairness of the attempt and of its acceptance, because other transactions may take the lock or the output in between. `ValidatorNode` assumes that the loop's
next step is taken, that the manager processes what is enqueued and that somebody restarts a node that is down; nothing of
the chain. Calls that fail are bounded, since with all of them failing nothing can be promised.

## 4. What the code does not do

Each of these runs checks one property that states what a comment or a document says, and TLC violates it.

* `ChallengePeriodSkipped` (`DescartesV2Impl.sol:180`): an epoch sealed by an *input* keeps `sealingEpochTimestamp` of before. In
  the first epoch that is 0, so the first claim can be finalized in the block in which it is made ("can only be called if challenge period is
  over", `:154`). In later epochs it is `type(uint256).max` (`:217`), and the sum in `finalizeEpoch` overflows (`:161`): with one silent validator
  such an epoch never times out, unless a dispute sets the timestamp. `SealingTimestampIsCurrent` says exactly when each value is there.
* `ConflictNotRaised` (`ValidatorManagerImpl.sol:259`): a validator that claims twice, differently, disputes with itself. Its vote goes with it, and every
  disagreeing claim reverts from then on, because nobody is left to defend the current one.
* `PhaseForgotten` (`fold/epoch_delegate.rs:351`): a bloom filter that matches PhaseChange without an event (another contract's event is enough)
  makes the fold forget that the contract awaits consensus.
* `RequestNamesOldEpoch` (`logic/descartes_logic.rs:172`): after `finish_epoch` the status of the finished epoch is used to enqueue the
  next one's inputs; the manager refuses, or `slice` panics. `ValidatorNode` shows that a manager that refuses keeps the
  machine right, and that a restart gets the node past it (`SealedEpochIsClaimed`).
* `StaleClaimFinalized` (`logic/descartes_logic.rs:277`): after the timeout the node asks to finalize as soon as its address has *some* claim, without
  comparing it with its own ("Check if validator local claim for claimed epoch matches the claim currently standing onchain", `:311`). A claim for
  epoch 0 that is mined late and counts for epoch 1 is enough. `FinalizationsAreDue` shows when the contract accepts the request itself: always, unless a claim
  that disagreed has restarted the challenge period since the node looked.
* `ExecutedTwice` (`OutputImpl.sol:205`): "outputs can only be executed once" (`OutputImpl.sol:71`, `Output.sol:43`, `README.md:36`). The indices of a
  proof are unchecked `uint256` numbers; an index and the same index plus 2^59 lead to one place, by the cast to `uint64`, and to two bits, so the output there is
  executed for each. `PortalIsSolvent` says what that costs: the portal then lacks what the second execution paid. Another collision blocks
  instead: an index of 2^64 or more spills into the next field of the position (`:194`) and sets the bit of another output, which never ran and cannot any more; this is
  why `BitsAreExecutions` and `OrdersAreExecuted` speak of outputs that share a bit.

More observations, which no run stands for: no document of the repository promises otherwise, or they depend on a configuration,
a library or a dispute manager outside it, or they can be read off one line:

* `ValidatorManagerImpl.sol:322`: removing an address that is in no slot clears both masks, the goal included. `GoalIsActiveValidators` is violated if
  `DescartesV2Instant.cfg` is run with `InstantDisputes = FALSE`: a self-dispute lost by the first claim, then one more removal of the same address. With
  `DisputeManagerImpl` it cannot happen (theorem `GoalIsAlwaysActive`).
* `fold/sealed_epoch_delegate.rs:241` ("don't need to re-update inputs because epoch is sealed"): a sealed epoch's inputs are read once, by a sync `safety_margin` blocks
  back. `SealedInputsMatchChain` says what that costs: they are those of a block up to that margin before one that shows the epoch sealed, so with a margin of two blocks
  or more they may lack the epoch's last inputs, and do in `StateFold`'s instance. They are all of them with a margin of at most one (`SealedInputsAreAlwaysExact`).
* `fold/types.rs:236`: an epoch in `ConsensusTimeout` "can be finalized at any time by anyone". Not so if an input sealed it and it is not the first: `finalizeEpoch` overflows
  (`DescartesV2Impl.sol:161`, `:217`; see `ChallengePeriodSkipped`). `DecisionsAreAccepted` says that this is the only case. It also says which claims revert: those that
  disagree with a current claim nobody defends (`ConflictNotRaised`).
* `fold/descartesv2_delegate.rs:263`: a node that folds a block in which a dispute is open panics. With `DisputeManagerImpl` there is no such block.
* `logic/descartes_logic.rs:344`: a node with `initial_epoch > 0` and a new session (which starts at epoch 0, `rollup_mm.rs:90`) panics in `expect` ("We should have
  more `finalized_epochs` than machine manager") for every block, for ever: `SealedEpochIsClaimed` excludes it and is violated without `initialEpoch = 0`.
* `PortalImpl.sol:98`: the input of a token deposit does not name the token (`README.md:30` has the input describe "the type of asset"; its operation says ether or token).
  A machine that reads only inputs knows how many tokens there are and not which, so it may order one token for the deposit of another: `PortalIsSolvent` holds for tokens
  together, and would fail for each of them.
* `PortalImpl.sol:172`: a token that answers false instead of reverting leaves the output marked and unpaid; `WithdrawalsArePaid` says that nothing else does ("transfer
  reverts on failure", `:171`).
* `rollup_mm.rs:236`: `compute_claim_hash` names its parameters machine, outputs, messages; its caller passes outputs, messages, machine. The two
  mistakes cancel out, and the order is the one `isValidProof` hashes (`OrdersAreExecuted`).
* `mockWallet/MockInputImpl.sol:258`: `onNewEpoch` "can only be called by DescartesV2 contract" but has no modifier: anybody may clear waiting deposits. A box whose nine inputs hold a
  transfer that cannot be processed (`:184`) refuses every tenth until then.

## 5. The proofs

For every value of the constants that the assumptions named in the modules allow. `ConstantsAssumption`, `MaskWidthAssumption`,
`TimeAssumption`, `BoundsAssumption`, `LifecycleAssumption`, `NodeAssumption` and `WalletAssumption` say what kind of value each constant is,
and that there are fewer than 32 validators; `IndexAssumption` that indices are `uint256` numbers; `PortalAssumption`
that a drive orders withdrawals or calls that are not the portal's.

| theorem | says |
|---|---|
| `TypeCorrect` | `Spec => []TypeOK` |
| `AgreementIsAlwaysEarned`, `DisputantsAlwaysClaimed` | votes that count, and claims that are disputed, were cast in this epoch |
| `InboxesAlwaysMatchEpochs` | the boxes are the announced inputs |
| `SealingTimestampIsAlwaysCurrent` | what `finalizeEpoch` measures the challenge period from |
| `GoalIsAlwaysActive`, `NoDisputeIsLeftOpen`, `ConsensusIsNeverMissed`, `FinalizationIsAlwaysBacked`, `OnlyDissentersAreEverRemoved` | with `InstantDisputes` |
| `LifecycleTheorem` | `Spec => LifecycleIsImplemented` |
| `AtMostOneSealedEpoch`, `SealedStaysForever` | of EpochLifecycle |
| `LockIsAlwaysReleased`, `BitsAreAlwaysExecutions`, `WithdrawalsAreAlwaysPaid`, `PortalIsAlwaysSolvent` | of outputs and portal, for any indices and tokens |
| `NodeImplementsLifecycle` | the node's chain is one of EpochLifecycle: `NodeSpec => Spec` |
| `MachineAlwaysFollowsChain`, `ClaimsAreAlwaysComplete`, `FinalizationsAreAlwaysDue` | of the node |
| `DepositsAreAlwaysAccounted`, `OnlyHoldersEverSpend` | of the mock wallet |
| `ViewAlwaysMatchesChain`, `TimersAlwaysMatchChain`, `DecisionsAreAlwaysAccepted`, `SealedInputsAlwaysMatchChain`, `SealedInputsStayTheSame` | of the folded view, with `NoPhaseNoise` |
| `SealedInputsAreAlwaysExact` | with `NoPhaseNoise` and `SafetyMargin <= 1` |

**Hypotheses.** `InstantDisputes` is the repository's dispute manager. `NoPhaseNoise` says that no bloom filter shows a phase change that is not
there; `PhaseForgotten` is what happens otherwise. False matches for the other events are allowed. Any `SafetyMargin` is allowed, except in the corollary that the inputs of
a sealed epoch are all of them.

**DescartesV2.** The inductive invariant is `IInv == TypeOK /\ AgreementInv /\ InboxesMatchEpochs /\ TimestampInv /\ InstantInv`.
`AgreementIsEarned` alone is not inductive: that the end of a dispute may hand the current claim to its winner needs that the winner
claimed it (`DisputantsClaimed`), that the current claim is among the votes, and that there is no agreement without a current
claim, hence `AgreementInv`. `TimestampInv` adds to `SealingTimestampIsCurrent` what the timestamp is while inputs accumulate, because an epoch sealed by an
input inherits it. The conjuncts in `InstantInv` are conditional on `InstantDisputes`: the goal is the
set of active slots because the loser of an instant dispute, the claimer in conflict, passed `isAllowed` in the same
transaction, so that its slot is found; consensus is not missed because agreement and goal are compared in every transaction that
changes one of them. Typing and agreement come first (`StepTypesAndAgreement`) since they hold for any dispute manager; inboxes, timestamps
and instant disputes build on them. `ValidatorManagerProofs` has the lemmas about the operations: what `Lowest` and the mask updates return, that `OnClaim` and
`OnDisputeEnd` keep types, earned agreement and the goal, and what the validators named in their answers have claimed.
`DescartesV2Proofs` has one lemma for each helper that several actions share (`ResolveValidatorResult`, `StartNewEpoch`) and one step for
each action. The refinement maps `Claim` to `Seal` or `Finalize`, `AddInput` to `Add`, `FinalizeEpoch` to `Finalize`,
`ResolveDispute` to `Finalize` or a stutter; the fairness of neither side is part of it.

**Outputs and portal.** `ExecutionInv` says that at most one call is open (`OneCall`: that the lock admits no second one is what makes the saved storage of the open
call describe the bits as they are) and that bits are executions; that positions tell outputs apart whose indices fit (`BitsDiffer`) follows from `DivisionIsUnique`. `BooksInv` says that the books are `Sound`: the machine
ordered no more of a kind of assets than was announced, what left the portal is what the executed outputs order, and deposits are held or paid. The same must hold of what a
failing call would restore (`CallInv`), or a failure would break it. Solvency follows because what was ordered is at most what was announced, and what was paid
is at most what executions ordered.

**Node.** `NodeInv` says how old the node's knowledge may be at each step of `react`: the view is a state the chain was in, and `restarts` tells whether its challenge period is still that one (`SnapInv`), the manager's
status its status before the last finish or enqueue (`StatusInv`), and a request is one the manager can still accept or must refuse (`RequestInv`).
Without it `MachineFollowsChain` is not inductive: that a manager which only checks epoch and position never takes a wrong input needs that
the batch was cut out of the right epoch at that position.

**Mock wallet.** `WalletInv` adds to `DepositsAreAccounted` that only deposits of the portal carry its address and that their amounts are numbers
(`BoxInv`). A payment is `Fair` (`OnePayment`): it changes the sum of an asset by what it deposits and a balance by no more than what its holder transfers;
so are the run of payments of an input and the run of inputs of a batch (`RunIsFair`).

**State fold.** `FoldInv` joins the contracts' invariant, `ChainInv` and `ViewInv`. `ViewInv` says that the view is one of `Views(L, e0)`, the views a node that
keeps epochs from `e0` can hold when the contracts have emitted the log `L`, by which path it came there: what a sync computes from all events is among
them (`EpochSyncIs`), and a fold of one more block leads from one of them to one of them (`EpochFoldContinues`), provided the block is *good*. `GoodBlock` is what the delegates
rely on without checking it: an epoch finalized in a block is the next one and nothing of it happens afterwards, finalized and sealed epochs get no inputs,
and a dispute admits no claims. `ChainInv` gives them that: storage, history and timers are what the log says (`StorageIsLogged`, `TimersAreLogged`), each
closed block was good and the one being built will be (`BlockIsGood`). A transaction preserves it because of what it emits (`Emitted`, one lemma for each action),
however many there are in a block. The properties compare the contracts with the view in the same terms, what the log says. The inputs of a sealed
epoch are the exception: the delegate reads them once, so that they depend on when. `SealedInputs` are those that some block of the chain may have found (`SyncedAt`), and each path
that reaches a view is shown to lead to one of them: `FoldFromIs` for a run of folds, `FromSyncIs` for the sync on two levels. That decisions are accepted also needs that a claimed
epoch has a current claim (`ClaimInv`), which the contracts keep for any dispute manager.

**Sums and recursion.** `SumProofs` has what these proofs need about sums over finite sets (splitting, renaming, comparing), and induction over the
naturals in a form without operator parameters: a *set* of naturals with 0 and closed under successor is all of them. With `RunExists`, a recursive function
over `0 .. n` exists and equals its defining equation, so that what a run does can be proved from what its steps do.

**Only model-checked.** Liveness (`DisputesEnd`, `ClaimedEpochIsFinalized`, `SealedEpochIsClaimed`, `OrdersAreExecuted`): with fairness and `ENABLED`
it is out of the prover's reach. Every other property of a passing run is a theorem.

## 6. Not modelled, and the plan

* **Merkle and Bitmask libraries**: npm packages; a proof shows what is at a place of a drive, and a mask is a set.
* **The mock's withdrawals and outputs** (`MockPortalImpl.sol:128`, `MockOutputImpl.sol`): the code of PortalImpl and OutputImpl again, with another layout of
  proofs; the locks of the mock, which nothing it calls could meet.
* **Transaction manager, block subscriber, state-fold library**: outside the repository; late, repeated or missing transactions and blocks
  are what the models allow of them. Chain reorganizations (the `TODO` at `descartes_logic.rs:77`) are not modelled: neither contracts nor
  node react to one, and taking blocks back needs the past of contracts, node and machine in the state.
* **Constructors' address checks, deployment scripts, tasks, error types, generated bindings, `main.rs`** (which does not start the loop yet): no state to check.

Next, in this order:

1. StateFold and ValidatorNode composed, so that the node acts on the folded view instead of the chain's state, and theorems about the composition.
2. Blocks that are taken back.
