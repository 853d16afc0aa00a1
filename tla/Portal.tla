------------------------------- MODULE Portal -------------------------------
(***************************************************************************)
(* The portal (contracts/PortalImpl.sol) between the inputs and the        *)
(* outputs of the rollup: a deposit takes assets and adds an input, the    *)
(* machine answers inputs with withdrawals, which the portal pays when the *)
(* output contract executes them.                                          *)
(*                                                                         *)
(* The epochs are those of module EpochLifecycle, with the epoch hashes of *)
(* OutputExecution for final claims.  An input is what the machine can see *)
(* of a deposit: its operation and amount, not which token it brought.     *)
(* The lists of receivers and amounts are left out but for their sum.  The *)
(* machine is correct: it orders withdrawals of no more than the inputs it *)
(* has read announce, and what it orders is finalized.                     *)
(***************************************************************************)
EXTENDS OutputExecution, Sums, Functions

CONSTANTS
    Ether, Tokens,      \* what can be deposited
    SilentTokens,       \* whose transfer may answer false instead of reverting
    Elsewhere,          \* an output to another destination
    DepositAmounts, WithdrawalAmounts, Values,   \* bounds: sums of amounts, msg.value
    MaxBoxSize          \* bound on inputs of an epoch

Assets == {Ether} \cup Tokens
Withdrawals == [asset : Assets, amount : WithdrawalAmounts]
EtherWithdrawals == [asset : {Ether}, amount : WithdrawalAmounts]

ASSUME PortalAssumption ==
    /\ SilentTokens \subseteq Tokens /\ IsFiniteSet(Tokens) /\ IsFiniteSet(Outputs)
    /\ Calls = Withdrawals \cup {Elsewhere} /\ Elsewhere \notin Withdrawals
    /\ DepositAmounts \cup WithdrawalAmounts \cup Values \subseteq Nat

VARIABLES
    inputs, open,   \* the epochs, see EpochLifecycle
    drives,         \* history: the output drive of each final epoch's machine
    held,           \* assets in the portal
    paid,           \* history: assets that left it
    undo            \* for each open call, what the other contracts restore

portalVars == <<inputs, open, drives, held, paid, undo>>
systemVars == <<vars, portalVars>>

Request == [op |-> "request", amount |-> 0]
PortalInputs == [op : {"EtherOp", "ERC20Op"}, amount : DepositAmounts] \cup {Request}

Chain == INSTANCE EpochLifecycle
            WITH Inputs <- PortalInputs, Claims <- {}, finalized <- epochHashes

Operation(asset) == IF asset = Ether THEN "EtherOp" ELSE "ERC20Op"
Operations == {"EtherOp", "ERC20Op"}

PortalStorage ==
    [inputs |-> inputs, open |-> open, drives |-> drives, held |-> held, paid |-> paid]

-----------------------------------------------------------------------------
(* What the machine may order.                                             *)

AnnouncedBy(op, input) == IF input.op = op THEN input.amount ELSE 0

\* In the epochs before one that is not announced to the machine yet.
Announced(op, before) ==
    LET boxes == [e \in 0 .. before - 1 |-> inputs[e]]
    IN  SumOf([q \in Pairs(boxes) |-> AnnouncedBy(op, boxes[q[1]][q[2]])])

OrderedBy(op, call) == IF call # Elsewhere /\ Operation(call.asset) = op THEN call.amount ELSE 0

Ordered(op, final) == SumOf([q \in Pairs(final) |-> OrderedBy(op, final[q[1]][q[2]])])

\* Outputs come from inputs of the epoch, and all withdrawals ordered so far
\* are covered by the deposits announced so far.
MayOrder(drive) ==
    LET epoch == Len(epochHashes)
    IN  /\ \A p \in DOMAIN drive : p[1] < Len(inputs[epoch]) * LeafSize
        /\ \A op \in Operations :
               Ordered(op, Append(drives, drive)) <= Announced(op, epoch + 1)

WrongClaimHash(outputs, messages, state) == <<messages, outputs, state>>

\* compute_claim_hash: what isValidProof hashes again.
ClaimHash(outputs, messages, state) == <<outputs, messages, state>>

-----------------------------------------------------------------------------
PortalInit ==
    /\ Init
    /\ Chain!Init
    /\ drives = <<>>
    /\ held = [a \in Assets |-> 0]
    /\ paid = [a \in Assets |-> 0]
    /\ undo = <<>>

\* A transaction, or a call from the destination of an output; who receives
\* ether is given too little gas for one.
MayCall == \A f \in Range(frames) : CallOf(f.output) \notin EtherWithdrawals

\* Inputs of epochs that the bound keeps from becoming final are left out.
AddInput(input) == Chain!Add(input) /\ open' < MaxEpochs

\* The part of a deposit both operations share: the assets are in the portal,
\* the input goes to the box.
Take(asset, amount, value) ==
    /\ MayCall
    /\ held' = [held EXCEPT ![asset] = @ + value]
    /\ AddInput([op |-> Operation(asset), amount |-> amount])
    /\ UNCHANGED <<outputBitmask, lock, frames, executed, drives, paid, undo>>

WrongEtherDeposit(amount, value) == Take(Ether, amount, value)

\* etherDeposit: msg.value may be more than the sum of the amounts.
EtherDeposit(amount, value) == value >= amount /\ Take(Ether, amount, value)

\* erc20Deposit, whose transferFrom succeeded.
Erc20Deposit(token, amount) == Take(token, amount, amount)

\* Anybody adds another input, such as one that asks for a withdrawal.
AddRequest ==
    /\ MayCall
    /\ AddInput(Request)
    /\ UNCHANGED <<outputBitmask, lock, frames, executed, drives, held, paid, undo>>

\* A claim seals the epoch.
Seal ==
    /\ MayCall
    /\ Chain!Seal
    /\ UNCHANGED <<outputBitmask, lock, frames, executed, drives, held, paid, undo>>

\* The epoch becomes final with the hash of what the machine computed.
Finalize(drive) ==
    /\ MayCall
    /\ MayOrder(drive)
    /\ Chain!Finalize(ClaimHash(drive, <<>>, <<>>))
    /\ OnNewEpoch(ClaimHash(drive, <<>>, <<>>))
    /\ drives' = Append(drives, drive)
    /\ UNCHANGED <<held, paid, undo>>

StartCall(o) ==
    /\ ExecuteOutput(o)
    /\ undo' = Append(undo, PortalStorage)
    /\ UNCHANGED <<inputs, open, drives, held, paid>>

EndCall ==
    /\ CallSucceeds
    /\ undo' = SubSeq(undo, 1, Len(undo) - 1)
    /\ UNCHANGED <<inputs, open, drives>>

\* Another destination returns.
OtherCallReturns ==
    /\ frames # <<>>
    /\ CallOf(Top.output) = Elsewhere
    /\ EndCall
    /\ UNCHANGED <<held, paid>>

\* The withdrawal the open call carries.
Withdrawal == CallOf(Top.output)

\* executeDescartesV2Output: the assets are there and change hands, in the
\* step in which the call returns.
Withdraw ==
    /\ frames # <<>>
    /\ Withdrawal # Elsewhere
    /\ held[Withdrawal.asset] >= Withdrawal.amount
    /\ held' = [held EXCEPT ![Withdrawal.asset] = @ - Withdrawal.amount]
    /\ paid' = [paid EXCEPT ![Withdrawal.asset] = @ + Withdrawal.amount]
    /\ EndCall

WrongWithdrawSilently ==
    /\ frames # <<>>
    /\ Withdrawal # Elsewhere
    /\ EndCall
    /\ UNCHANGED <<held, paid>>

\* erc20Withdrawal ignores what transfer answers.
WithdrawSilently ==
    /\ frames # <<>>
    /\ Withdrawal # Elsewhere
    /\ Withdrawal.asset \in SilentTokens
    /\ EndCall
    /\ UNCHANGED <<held, paid>>

\* Any call may fail: what the other contracts did inside is undone as well.
Revert ==
    /\ CallFails
    /\ LET saved == undo[Len(undo)]
       IN  /\ inputs' = saved.inputs /\ open' = saved.open /\ drives' = saved.drives
           /\ held' = saved.held /\ paid' = saved.paid
    /\ undo' = SubSeq(undo, 1, Len(undo) - 1)

PortalNext ==
    \/ \E n \in DepositAmounts, v \in Values : EtherDeposit(n, v)
    \/ \E t \in Tokens, n \in DepositAmounts : Erc20Deposit(t, n)
    \/ AddRequest
    \/ Seal
    \/ \E drive \in OutputDrives : Finalize(drive)
    \/ \E o \in Outputs : StartCall(o)
    \/ OtherCallReturns
    \/ Withdraw
    \/ WithdrawSilently
    \/ Revert

\* A call ends, since it has only so much gas, and someone keeps trying every
\* output that is final.  Portal and other destinations do not fail forever
\* what they are able to do.
PortalFairness ==
    /\ WF_systemVars(OtherCallReturns \/ Withdraw \/ WithdrawSilently \/ Revert)
    /\ SF_systemVars(OtherCallReturns \/ Withdraw)
    /\ \A o \in Outputs : SF_systemVars(StartCall(o))

PortalSpec == PortalInit /\ [][PortalNext]_systemVars /\ PortalFairness

-----------------------------------------------------------------------------
(* Properties.                                                             *)

\* The machine put an output at the place that o leads to.
IsOrdered(o) == o.epoch < Len(drives) /\ Place(o) \in DOMAIN drives[o.epoch + 1]

Amount(call, asset) ==
    IF call # Elsewhere /\ call.asset = asset THEN call.amount ELSE 0

ExecutedOutputs == {o \in Outputs : executed[o] > 0}

\* What an executed output ordered.
OrderAt(o) == drives[o.epoch + 1][Place(o)]

\* What the executed outputs ordered of an asset, and of a kind of assets.
ExecutedOf(asset) == SumOf([o \in ExecutedOutputs |-> Amount(OrderAt(o), asset)])
ExecutedBy(op) == SumOf([o \in ExecutedOutputs |-> OrderedBy(op, OrderAt(o))])

\* What is there of a kind of assets.
OfKind(op, amounts) == SumOf([a \in {b \in Assets : Operation(b) = op} |-> amounts[a]])

\* The portal is "a bank account, owned by the off-chain machine"
\* (README.md:31): of either kind of assets, it holds whatever the machine
\* ordered less what executions ordered.  So it covers what is not executed, but
\* for what a place that was executed under several indices ordered again.  This
\* is so with calls back, failing calls and epochs that become final in their
\* middle, and for any number of tokens, which the machine cannot tell apart.
PortalIsSolvent ==
    \A op \in Operations : Ordered(op, drives) <= OfKind(op, held) + ExecutedBy(op)

\* What left the portal is what the executed outputs order: no withdrawal
\* happens twice for one execution or without one, and only a token whose
\* transfer answers false leaves an output executed and not paid.  ("transfer
\* reverts on failure", PortalImpl.sol:171, is the assumption that there is no
\* such token.)
WithdrawalsArePaid ==
    \A a \in Assets :
        /\ paid[a] <= ExecutedOf(a)
        /\ a \notin SilentTokens => paid[a] = ExecutedOf(a)

\* The asset an output withdraws is not there.
IsShort(o) == OrderAt(o) # Elsewhere /\ held[OrderAt(o).asset] < OrderAt(o).amount

\* Whatever the machine orders in an epoch that becomes final is eventually
\* executed and stays so, if someone keeps trying and its destination accepts
\* it now and then, unless an output that shares its bit was executed instead
\* or the portal has nothing left to pay it with: the claim hash opens to the
\* drive it was computed from, and no lock, failed or undone call is in the
\* way.  (MaxEpochs bounds the epochs, so there is a last one.)
OrdersAreExecuted ==
    <>[](frames = <<>> => \A o \in Outputs : IsOrdered(o) /\ ~Overflows(o) =>
            IsShort(o) \/ \E p \in SameBit(o) : executed[p] > 0)

=============================================================================
