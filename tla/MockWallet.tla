----------------------------- MODULE MockWallet -----------------------------
(***************************************************************************)
(* The mock wallet (contracts/mockWallet): a portal that passes deposits   *)
(* to an input contract, which keeps the balances of layer 2 itself.  It   *)
(* collects inputs in a box and executes them together, in the transaction *)
(* that fills the box; anything that reverts in it takes that transaction  *)
(* back, with the deposit that made it.  The box stays full until          *)
(* onNewEpoch clears it, which anybody may call at any time.               *)
(*                                                                         *)
(* An asset is ether or a token, as the operation an input carries and its *)
(* token address say.  Withdrawals are those of module Portal, whose code  *)
(* MockPortalImpl and MockOutputImpl repeat.                               *)
(***************************************************************************)
EXTENDS Naturals, Sequences, FiniteSets, SequencesExt, Sums

CONSTANTS
    Addresses, PortalContract,   \* who has balances and sends inputs; the portal
    Ether, Tokens,
    NoAmount,             \* where receivers is longer than amounts
    BoxSize,              \* 10 in the code
    DepositLists, UserInputs, Surpluses, MaxHeld   \* bounds

Assets == {Ether} \cup Tokens

\* What addInput is given, once its operation is decoded.
Blobs(senders, amounts) ==
    [transaction : {"Deposit", "Transfer", "Withdraw"}, asset : Assets, sender : senders,
     payments : Seq([receiver : Addresses, amount : amounts])]

ASSUME WalletAssumption ==
    /\ IsFiniteSet(Addresses) /\ Addresses # {} /\ PortalContract \notin Addresses
    /\ Ether \notin Tokens /\ NoAmount \notin Nat
    /\ BoxSize \in Nat \ {0} /\ MaxHeld \in Nat /\ Surpluses \subseteq Nat
    /\ DepositLists \subseteq Seq([receiver : Addresses, amount : Nat])
    /\ UserInputs \subseteq Blobs(Addresses, Nat \cup {NoAmount})

VARIABLES
    inputBlobBox,   \* inputs of the current batch
    balanceOf,      \* etherBalanceOf and erc20BalanceOf
    held,           \* assets in the portal
    uncredited      \* history: surplus value, and deposits cleared unprocessed

vars == <<inputBlobBox, balanceOf, held, uncredited>>

Init ==
    /\ inputBlobBox = <<>>
    /\ balanceOf = [a \in Assets |-> [x \in Addresses |-> 0]]
    /\ held = [a \in Assets |-> 0]
    /\ uncredited = [a \in Assets |-> 0]

-----------------------------------------------------------------------------
(* processBatchInputs.                                                     *)

WrongCredit(balances, blob, payment) ==
    [balances EXCEPT ![blob.asset][payment.receiver] = @ + payment.amount]

\* A deposit counts only if the portal sent it.
Credit(balances, blob, payment) ==
    IF blob.sender = PortalContract
    THEN [balances EXCEPT ![blob.asset][payment.receiver] = @ + payment.amount]
    ELSE balances

WrongMove(balances, blob, payment) ==
    IF balances[blob.asset][blob.sender] >= payment.amount
    THEN [balances EXCEPT ![blob.asset][payment.receiver] = @ + payment.amount,
                          ![blob.asset][blob.sender] =
                              balances[blob.asset][blob.sender] - payment.amount]
    ELSE balances

WrongBackwardMove(balances, blob, payment) ==
    IF balances[blob.asset][payment.receiver] >= payment.amount
    THEN [balances EXCEPT ![blob.asset][blob.sender] = @ + payment.amount,
                          ![blob.asset][payment.receiver] = @ - payment.amount]
    ELSE balances

\* A transfer takes from its sender, who may be the receiver, or is skipped.
Move(balances, blob, payment) ==
    IF balances[blob.asset][blob.sender] >= payment.amount
    THEN LET less == [balances EXCEPT ![blob.asset][blob.sender] = @ - payment.amount]
         IN  [less EXCEPT ![blob.asset][payment.receiver] = @ + payment.amount]
    ELSE balances

\* Withdrawals have no effect.
Transact(balances, blob, payment) ==
    CASE blob.transaction = "Deposit"  -> Credit(balances, blob, payment)
      [] blob.transaction = "Transfer" -> Move(balances, blob, payment)
      [] OTHER -> balances

ProcessInput(balances, blob) ==
    LET after[k \in 0 .. Len(blob.payments)] ==
            IF k = 0 THEN balances ELSE Transact(after[k - 1], blob, blob.payments[k])
    IN  after[Len(blob.payments)]

ProcessBatchInputs(balances, box) ==
    LET after[k \in 0 .. Len(box)] ==
            IF k = 0 THEN balances ELSE ProcessInput(after[k - 1], box[k])
    IN  after[Len(box)]

\* amounts[j] is out of bounds in a transfer; a deposit reads it only from the
\* portal, which compares the lengths.
Reverts(box) ==
    \E blob \in ToSet(box) :
        /\ blob.transaction = "Transfer"
        /\ \E payment \in ToSet(blob.payments) : payment.amount = NoAmount

-----------------------------------------------------------------------------
WrongAddInput(blob) ==
    /\ Len(inputBlobBox) < BoxSize
    /\ inputBlobBox' = Append(inputBlobBox, blob)
    /\ ~Reverts(inputBlobBox')
    /\ balanceOf' = ProcessBatchInputs(balanceOf, inputBlobBox')

\* addInput: the input that fills the box has the batch processed.
AddInput(blob) ==
    /\ Len(inputBlobBox) < BoxSize
    /\ inputBlobBox' = Append(inputBlobBox, blob)
    /\ IF Len(inputBlobBox') = BoxSize
       THEN /\ ~Reverts(inputBlobBox')
            /\ balanceOf' = ProcessBatchInputs(balanceOf, inputBlobBox')
       ELSE UNCHANGED balanceOf

UserInput(blob) == AddInput(blob) /\ UNCHANGED <<held, uncredited>>

Total(payments) == SumOf([i \in DOMAIN payments |-> payments[i].amount])

DepositBlob(asset, payments) ==
    [transaction |-> "Deposit", asset |-> asset, payments |-> payments, sender |-> PortalContract]

\* The portal has taken value of the asset and sends the input.
Deposit(asset, payments, value) ==
    /\ held[asset] + value <= MaxHeld
    /\ held' = [held EXCEPT ![asset] = @ + value]
    /\ uncredited' = [uncredited EXCEPT ![asset] = @ + (value - Total(payments))]
    /\ AddInput(DepositBlob(asset, payments))

EtherDeposit(payments, surplus) == Deposit(Ether, payments, Total(payments) + surplus)

Erc20Deposit(token, payments) == Deposit(token, payments, Total(payments))

DepositsOf(box, asset) ==
    SumOf([i \in DOMAIN box |->
               IF box[i].sender = PortalContract /\ box[i].asset = asset
               THEN Total(box[i].payments) ELSE 0])

\* Deposits that wait in the box to be credited.
Pending(asset) ==
    IF Len(inputBlobBox) = BoxSize THEN 0 ELSE DepositsOf(inputBlobBox, asset)

\* onNewEpoch clears a box that is full, or one that is not yet processed.
OnNewEpoch ==
    /\ inputBlobBox' = <<>>
    /\ uncredited' = [a \in Assets |-> uncredited[a] + Pending(a)]
    /\ UNCHANGED <<balanceOf, held>>

Next ==
    \/ \E payments \in DepositLists, s \in Surpluses : EtherDeposit(payments, s)
    \/ \E t \in Tokens, payments \in DepositLists : Erc20Deposit(t, payments)
    \/ \E blob \in UserInputs : UserInput(blob)
    \/ OnNewEpoch

Spec == Init /\ [][Next]_vars

-----------------------------------------------------------------------------
(* Properties.                                                             *)

Balances(asset) == SumOf(balanceOf[asset])

\* Every deposit is credited exactly once, to somebody, or still waits, or was
\* cleared from the box before its batch: transfers, to oneself too, batches
\* that revert and inputs that only claim to be deposits neither create nor
\* destroy assets (MockInputImpl.sol:166).
DepositsAreAccounted ==
    \A a \in Assets : held[a] = Balances(a) + Pending(a) + uncredited[a]

TransfersOf(box, asset, sender) ==
    SumOf([i \in DOMAIN box |->
               IF box[i].transaction = "Transfer" /\ box[i].sender = sender /\ box[i].asset = asset
               THEN Total(box[i].payments) ELSE 0])

\* "for transfer and withdraws, we should check that the transaction has been
\* sent by the holder" (MockInputImpl.sol:159): a batch takes from nobody more
\* than their own transfers in it amount to.
OnlyHolderSpends ==
    [][\A a \in Assets, x \in Addresses :
           balanceOf'[a][x] < balanceOf[a][x] =>
               balanceOf[a][x] - balanceOf'[a][x] <= TransfersOf(inputBlobBox', a, x)]_vars

=============================================================================
