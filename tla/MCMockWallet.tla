---------------------------- MODULE MCMockWallet ----------------------------
(***************************************************************************)
(* A small instance of MockWallet for TLC.                                 *)
(***************************************************************************)
EXTENDS MockWallet

CONSTANTS x, y, token

Pay(receiver, amount) == [receiver |-> receiver, amount |-> amount]

ToBoth == {<<Pay(x, 2)>>, <<Pay(x, 1), Pay(y, 1)>>}

\* Transfers, one to oneself and one without its second amount, what pretends
\* to be a deposit, and a withdrawal.
SomeInputs ==
    {[transaction |-> t, asset |-> a, payments |-> p, sender |-> s] :
        t \in {"Deposit", "Transfer"}, a \in Assets, s \in {x, y},
        p \in {<<Pay(y, 1)>>, <<Pay(x, 2), Pay(y, 1)>>}}
    \cup {[transaction |-> t, asset |-> Ether, payments |-> <<Pay(y, 1), Pay(x, NoAmount)>>,
           sender |-> x] : t \in {"Deposit", "Transfer"}}
    \cup {[transaction |-> "Withdraw", asset |-> Ether, payments |-> <<Pay(x, 1)>>, sender |-> x]}

=============================================================================
