------------------------------ MODULE MCPortal ------------------------------
(***************************************************************************)
(* A small instance of Portal for TLC: ether, a token and one whose        *)
(* transfer may answer false.                                              *)
(***************************************************************************)
EXTENDS Portal

CONSTANTS token, silent

AllCalls == [asset : {Ether, token, silent}, amount : WithdrawalAmounts] \cup {Elsewhere}

Output(e, i, k) == [epoch |-> e, input |-> i, output |-> k]

\* The third proof leads to the same place as the first one, and shares its bit
\* with the second.
AllOutputs == {Output(0, 0, 0), Output(0, 0, 1), Output(0, 4, 0), Output(1, 0, 0)}

=============================================================================
