--------------------------- MODULE EpochLifecycle ---------------------------
(***************************************************************************)
(* What the on-chain rollup promises to those who add inputs and to those  *)
(* who compute claims, without phases, timers, validators or boxes: inputs *)
(* are assigned in order to a single open epoch, an epoch is sealed before *)
(* the next one opens, at most one epoch is sealed and not finalized, and  *)
(* epochs are finalized in order, one claim each.                          *)
(***************************************************************************)
EXTENDS Naturals, Sequences

CONSTANTS
    Inputs, Claims,
    MaxEpochs, MaxBoxSize   \* bounds on finalized epochs, inputs of an epoch

ASSUME LifecycleAssumption == MaxEpochs \in Nat /\ MaxBoxSize \in Nat

VARIABLES
    inputs,        \* the inputs of each epoch
    open,          \* the epoch receiving inputs
    finalized      \* the claims of the epochs that are final

vars == <<inputs, open, finalized>>

Epochs == 0 .. MaxEpochs + 1

Init ==
    /\ inputs = [e \in Epochs |-> <<>>]
    /\ open = 0
    /\ finalized = <<>>

\* The open epoch can be sealed unless another one already waits.
MaySeal == open' = open \/ (open = Len(finalized) /\ open' = open + 1)

Add(x) ==
    /\ MaySeal
    /\ Len(inputs[open']) < MaxBoxSize
    /\ inputs' = [inputs EXCEPT ![open'] = Append(@, x)]
    /\ UNCHANGED finalized

Seal ==
    /\ open = Len(finalized)
    /\ open' = open + 1
    /\ UNCHANGED <<inputs, finalized>>

\* The sealed epoch becomes final, perhaps in the step that seals it.
Finalize(c) ==
    /\ Len(finalized) < MaxEpochs
    /\ MaySeal
    /\ open' = Len(finalized) + 1
    /\ finalized' = Append(finalized, c)
    /\ UNCHANGED inputs

Next ==
    \/ \E x \in Inputs : Add(x)
    \/ Seal
    \/ \E c \in Claims : Finalize(c)

Spec == Init /\ [][Next]_vars

-----------------------------------------------------------------------------
TypeOK ==
    /\ inputs \in [Epochs -> Seq(Inputs)]
    /\ open \in Epochs
    /\ finalized \in Seq(Claims)
    /\ Len(finalized) <= MaxEpochs

\* Only the epoch before the open one can wait for its claim.
OneSealedEpoch == open \in {Len(finalized), Len(finalized) + 1}

\* What a claim is computed from never changes: the inputs of a sealed epoch
\* are fixed from then on, and so is every final claim.
SealedIsForever ==
    [][/\ \A e \in Epochs : e < open => inputs'[e] = inputs[e]
       /\ Len(finalized) <= Len(finalized')
       /\ \A e \in 1 .. Len(finalized) : finalized'[e] = finalized[e]]_vars

=============================================================================
