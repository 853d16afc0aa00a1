------------------------ MODULE EpochLifecycleProofs ------------------------
(***************************************************************************)
(* What the life cycle of epochs guarantees, for any number of epochs.     *)
(***************************************************************************)
EXTENDS EpochLifecycle, TLAPS

LifecycleInv == TypeOK /\ OneSealedEpoch

\* The life cycle starts typed, with nothing sealed.
LEMMA InitLifecycle == Init => LifecycleInv
  BY LifecycleAssumption DEF Init, LifecycleInv, TypeOK, OneSealedEpoch, Epochs

\* It keeps its types, and the open epoch next to the final ones.
LEMMA StepLifecycle == LifecycleInv /\ [Next]_vars => LifecycleInv'
<1>. SUFFICES ASSUME LifecycleInv, [Next]_vars PROVE LifecycleInv'
  OBVIOUS
<1>. USE LifecycleAssumption
<1>1. ASSUME NEW x \in Inputs, Add(x) PROVE LifecycleInv'
  <2>1. open' \in {Len(finalized), Len(finalized) + 1} /\ finalized' = finalized
    BY <1>1 DEF Add, MaySeal, LifecycleInv, TypeOK, OneSealedEpoch
  <2>2. open' \in Epochs
    BY <2>1 DEF LifecycleInv, TypeOK, Epochs
  <2>3. inputs' \in [Epochs -> Seq(Inputs)]
    BY <1>1, <2>2 DEF Add, LifecycleInv, TypeOK
  <2>. QED BY <2>1, <2>2, <2>3 DEF LifecycleInv, TypeOK, OneSealedEpoch
<1>2. CASE Seal
  BY <1>2 DEF Seal, LifecycleInv, TypeOK, OneSealedEpoch, Epochs
<1>3. ASSUME NEW c \in Claims, Finalize(c) PROVE LifecycleInv'
  BY <1>3 DEF Finalize, LifecycleInv, TypeOK, OneSealedEpoch, Epochs
<1>4. CASE UNCHANGED vars
  BY <1>4 DEF vars, LifecycleInv, TypeOK, OneSealedEpoch
<1>. QED BY <1>1, <1>2, <1>3, <1>4 DEF Next

\* At most one epoch is sealed and not final.
THEOREM AtMostOneSealedEpoch == Spec => []OneSealedEpoch
<1>1. LifecycleInv => OneSealedEpoch
  BY DEF LifecycleInv
<1>. QED BY <1>1, InitLifecycle, StepLifecycle, PTL DEF Spec

\* The inputs of a sealed epoch and the final claims never change.
THEOREM SealedStaysForever == Spec => SealedIsForever
<1>. DEFINE Fixed == /\ \A e \in Epochs : e < open => inputs'[e] = inputs[e]
                     /\ Len(finalized) <= Len(finalized')
                     /\ \A e \in 1 .. Len(finalized) : finalized'[e] = finalized[e]
<1>1. LifecycleInv /\ [Next]_vars => [Fixed]_vars
  <2>. SUFFICES ASSUME LifecycleInv, Next PROVE Fixed
    OBVIOUS
  <2>1. ASSUME NEW x \in Inputs, Add(x) PROVE Fixed
    <3>1. open' >= open /\ finalized' = finalized
      BY <2>1 DEF Add, MaySeal, LifecycleInv, TypeOK, Epochs
    <3>2. \A e \in Epochs : e < open => e # open'
      BY <3>1 DEF LifecycleInv, TypeOK, Epochs
    <3>3. \A e \in Epochs : e # open' => inputs'[e] = inputs[e]
      BY <2>1 DEF Add, LifecycleInv, TypeOK
    <3>. QED BY <3>1, <3>2, <3>3 DEF LifecycleInv, TypeOK
  <2>2. CASE Seal
    BY <2>2 DEF Seal, LifecycleInv, TypeOK
  <2>3. ASSUME NEW c \in Claims, Finalize(c) PROVE Fixed
    BY <2>3 DEF Finalize, LifecycleInv, TypeOK
  <2>. QED BY <2>1, <2>2, <2>3 DEF Next
<1>. HIDE DEF Fixed
<1>2. Spec => [][Fixed]_vars
  BY <1>1, InitLifecycle, StepLifecycle, PTL DEF Spec
<1>. QED BY <1>2 DEF SealedIsForever, Fixed

=============================================================================
