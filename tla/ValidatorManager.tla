-------------------------- MODULE ValidatorManager --------------------------
(***************************************************************************)
(* The validator set and the claim agreement of the sealed epoch           *)
(* (contracts/ValidatorManagerImpl.sol), as operators from the contract's  *)
(* storage to the storage after a call.  Module DescartesV2 makes actions  *)
(* of them: the contract only accepts calls from DescartesV2, inside one   *)
(* of its transactions.                                                    *)
(*                                                                         *)
(* A bit mask is the set of the slots whose bit is one.  A reverted call   *)
(* leaves no trace, so each operation comes with the condition on which it *)
(* reverts and is only used when that is false.                            *)
(*                                                                         *)
(* Here and in the other modules a definition named Wrong... is a mistake  *)
(* that a programmer could make in the definition that follows it.  It is  *)
(* used nowhere: README.md says which property notices it when it is put   *)
(* in that definition's place.                                             *)
(***************************************************************************)
EXTENDS Naturals, Sequences

CONSTANTS
    Claims,             \* epoch hashes a sender may submit, bytes32(0) excluded
    NoClaim,            \* bytes32(0)
    Addresses,          \* accounts that can send a transaction
    NoAddress,          \* address(0), which sends none
    InitialValidators   \* the constructor's _validators

ASSUME ConstantsAssumption ==
    /\ NoClaim \notin Claims
    /\ NoAddress \notin Addresses
    /\ InitialValidators \in Seq(Addresses \cup {NoAddress})

\* uint32(2)**n reverts for n = 32: no contract with more validators exists.
ASSUME MaskWidthAssumption == Len(InitialValidators) < 32

Slots == 1 .. Len(InitialValidators)

\* The contract's storage.
ValidatorManagerState ==
    [claim      : Claims \cup {NoClaim},             \* currentClaim
     validators : [Slots -> Addresses \cup {NoAddress}],
     agreed     : SUBSET Slots,                      \* claimAgreementMask
     goal       : SUBSET Slots]                      \* consensusGoalMask

Results == {"NoConflict", "Consensus", "Conflict"}

Outcome(result, claims, claimers, vm) ==
    [result |-> result, claims |-> claims, claimers |-> claimers, vm |-> vm]

-----------------------------------------------------------------------------
(* Helpers.  The loops over validators stop at the first match.            *)

Lowest(S) == {i \in S : \A j \in S : i <= j}

SlotsOf(vm, a) == {i \in Slots : vm.validators[i] = a}

ActiveSlots(validators) == {i \in Slots : validators[i] # NoAddress}

\* The goal starts with every bit on; those of empty slots are cleared.
UpdateConsensusGoalMask(validators) == ActiveSlots(validators)

UpdateClaimAgreementMask(vm, sender) == vm.agreed \cup Lowest(SlotsOf(vm, sender))

IsAllowed(vm, sender) == SlotsOf(vm, sender) # {}

WrongIsConsensus(vm) == vm.agreed \subseteq vm.goal

IsConsensus(vm) == vm.agreed = vm.goal

WrongClaimer(vm) == vm.validators[CHOOSE i \in Lowest(ActiveSlots(vm.validators)) : TRUE]

\* The agreeing validator in the lowest slot; reverts if there is none.
GetClaimerOfCurrentClaim(vm) == vm.validators[CHOOSE i \in Lowest(vm.agreed) : TRUE]

WrongRemove(vm, v) ==
    [vm EXCEPT !.validators = [i \in Slots |-> IF vm.validators[i] = v THEN NoAddress
                                                                    ELSE vm.validators[i]]]

\* Both masks are returned through locals that stay zero when no slot matches.
RemoveFromValidatorSetAndBothBitmasks(vm, v) ==
    LET s == Lowest(SlotsOf(vm, v)) IN
    IF s = {}
    THEN [vm EXCEPT !.agreed = {}, !.goal = {}]
    ELSE [vm EXCEPT !.validators = [i \in Slots |-> IF i \in s THEN NoAddress
                                                               ELSE vm.validators[i]],
                    !.agreed = @ \ s,
                    !.goal   = @ \ s]

ConsensusOrNot(vm, c, a) ==
    IF IsConsensus(vm)
    THEN Outcome("Consensus", <<c, NoClaim>>, <<a, NoAddress>>, vm)
    ELSE Outcome("NoConflict", <<NoClaim, NoClaim>>, <<NoAddress, NoAddress>>, vm)

-----------------------------------------------------------------------------
(* The operations.                                                         *)

InitialValidatorManager ==
    [claim      |-> NoClaim,
     validators |-> InitialValidators,
     agreed     |-> {},
     goal       |-> UpdateConsensusGoalMask(InitialValidators)]

\* Set by the first claim of the epoch.
WithFirstClaim(vm, c) == IF vm.claim = NoClaim THEN [vm EXCEPT !.claim = c] ELSE vm

OnClaimReverts(vm, sender, c) ==
    \/ c = NoClaim
    \/ ~IsAllowed(vm, sender)
    \/ WithFirstClaim(vm, c).claim # c /\ vm.agreed = {}

OnClaim(vm, sender, c) ==
    LET first == WithFirstClaim(vm, c) IN
    IF c # first.claim
    THEN Outcome("Conflict", <<first.claim, c>>,
                 <<GetClaimerOfCurrentClaim(first), sender>>, first)
    ELSE ConsensusOrNot([first EXCEPT !.agreed = UpdateClaimAgreementMask(first, sender)],
                        c, sender)

\* If the current claim lost and validators still agree with it, the winner
\* has another dispute to play; if none is left the winning claim takes over.
OnDisputeEnd(vm, winner, loser, winningClaim) ==
    LET left == RemoveFromValidatorSetAndBothBitmasks(vm, loser)
        won  == [left EXCEPT !.claim = winningClaim]
    IN  IF winningClaim = left.claim
        THEN ConsensusOrNot(left, winningClaim, winner)
        ELSE IF left.agreed # {}
        THEN Outcome("Conflict", <<left.claim, winningClaim>>,
                     <<GetClaimerOfCurrentClaim(left), winner>>, left)
        ELSE ConsensusOrNot([won EXCEPT !.agreed = UpdateClaimAgreementMask(won, winner)],
                            winningClaim, winner)

WrongOnNewEpoch(vm) == [vm EXCEPT !.claim = NoClaim]

\* The claim that was current is returned to DescartesV2.
OnNewEpoch(vm) == [vm EXCEPT !.claim = NoClaim, !.agreed = {}]

=============================================================================
