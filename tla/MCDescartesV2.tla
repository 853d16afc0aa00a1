---------------------------- MODULE MCDescartesV2 ----------------------------
(***************************************************************************)
(* Small instances of DescartesV2 for TLC.                                 *)
(***************************************************************************)
EXTENDS DescartesV2, TLC

CONSTANTS v1, v2, v3, outsider, c1, c2, x1, x2

OneValidator    == <<v1>>
TwoValidators   == <<v1, v2>>
ThreeValidators == <<v1, v2, v3>>
\* address(0) among the constructor's validators
WithEmptySlot   == <<v1, NoAddress, v2, v3>>

ClaimSymmetry == Permutations({c1, c2})
=============================================================================
