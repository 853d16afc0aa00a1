----------------------------- MODULE MCStateFold -----------------------------
(***************************************************************************)
(* Small instances of StateFold for TLC.                                   *)
(***************************************************************************)
EXTENDS StateFold

CONSTANTS v1, v2, c1, c2, x1

OneValidator  == <<v1>>
TwoValidators == <<v1, v2>>

\* Bloom filters without and with false matches.
Exact      == {{}}
OtherNoise == {{"Claim", "InputAdded", "FinalizeEpoch"}}
PhaseNoise == {{}, {"PhaseChange"}}

ClaimSymmetry == Permutations({c1, c2})
=============================================================================
