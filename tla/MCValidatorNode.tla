--------------------------- MODULE MCValidatorNode ---------------------------
(***************************************************************************)
(* Small instances of ValidatorNode for TLC.                               *)
(***************************************************************************)
EXTENDS ValidatorNode

CONSTANTS c1, x1, x2
=============================================================================
