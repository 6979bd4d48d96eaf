------------------------- MODULE MCValidatorSession -------------------------
(* Three accounts for two seats.  The genesis validator is the one whose       *)
(* exemption changes and who purges keys; the other two are interchangeable.   *)
EXTENDS ValidatorSession, TLC

CONSTANTS a1, a2, a3

OneGenesisValidator == <<a1>>

Newcomers == Permutations({a2, a3})
=============================================================================
