------------------------------ MODULE MCAccess ------------------------------
(* Three accounts, so that a delegate can name a delegate, on a development  *)
(* network and on the two live ones.  Two identities name the same channel   *)
(* in different texts and one names none.                                    *)
EXTENDS Access

CONSTANTS a, b, c

UserSymmetry == Permutations({a, b, c})

Named(x) == [display |-> "name", bio |-> "", x |-> x]

MCInfos == {Named("@first"), Named("@second"), Named("")}
=============================================================================
