------------------------------ MODULE MCPoScan ------------------------------
(* Works of six bits: nonces whose scans fall in one bucket, whose product   *)
(* with the difficulty overflows, that hash to zero, and whose mesh one      *)
(* generator cannot scan.                                                    *)
EXTENDS PoScan

MCFeatures == [g \in 1 .. 2, n \in 0 .. 2 |-> <<4, 5, 30, 60, 7, 100>>[3 * (g - 1) + n + 1]]

MCUnscannable == {<<2, 0>>}
=============================================================================
