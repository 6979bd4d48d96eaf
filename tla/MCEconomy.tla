----------------------------- MODULE MCEconomy -----------------------------
EXTENDS Economy

CONSTANTS m1, user

Balances == [a \in Accounts |-> IF a = user THEN 3000 ELSE IF a = m1 THEN 500 ELSE 0]

\* Just below, at and above a quarter of each dimension, and nearly full ones.
Kinds ==
  {[ref_time |-> r, proof |-> p, length |-> l] : r \in {0, 2, 3, 10}, p \in {1, 2}, l \in {2, 3, 8}}
=============================================================================
