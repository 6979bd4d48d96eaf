------------------------ MODULE MCFrontierMigration ------------------------
EXTENDS FrontierMigration

CONSTANTS a1, a2, t, X, Bad, Del, n1

Reached == [a \in Addresses |-> CASE a = a1 -> 2 [] a = a2 -> 1 [] OTHER -> 0]

Account(b, n, v, h) == [bal |-> b, nonce |-> n, vest |-> v, done |-> 0, held |-> h]

\* Of a1: empty, rich with and without schedules, and encumbered.
OldAccounts ==
  {Account(0, 2, 0, FALSE), Account(3, 2, 0, FALSE),
   Account(3, 2, 2, FALSE), Account(3, 2, 0, TRUE),
   Account(0, 1, 0, FALSE), Account(2, 1, 2, FALSE), Account(2, 1, 0, FALSE), Account(0, 0, 0, FALSE),
   Account(1, 0, 0, FALSE)}

\* A known address with any code or none, a contract that may share its code, lack
\* room for its schedules or be refused, and the token's address, rarely used.
Chains ==
  {l \in {[old |-> [a \in Addresses |-> CASE a = a1 -> o1 [] a = a2 -> o2 [] OTHER -> o3],
           evm |-> [a \in Addresses |->
                      CASE a = a1 -> [code |-> c1, slots |-> IF c1 \in {X, Bad}
                                                            THEN {<<1, 0>>, <<2, 5>>} ELSE {}]
                        [] a = a2 -> [code |-> c2, slots |-> {<<1, 0>>, <<3, 7>>}]
                        [] OTHER -> Empty]] :
            o1 \in {o \in OldAccounts : o.nonce = 2}, o2 \in {o \in OldAccounts : o.nonce = 1},
            o3 \in {o \in OldAccounts : o.nonce = 0}, c1 \in {NoCode, X, Bad, Del},
            c2 \in {X, Bad}} :
     /\ (l.evm[a2].code = Bad) = (l.old[a2].bal # 0 /\ l.old[a2].vest = 0)
     /\ l.old[t].bal # 0 => l.evm[a1].code = NoCode /\ l.old[a2].bal = 0}
=============================================================================
