---------------------------- MODULE MCGovernance ----------------------------
(* Two accounts sign: the holder of the prime key, whose identity names no   *)
(* social channel, and the sub account of a judged identity.  The first      *)
(* referendum changes the code or spends; the second competes with it for    *)
(* the upgrade track's slot, cancels it or kills it.                         *)
EXTENDS Governance, TLC

CONSTANTS p, q, s

MCAccounts == {p, s}
MCSuperOf == s :> q
MCIds == 1 .. 2

On(origin, call) == [origin |-> origin, call |-> call]
Spend(n) == [kind |-> "spend", amount |-> n]
Brake(kind) == [kind |-> kind, target |-> 1]

MCProposals ==
    <<{On("Root", [kind |-> "set_code"]), On("RuntimeUpgrade", [kind |-> "upgrade"]),
       On("SmallSpender", Spend(2)), On("BigSpender", Spend(100))},
      {On("RuntimeUpgrade", [kind |-> "upgrade"]), On("SmallSpender", Spend(100)),
       On("ReferendumCanceller", Brake("cancel")), On("ReferendumKiller", Brake("kill"))}>>

MCTallies == {[approval |-> 10000, support |-> 10000],
              [approval |-> 5500, support |-> 200]}
=============================================================================
