-------------------------- MODULE MCBalancesErc20 --------------------------
EXTENDS BalancesErc20

CONSTANTS u1, u2

\* One funded user, one to be opened, and the proxy with its deposit.
OpeningBalances == [a \in Accounts |-> CASE a = u1 -> 4 [] a = Token -> 1 [] OTHER -> 0]

\* Two in a row, the second with a deadline, and one for another chain.
PermitsToSign ==
  {[domain |-> "here", owner |-> u1, spender |-> u2, value |-> 2, nonce |-> 0, deadline |-> 1],
   [domain |-> "here", owner |-> u1, spender |-> u2, value |-> 3, nonce |-> 1, deadline |-> 0],
   [domain |-> "elsewhere", owner |-> u1, spender |-> u2, value |-> 3, nonce |-> 0,
    deadline |-> 1]}

Locked == [a \in Accounts |-> 0]
=============================================================================
