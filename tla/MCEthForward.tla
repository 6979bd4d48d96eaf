---------------------------- MODULE MCEthForward ----------------------------
EXTENDS EthForward, TLC

CONSTANTS c1, c2

Ask(route, from, to) == [route |-> route, from |-> from, to |-> to]

\* The head, a block by number and by hash, logs on and across every side, and
\* subscriptions, beside a second subscription, which looks for the switch too.
MixedRequests ==
  c1 :> {Ask("Head", Latest, Latest), Ask("Subscribe", Latest, Latest),
         Ask("Block", 2, 2), Ask("Hash", 1, 1), Ask("Logs", 1, Latest),
         Ask("Logs", 0, 2)}
  @@ c2 :> {Ask("Subscribe", Latest, Latest)}

\* What follows a reorganisation of the switch itself is not explored.
Unmoved == ~moved
=============================================================================
