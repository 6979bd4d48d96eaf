----------------------------- MODULE EthForward -----------------------------
(***************************************************************************)
(* The Ethereum RPC forwarder (node/src/eth_forward.rs).                   *)
(*                                                                         *)
(* Blocks up to the switch belong to a frozen Frontier node, the others to *)
(* eth-rpc.  The switch is searched for on the best chain, which grows and *)
(* reorganises meanwhile, and what is found is kept for good.              *)
(*                                                                         *)
(* A request is about the blocks from `from` to `to`; an answer is the set *)
(* of blocks each server spoke of.  The highest number stands for the head *)
(* and for every tag but "earliest", which is block 0.  Servers and chain  *)
(* are external.                                                           *)
(***************************************************************************)
EXTENDS Integers, FiniteSets

CONSTANTS
  Calls,            \* requests under way at once
  Requests,         \* what may be asked, by each of them
  MaxBest,          \* bound on the height of the best chain
  MaxConnections,   \* bound on WebSocket connections ever made
  None

Latest == MaxBest + 2

Upstreams == {"frontier", "revive"}

Route == {"Head", "Block", "Hash", "Logs", "Subscribe"}

Request == [route : Route, from : 0..Latest, to : 0..Latest]

ASSUME ForwardAssumption ==
  /\ MaxBest \in Nat /\ MaxConnections \in Nat
  /\ Requests \in [Calls -> SUBSET Request]
  /\ None \notin Nat /\ None \notin Calls

VARIABLES
  chain,    \* height of the best chain, and the first block on it that revive built
  frozen,   \* whether there is a frozen node
  cached,   \* Switch::block
  call,     \* the requests under way
  ws,       \* Upstream::ws: who holds the lock, and the client
  live,     \* connections that are up
  made,     \* connections ever made
  moved     \* history: a reorganisation touched what was cached or being read

vars == <<chain, frozen, cached, call, ws, live, made, moved>>

Nothing == [u \in Upstreams |-> {}]

\* lo and hi: the bounds of the search; todo and got: calls to servers out and
\* answered; low and high: least and greatest height since the request came.
Idle ==
  [pc |-> "idle", req |-> [route |-> "Head", from |-> Latest, to |-> Latest],
   lo |-> 0, hi |-> 0, todo |-> {}, got |-> Nothing, refused |-> FALSE,
   up |-> "revive", conn |-> 0, low |-> 0, high |-> 0]

InSearch(c) == call[c].pc \in {"tip", "search", "store"}

InProgress(c) == call[c].pc \notin {"idle", "done"}

Init ==
  /\ chain \in [len : 0..MaxBest, first : 1..(MaxBest + 1)]
  /\ frozen \in BOOLEAN
  /\ cached = None
  /\ call = [c \in Calls |-> Idle]
  /\ ws = [u \in Upstreams |-> [lock |-> None, client |-> 0]]
  /\ live = {} /\ made = 0
  /\ moved = FALSE
-----------------------------------------------------------------------------
(***************************************************************************)
(* Routing.                                                                *)
(***************************************************************************)
before_switch == IF frozen THEN "frontier" ELSE "revive"

ToServer(u, r) == {[up |-> u, from |-> r.from, to |-> r.to]}

\* side with a number or "earliest"; a frozen node has to be there to be asked.
side(at, switch) == IF frozen /\ at < switch THEN "frontier" ELSE "revive"


\* eth_getLogs by range: one side, or split at the switch.
logs(r, switch) ==
  IF frozen /\ r.to < switch THEN ToServer("frontier", r)
  ELSE IF ~frozen \/ r.from >= switch THEN ToServer("revive", r)
  ELSE {[up |-> "frontier", from |-> r.from, to |-> switch - 1],
        [up |-> "revive", from |-> switch, to |-> r.to]}

forward(r, switch) ==
  CASE switch = None -> ToServer(before_switch, r)
    [] switch # None /\ r.route \in {"Head", "Hash"} -> ToServer("revive", r)
    [] switch # None /\ r.route = "Block" -> ToServer(side(r.from, switch), r)
    [] switch # None /\ r.route = "Logs" -> logs(r, switch)

\* What a request does once Switch::block has returned.
Routed(k, switch) ==
  IF k.req.route = "Subscribe"
  THEN [Idle EXCEPT !.pc = "ws", !.req = k.req,
                    !.up = IF switch # None THEN "revive" ELSE before_switch]
  ELSE [k EXCEPT !.pc = "asked", !.todo = forward(k.req, switch), !.lo = 0, !.hi = 0]

\* Hash and header lookups on the best chain.  A miss counts as false, and so does
\* the genesis block, which has no digest.
built_by_frontier(n) == n \in 1..chain.len /\ n < chain.first
-----------------------------------------------------------------------------
(***************************************************************************)
(* Switch::block: the cache, the best number, then one lookup per step.    *)
(***************************************************************************)
Arrive(c, r) ==
  /\ call[c].pc = "idle"
  /\ LET k == [Idle EXCEPT !.req = r, !.low = chain.len, !.high = chain.len]
     IN  call' = [call EXCEPT ![c] = IF cached # None THEN Routed(k, cached)
                                     ELSE [k EXCEPT !.pc = "tip", !.hi = chain.len]]
  /\ UNCHANGED <<chain, frozen, cached, ws, live, made, moved>>

Narrowed(k) == [k EXCEPT !.pc = IF k.hi - k.lo > 1 THEN "search" ELSE "store"]

StillFrontier(best) == best = 0 \/ built_by_frontier(best)

ProbeTip(c) ==
  /\ call[c].pc = "tip"
  /\ call' = [call EXCEPT ![c] =
       IF StillFrontier(@.hi) THEN Routed(@, None) ELSE Narrowed(@)]
  /\ UNCHANGED <<chain, frozen, cached, ws, live, made, moved>>

Probe(c) ==
  LET middle == call[c].lo + (call[c].hi - call[c].lo) \div 2
  IN  /\ call[c].pc = "search"
      /\ call' = [call EXCEPT ![c] =
           IF built_by_frontier(middle) THEN Narrowed([@ EXCEPT !.lo = middle])
           ELSE Narrowed([@ EXCEPT !.hi = middle])]
      /\ UNCHANGED <<chain, frozen, cached, ws, live, made, moved>>

\* OnceLock::get_or_init: the first to come wins.
Store(c) ==
  /\ call[c].pc = "store"
  /\ cached' = IF cached = None THEN call[c].hi ELSE cached
  /\ call' = [call EXCEPT ![c] = Routed(@, cached')]
  /\ UNCHANGED <<chain, frozen, ws, live, made, moved>>
-----------------------------------------------------------------------------
(***************************************************************************)
(* Calls to the servers.                                                   *)
(***************************************************************************)
\* External: the last block a server knows, and those it holds.
Tip(u) ==
  IF u = "frontier" /\ chain.first <= chain.len THEN chain.first - 1 ELSE chain.len

Held(u) == IF u = "frontier" THEN 0..Tip(u) ELSE chain.first..chain.len

\* External: what a server answers.
Answered(p) ==
  LET at(n) == IF n = Latest THEN Tip(p.up) ELSE n
  IN  Held(p.up) \cap at(p.from)..at(p.to)

\* A hash eth-rpc does not know, or refuses to answer for, goes to the frozen node.
SecondChance(k, p) == k.req.route = "Hash" /\ p.up = "revive" /\ frozen

AskFrozen(k) == [k EXCEPT !.todo = ToServer("frontier", k.req)]

Answer(c, p) ==
  LET left == call[c].todo \ {p}
  IN  /\ call[c].pc = "asked"
      /\ call' = [call EXCEPT ![c] =
           IF SecondChance(@, p) /\ Answered(p) = {} THEN AskFrozen(@)
           ELSE [@ EXCEPT !.todo = left, !.got[p.up] = Answered(p),
                          !.pc = IF left = {} THEN "done" ELSE "asked"]]
      /\ UNCHANGED <<chain, frozen, cached, ws, live, made, moved>>

\* A JSON-RPC error comes back, and reaches the caller unless the frozen node is
\* asked next.
Refuse(c, p) ==
  /\ call[c].pc = "asked"
  /\ call' = [call EXCEPT ![c] =
       IF SecondChance(@, p) THEN [AskFrozen(@) EXCEPT !.refused = TRUE] ELSE Idle]
  /\ UNCHANGED <<chain, frozen, cached, ws, live, made, moved>>

\* The call itself fails, and the request with it.
Fail(c, p) ==
  /\ call[c].pc = "asked"
  /\ call' = [call EXCEPT ![c] = Idle]
  /\ UNCHANGED <<chain, frozen, cached, ws, live, made, moved>>

\* The caller has its answer.
Return(c) ==
  /\ call[c].pc = "done"
  /\ call' = [call EXCEPT ![c] = Idle]
  /\ UNCHANGED <<chain, frozen, cached, ws, live, made, moved>>
-----------------------------------------------------------------------------
(***************************************************************************)
(* Subscriptions.                                                          *)
(***************************************************************************)
Unguarded(u) == TRUE

Unlocked(u) == ws[u].lock = None

\* Upstream::ws takes the lock: the client is used if it is connected.  If not,
\* the lock is held while connecting.
WsLock(c) ==
  LET u == call[c].up
  IN  /\ call[c].pc = "ws" /\ Unlocked(u)
      /\ IF ws[u].client \in live
         THEN /\ call' = [call EXCEPT ![c].pc = "subscribing", ![c].conn = ws[u].client]
              /\ UNCHANGED ws
         ELSE /\ call' = [call EXCEPT ![c].pc = "connecting"]
              /\ ws' = [ws EXCEPT ![u].lock = c]
      /\ UNCHANGED <<chain, frozen, cached, live, made, moved>>

WsConnected(c) ==
  LET u == call[c].up
  IN  /\ call[c].pc = "connecting" /\ made < MaxConnections
      /\ made' = made + 1
      /\ live' = live \cup {made'}
      /\ ws' = [ws EXCEPT ![u] = [lock |-> None, client |-> made']]
      /\ call' = [call EXCEPT ![c].pc = "subscribing", ![c].conn = made']
      /\ UNCHANGED <<chain, frozen, cached, moved>>

WsFailed(c) ==
  /\ call[c].pc = "connecting"
  /\ ws' = [ws EXCEPT ![call[c].up].lock = None]
  /\ call' = [call EXCEPT ![c] = Idle]
  /\ UNCHANGED <<chain, frozen, cached, live, made, moved>>

\* eth_subscribe over the client: accepted if it is still connected, or rejected.
Subscribed(c) ==
  /\ call[c].pc = "subscribing"
  /\ \/ call[c].conn \in live /\ call' = [call EXCEPT ![c].pc = "open"]
     \/ call' = [call EXCEPT ![c] = Idle]
  /\ UNCHANGED <<chain, frozen, cached, ws, live, made, moved>>

\* The stream ends with its connection, or because the subscriber left.
Ended(c) ==
  /\ call[c].pc = "open"
  /\ call' = [call EXCEPT ![c] = Idle]
  /\ UNCHANGED <<chain, frozen, cached, ws, live, made, moved>>
-----------------------------------------------------------------------------
(***************************************************************************)
(* External: the chain and the connections.                                *)
(***************************************************************************)
Watching(len) ==
  [c \in Calls |-> IF ~InSearch(c) /\ call[c].pc # "asked" THEN call[c]
                   ELSE [call[c] EXCEPT !.low = IF len < @ THEN len ELSE @,
                                        !.high = IF len > @ THEN len ELSE @]]

Grow ==
  /\ chain.len < MaxBest
  /\ chain' = [chain EXCEPT !.len = @ + 1]
  /\ call' = Watching(chain'.len)
  /\ UNCHANGED <<frozen, cached, ws, live, made, moved>>

\* A heavier chain takes over.  It may be shorter, and may have switched at
\* another height.  A longer one is such a step and then Grow.
Reorg(len, first) ==
  /\ len <= chain.len
  /\ chain' = [len |-> len, first |-> first]
  /\ call' = Watching(len)
  /\ moved' = \/ moved
              \/ first # chain.first /\ (cached # None \/ \E c \in Calls : InProgress(c))
              \/ len < first /\ first <= chain.len /\ cached # None
              \/ len < chain.len /\ \E c \in Calls : InSearch(c)
  /\ UNCHANGED <<frozen, cached, ws, live, made>>

Drop(k) ==
  /\ live' = live \ {k}
  /\ UNCHANGED <<chain, frozen, cached, call, ws, made, moved>>

Next ==
  \/ \E c \in Calls :
       \/ \E r \in Requests[c] : Arrive(c, r)
       \/ ProbeTip(c) \/ Probe(c) \/ Store(c)
       \/ \E p \in call[c].todo : Answer(c, p) \/ Refuse(c, p) \/ Fail(c, p)
       \/ Return(c)
       \/ WsLock(c) \/ WsConnected(c) \/ WsFailed(c) \/ Subscribed(c) \/ Ended(c)
  \/ Grow
  \/ \E len \in 1..MaxBest, first \in 1..(MaxBest + 1) : Reorg(len, first)
  \/ \E k \in live : Drop(k)

Spec == Init /\ [][Next]_vars
-----------------------------------------------------------------------------
\* What a request asks for on a chain of height h.
Due(r, h) ==
  LET at(n) == IF n = Latest THEN h ELSE n
  IN  at(r.from)..(IF at(r.to) < h THEN at(r.to) ELSE h)


\* All open subscriptions to a server ride on one connection, except those whose
\* connection is already down (Upstream::ws holds its lock while it connects).
SharedConnection ==
  \A c, d \in Calls :
    /\ {call[c].conn, call[d].conn} \subseteq live
    /\ call[c].up = call[d].up
    => call[c].conn = call[d].conn

(***************************************************************************)
(* What a comment says and the code does not do.                           *)
(***************************************************************************)
=============================================================================
