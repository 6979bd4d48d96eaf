---------------------------- MODULE TokenProxy ----------------------------
(***************************************************************************)
(* The contract at the token address (runtime/src/balances_erc20.rs).      *)
(*                                                                         *)
(* proxy_code assembles EVM code whose forward jumps are patched once      *)
(* their targets are known.  Here it is assembled byte by byte the same    *)
(* way and run on the part of the EVM it uses, which is external.          *)
(***************************************************************************)
EXTENDS Naturals, SequencesExt

\* The functions of IBalancesErc20 and their selectors: any distinct bytes do.
Calls ==
  <<"name", "symbol", "decimals", "totalSupply", "balanceOf", "allowance", "approve",
    "transfer", "transferFrom", "withdraw", "deposit", "nonces", "DOMAIN_SEPARATOR", "permit">>

SELECTORS == [i \in DOMAIN Calls |-> <<160 + i, i, 0, 91>>]

Selector(f) == SELECTORS[CHOOSE i \in DOMAIN Calls : Calls[i] = f]

\* External: the function whose selector a call's input starts with, if any.
Decoded(input) ==
  LET found == {i \in DOMAIN Calls : IsPrefix(SELECTORS[i], input)}
  IN  IF found = {} THEN "none" ELSE Calls[CHOOSE i \in found : TRUE]

\* The last four bytes of the address revive mounts the precompile at.
PRECOMPILE == <<8, 2, 0, 0>>
-----------------------------------------------------------------------------
(***************************************************************************)
(* The assembler.  Positions count from zero, as the program counter does. *)
(***************************************************************************)
opcode ==
  [LT |-> 16, EQ |-> 20, SHL |-> 27, SHR |-> 28, CALLDATALOAD |-> 53, CALLDATASIZE |-> 54,
   CALLDATACOPY |-> 55, RETURNDATASIZE |-> 61, RETURNDATACOPY |-> 62, MSTORE |-> 82,
   JUMP |-> 86, JUMPI |-> 87, GAS |-> 90, JUMPDEST |-> 91, PUSH1 |-> 96, PUSH2 |-> 97,
   PUSH4 |-> 99, DUP1 |-> 128, DUP3 |-> 130, RETURN |-> 243, DELEGATECALL |-> 244,
   REVERT |-> 253]

PUSH1(n) == <<opcode.PUSH1, n>>
PUSH4(bytes) == <<opcode.PUSH4>> \o bytes

\* A jump whose two target bytes are filled in later; they start at jump_at.
jump(code, kind) == code \o <<opcode.PUSH2, 0, 0, kind>>
jump_at(code) == Len(code) - 3

\* The target is placed one byte past its JUMPDEST.
land_late(code, jumps) ==
  LET target == Len(code) + 1
  IN  [p \in DOMAIN code |->
         IF p - 1 \in jumps THEN target \div 256
         ELSE IF p - 1 \in {at + 1 : at \in jumps} THEN target % 256
         ELSE code[p]] \o <<opcode.JUMPDEST>>

\* Places a jump target here and points the jumps at it.
land(code, jumps) ==
  LET target == Len(code)
  IN  [p \in DOMAIN code |->
         IF p - 1 \in jumps THEN target \div 256
         ELSE IF p - 1 \in {at + 1 : at \in jumps} THEN target % 256
         ELSE code[p]] \o <<opcode.JUMPDEST>>

\* Compares the selector on the stack with the first n known ones in turn.
Matches(code, n) ==
  FoldLeft(LAMBDA c, s : jump(c \o <<opcode.DUP1>> \o PUSH4(s) \o <<opcode.EQ>>, opcode.JUMPI),
           code, SubSeq(SELECTORS, 1, n))

\* The code so far, up to each jump of proxy_code that a land points somewhere.
Sized == jump(PUSH1(4) \o <<opcode.CALLDATASIZE, opcode.LT>>, opcode.JUMPI)

Selecting == Sized \o PUSH1(0) \o <<opcode.CALLDATALOAD>> \o PUSH1(224) \o <<opcode.SHR>>

Matched == Matches(Selecting, Len(SELECTORS))
MatchedAt == {jump_at(Matches(Selecting, n)) : n \in DOMAIN SELECTORS}

Deposits ==
  jump(land(Matched, {jump_at(Sized)}) \o PUSH4(Selector("deposit")) \o PUSH1(224)
       \o <<opcode.SHL>> \o PUSH1(0) \o <<opcode.MSTORE>> \o PUSH1(4), opcode.JUMP)

Forwards ==
  land(Deposits, MatchedAt) \o <<opcode.CALLDATASIZE>> \o PUSH1(0) \o PUSH1(0)
  \o <<opcode.CALLDATACOPY, opcode.CALLDATASIZE>>

Called ==
  jump(land(Forwards, {jump_at(Deposits)}) \o PUSH1(0) \o PUSH1(0) \o <<opcode.DUP3>>
       \o PUSH1(0) \o PUSH4(PRECOMPILE)
       \o <<opcode.GAS, opcode.DELEGATECALL, opcode.RETURNDATASIZE>>
       \o PUSH1(0) \o PUSH1(0) \o <<opcode.RETURNDATACOPY>>, opcode.JUMPI)

Reverting == Called \o <<opcode.RETURNDATASIZE>> \o PUSH1(0) \o <<opcode.REVERT>>

proxy_code ==
  land(Reverting, {jump_at(Called)}) \o <<opcode.RETURNDATASIZE>> \o PUSH1(0) \o <<opcode.RETURN>>
-----------------------------------------------------------------------------
(***************************************************************************)
(* External: the EVM.  A word is its 32 bytes; every number the code       *)
(* computes with fits in two of them.  The stack's head is its top.        *)
(***************************************************************************)
Zeros(n) == [i \in 1..n |-> 0]
Word(n) == Zeros(30) \o <<n \div 256, n % 256>>
Num(w) == 256 * w[31] + w[32]
Bytes(s, n) == SubSeq(s \o Zeros(n), 1, n)

Pop(s, n) == SubSeq(s.stack, n + 1, Len(s.stack))
Push(s, popped, w) == [s EXCEPT !.stack = <<w>> \o Pop(s, popped), !.pc = @ + 1]
Drop(s, n) == [s EXCEPT !.stack = Pop(s, n), !.pc = @ + 1]

JumpTo(s, code, popped) ==
  LET to == Num(s.stack[1])
  IN  IF to < Len(code) /\ code[to + 1] = opcode.JUMPDEST
      THEN [s EXCEPT !.pc = to, !.stack = Pop(s, popped)]
      ELSE [s EXCEPT !.halt = "invalid"]

\* One instruction; done says whether the precompile succeeds.
Step(s, code, input, done) ==
  LET op == code[s.pc + 1]
      arg(i) == Num(s.stack[i])
      imm(n) == SubSeq(code, s.pc + 2, s.pc + 1 + n)
      pushed(n) == [s EXCEPT !.stack = <<Zeros(32 - n) \o imm(n)>> \o @, !.pc = @ + 1 + n]
      flag(b) == Word(IF b THEN 1 ELSE 0)
  IN  CASE s.halt # "no" -> s
        [] op = opcode.PUSH1 -> pushed(1)
        [] op = opcode.PUSH2 -> pushed(2)
        [] op = opcode.PUSH4 -> pushed(4)
        [] op = opcode.DUP1 -> Push(s, 0, s.stack[1])
        [] op = opcode.DUP3 -> Push(s, 0, s.stack[3])
        [] op = opcode.CALLDATASIZE -> Push(s, 0, Word(Len(input)))
        [] op \in {opcode.GAS, opcode.RETURNDATASIZE} -> Push(s, 0, Word(1))
        [] op = opcode.CALLDATALOAD -> Push(s, 1, Bytes(input, 32))
        [] op = opcode.LT -> Push(s, 2, flag(arg(1) < arg(2)))
        [] op = opcode.EQ -> Push(s, 2, flag(s.stack[1] = s.stack[2]))
        [] op = opcode.SHR ->
             LET k == arg(1) \div 8 IN Push(s, 2, Zeros(k) \o SubSeq(s.stack[2], 1, 32 - k))
        [] op = opcode.SHL ->
             LET k == arg(1) \div 8 IN Push(s, 2, SubSeq(s.stack[2], k + 1, 32) \o Zeros(k))
        [] op = opcode.MSTORE -> [Drop(s, 2) EXCEPT !.mem = s.stack[2]]
        [] op = opcode.CALLDATACOPY -> [Drop(s, 3) EXCEPT !.mem = Bytes(input, arg(3))]
        [] op = opcode.RETURNDATACOPY -> Drop(s, 3)
        [] op = opcode.JUMPDEST -> Drop(s, 0)
        [] op = opcode.JUMP -> JumpTo(s, code, 1)
        [] op = opcode.JUMPI -> IF arg(2) # 0 THEN JumpTo(s, code, 2) ELSE Drop(s, 2)
        [] op = opcode.DELEGATECALL ->
             [Push(s, 6, flag(done)) EXCEPT !.sent = Bytes(s.mem, arg(4))]
        [] op = opcode.RETURN -> [s EXCEPT !.halt = "return"]
        [] op = opcode.REVERT -> [s EXCEPT !.halt = "revert"]
        [] OTHER -> [s EXCEPT !.halt = "invalid"]

Machine ==
  [pc : Nat, stack : Seq(Seq(Nat)), mem : Seq(Nat), sent : Seq(Nat), halt : STRING]

\* What a call with this input sends the precompile, and how it ends.
Run(input, done) ==
  LET run[s \in Machine] ==
        IF s.halt # "no" THEN [sent |-> s.sent, halt |-> s.halt]
        ELSE run[Step(s, proxy_code, input, done)]
  IN  run[[pc |-> 0, stack |-> <<>>, mem |-> <<>>, sent |-> <<>>, halt |-> "no"]]
-----------------------------------------------------------------------------
\* What the comment on proxy_code promises, for every input and either outcome of
\* the precompile: a known selector passes through untouched, anything else becomes
\* deposit(), and return and revert come back as they are.
ForwardsOrDeposits(input) ==
  \A done \in BOOLEAN :
    Run(input, done) =
      [sent |-> IF Decoded(input) = "none" THEN Selector("deposit") ELSE input,
       halt |-> IF done THEN "return" ELSE "revert"]
=============================================================================
