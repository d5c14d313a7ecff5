------------------------------ MODULE EvmTypes ------------------------------
(***************************************************************************)
(* What the contracts share.                                               *)
(***************************************************************************)
EXTENDS Integers

(* Unsigned integers.  Arithmetic is checked: a result outside Uint        *)
(* reverts the call, so a guard that computes one is false.                *)
CONSTANT MaxUint   \* the largest uint256

ASSUME MaxUintAssumption == MaxUint \in Nat \ {0}

Uint == 0..MaxUint

-----------------------------------------------------------------------------
(* contracts/cc3/SourcePosition.sol: the order in which a gate or ledger   *)
(* accepts logs of one source chain.  A position is a record               *)
(* [block, tx, log]; positions are ordered lexicographically.              *)
Position == [block : Nat, tx : Nat, log : Nat]

IsAfter(p, q) ==
  \/ p.block > q.block
  \/ p.block = q.block /\ p.tx > q.tx
  \/ p.block = q.block /\ p.tx = q.tx /\ p.log > q.log
=============================================================================
