---------------------------- MODULE SignerChain ----------------------------
(***************************************************************************)
(* A chain as the scripts see it through an RPC provider: transactions of  *)
(* one signing account, ordered by nonce, wait in a pool, may be dropped   *)
(* from it, and are mined with success or reverted.  A transaction's hash  *)
(* stands for what it is: the step it carries out and its nonce.  Blocks   *)
(* are final.                                                              *)
(***************************************************************************)
EXTENDS Integers, FiniteSets, FiniteSetsExt

CONSTANTS
  NSteps,     \* a run's transactions, carried out in the order 1..NSteps
  MaxNonce,   \* bound: transactions of the account
  MaxDrops,   \* bound: transactions dropped from the pool
  MaxForeign  \* bound: transactions of the account outside the run

ASSUME ChainConstants ==
  /\ NSteps \in Nat \ {0} /\ MaxNonce \in Nat
  /\ MaxDrops \in Nat /\ MaxForeign \in Nat

Steps == 1..NSteps
Tx == [step : Steps, nonce : 0..MaxNonce]

VARIABLES
  used,     \* mined transactions of the account: its next nonce
  pool,     \* transactions waiting
  receipt,  \* the receipt of each transaction
  sent,     \* history: every transaction the pool ever accepted
  drops, foreign

chainVars == <<used, pool, receipt, sent, drops, foreign>>

ChainTypeOK ==
  /\ used \in 0..(MaxNonce + 1)
  /\ pool \subseteq Tx /\ sent \subseteq Tx
  /\ receipt \in [Tx -> {"NONE", "SUCCESS", "REVERTED"}]
  /\ drops \in 0..MaxDrops /\ foreign \in 0..MaxForeign

ChainInit ==
  /\ used = 0 /\ pool = {} /\ sent = {}
  /\ receipt = [t \in Tx |-> "NONE"]
  /\ drops = 0 /\ foreign = 0

(* eth_getTransactionCount(account, "pending") *)
NextNonce ==
  Min({n \in used..(used + Cardinality(pool)) : \A t \in pool : t.nonce # n})

(* A spent nonce and a second transaction with one are refused, one that *)
(* already waits is accepted again.                                      *)
PoolAccepts(t) ==
  t.nonce >= used /\ \A u \in pool : u.nonce = t.nonce => u = t

Broadcast(t) ==
  /\ PoolAccepts(t)
  /\ pool' = pool \cup {t}
  /\ sent' = sent \cup {t}
  /\ UNCHANGED <<used, receipt, drops, foreign>>

Mine(t, outcome) ==
  /\ t \in pool /\ t.nonce = used
  /\ receipt' = [receipt EXCEPT ![t] = outcome]
  /\ used' = used + 1
  /\ pool' = pool \ {t}
  /\ UNCHANGED <<sent, drops, foreign>>

Drop(t) ==
  /\ t \in pool /\ drops < MaxDrops
  /\ pool' = pool \ {t}
  /\ drops' = drops + 1
  /\ UNCHANGED <<used, receipt, sent, foreign>>

(* The account is used outside the run. *)
Foreign ==
  /\ foreign < MaxForeign /\ used <= MaxNonce
  /\ used' = used + 1
  /\ pool' = {t \in pool : t.nonce # used}
  /\ foreign' = foreign + 1
  /\ UNCHANGED <<receipt, sent, drops>>

MineSome == \E t \in pool, outcome \in {"SUCCESS", "REVERTED"} : Mine(t, outcome)

ChainNext == MineSome \/ (\E t \in pool : Drop(t)) \/ Foreign
=============================================================================
