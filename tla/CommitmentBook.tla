--------------------------- MODULE CommitmentBook ---------------------------
(***************************************************************************)
(* What the policy gate promises of its commitments to those who build on  *)
(* them: an amount is fixed when a commitment is reserved, it is executed  *)
(* at most once and in full, from then on repayments only lower it, and    *)
(* with nothing left it is closed for good.  ExposurePolicyGate keeps this *)
(* promise (run credit).                                                   *)
(***************************************************************************)
EXTENDS EvmTypes

CONSTANT Commitments

VARIABLE commitments   \* status and what is left of each

Lifecycle == {"NONE", "RESERVED", "EXECUTED", "CLOSED"}

BookTypeOK == commitments \in [Commitments -> [status : Lifecycle, amount : Uint]]

BookInit == commitments = [c \in Commitments |-> [status |-> "NONE", amount |-> 0]]

Reserved(c) ==
  /\ commitments[c].status = "NONE"
  /\ \E amount \in Uint \ {0} :
       commitments' = [commitments EXCEPT
         ![c] = [status |-> "RESERVED", amount |-> amount]]

Executed(c) ==
  /\ commitments[c].status = "RESERVED"
  /\ commitments' = [commitments EXCEPT ![c].status = "EXECUTED"]

Repaid(c) ==
  /\ commitments[c].status = "EXECUTED"
  /\ \E left \in 0..(commitments[c].amount - 1) :
       commitments' = [commitments EXCEPT
         ![c] = [status |-> IF left = 0 THEN "CLOSED" ELSE "EXECUTED",
                 amount |-> left]]

BookNext == \E c \in Commitments : Reserved(c) \/ Executed(c) \/ Repaid(c)

BookSpec == BookInit /\ [][BookNext]_commitments
=============================================================================
