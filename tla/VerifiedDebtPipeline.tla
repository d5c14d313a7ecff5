------------------------ MODULE VerifiedDebtPipeline ------------------------
(***************************************************************************)
(* The v1 system: a loan on the source chain, anyone who relays proofs of  *)
(* its transactions to the gate in any order and any number of times, the  *)
(* policy owner, and the borrower, whose commit transactions carry the     *)
(* versions of a decision read earlier (scripts/demo.js reads a decision,  *)
(* then sends commitCredit; other transactions may land in between).       *)
(***************************************************************************)
EXTENDS SingleDrawLoanMock, VerifiedDebtGate, FiniteSets

CONSTANTS
  Quotes,       \* decisions the borrower can hold at a time
  NoDecision    \* a slot without a decision

VARIABLE quote  \* the decision held in each slot

vars == <<loanVars, gateVars, quote>>

Init ==
  /\ LoanInit
  /\ GateInit
  /\ quote = [q \in Quotes |-> NoDecision]

Source == LoanNext /\ UNCHANGED <<gateVars, quote>>

Relay ==
  /\ \E i \in 1..Len(receipts) : SubmitSourceTransaction(receipts[i])
  /\ UNCHANGED <<loanVars, quote>>

Evaluate(q) ==
  /\ \E requested \in Uint :
       /\ ~Panics(requested)
       /\ quote' = [quote EXCEPT ![q] = Decision(requested)]
  /\ UNCHANGED <<loanVars, gateVars>>

(* The amount need not be the one the decision was asked for. *)
Commit(q) ==
  /\ quote[q] # NoDecision
  /\ \E requested \in Uint :
       CommitCredit(requested, quote[q].stateVersion, quote[q].policyVersion)
  /\ UNCHANGED <<loanVars, quote>>

ChangePolicy ==
  /\ \E newLimit \in PolicyLimits : SetPolicy(newLimit)
  /\ UNCHANGED <<loanVars, quote>>

Next ==
  \/ Source
  \/ Relay
  \/ \E q \in Quotes : Evaluate(q) \/ Commit(q)
  \/ ChangePolicy

Spec == Init /\ [][Next]_vars

(* The chain finishes the transactions it starts, and some relayer goes on *)
(* submitting what the gate would admit; nobody has to draw, repay, ask,   *)
(* commit or mine.                                                         *)
FairSpec ==
  /\ Spec
  /\ WF_vars(EndTransaction /\ UNCHANGED <<gateVars, quote>>)
  /\ WF_vars(Relay)
=============================================================================
