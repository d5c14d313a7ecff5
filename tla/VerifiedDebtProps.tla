------------------------- MODULE VerifiedDebtProps -------------------------
(***************************************************************************)
(* What the v1 pipeline must guarantee.                                    *)
(***************************************************************************)
EXTENDS VerifiedDebtPipeline

Nothing == [principal |-> 0, repaid |-> 0, outstanding |-> 0]

(* The source's state after each emitted debt log, and the gate's view. *)
SourceHistory ==
  [s \in 1..Len(emitted) |->
     [principal |-> emitted[1].amount,
      repaid |-> emitted[s].cumulativeRepaid,
      outstanding |-> emitted[s].outstanding]]

GateView == [principal |-> mirror.principalOpened,
             repaid |-> mirror.totalRepaid,
             outstanding |-> mirror.verifiedDebt]

Replica == INSTANCE LaggedReplica WITH
  published <- SourceHistory, position <- mirror.lastSequence,
  shown <- GateView

-----------------------------------------------------------------------------
(* Type correctness of the three parts. *)
TypeOK ==
  /\ LoanTypeOK
  /\ GateTypeOK
  /\ quote \in [Quotes -> {NoDecision} \cup DecisionView]

(* However proofs are ordered, repeated or withheld, the gate shows the     *)
(* loan exactly as it was after some prefix of its debt logs, and only      *)
(* moves forward (the sequence and cumulative checks of _applyRepayment).   *)
MirrorsAPrefix == Replica!Safe

(* docs/SPEC.md: a missing or late repayment proof may overstate the debt,  *)
(* but the debt the gate lends against is never understated.               *)
NeverUnderstated == mirror.initialized => loan.outstanding <= mirror.verifiedDebt

(* A receipt is admitted whole or not at all, and once: the admitted        *)
(* receipts hold exactly the debt logs up to lastSequence.                  *)
AdmittedWhole ==
  \A i \in 1..Len(receipts) :
    LET tx == receipts[i]
        debtLogs == {j \in 1..Len(tx.logs) : Applicable(tx.logs[j])}
    IN  debtLogs # {} =>
          ( <<tx.block, tx.tx>> \in processedQueries <=>
            \A j \in debtLogs : tx.logs[j].sequence <= mirror.lastSequence )

(* A decision still describes the gate as long as both versions it carries  *)
(* are current: so a commit bound to them cannot meet a state other than    *)
(* the one the borrower saw, whatever happened in between.                  *)
VersionsPinDecision ==
  \A q \in Quotes :
    ( /\ quote[q] # NoDecision
      /\ quote[q].stateVersion = stateVersion
      /\ quote[q].policyVersion = policyVersion )
    => quote[q] = Decision(quote[q].requested)

(* Credit is only committed against the debt the borrower really owes on   *)
(* the source chain, not only against the debt proven so far.              *)
CommitsCoverTrueDebt ==
  [][committedCredit' # committedCredit
       => loan.outstanding + committedCredit' <= creditLimit]_vars

(* Utilization stays a uint256: evaluate(0) and the headroom of commitCredit *)
(* never panic, even after the owner lowers the limit below utilization.   *)
UtilizationFits == Utilization <= MaxUint

(* Whatever order proofs are relayed in, the gate catches up with the loan  *)
(* again and again.  A loan emits at most an opening and one log for each   *)
(* unit repaid, so every debt log is mirrored in time.                      *)
CatchesUp == []<>(mirror.lastSequence = Len(emitted))
-----------------------------------------------------------------------------
(* The inductive invariant of the proofs. *)

(* Where a log of a receipt comes from. *)
Genuine(log, history) ==
  log = ForeignLog \/ \E s \in 1..Len(history) : log = history[s]

(* The debt logs number themselves, restate the principal, and never show   *)
(* less debt than is left.                                                  *)
HistoryInv ==
  /\ loan.totalRepaid + loan.outstanding = loan.principalOpened
  /\ Len(emitted) = loan.sequence
  /\ loan.opened <=> emitted # <<>>
  /\ ~loan.opened => loan.outstanding = 0
  /\ loan.opened => loan.principalOpened = emitted[1].amount
  /\ \A s \in 1..Len(emitted) :
       /\ emitted[s].sequence = s
       /\ emitted[s].type = IF s = 1 THEN "DebtOpened" ELSE "DebtRepaid"
       /\ s = 1 => emitted[s].cumulativeRepaid = 0
       /\ emitted[s].outstanding = emitted[1].amount - emitted[s].cumulativeRepaid
       /\ emitted[s].outstanding >= loan.outstanding
  /\ \A j \in 1..Len(txLogs) : Genuine(txLogs[j], emitted)
  /\ \A i \in 1..Len(receipts) : \A j \in 1..Len(receipts[i].logs) :
       Genuine(receipts[i].logs[j], emitted)

(* A mirror that shows the loan after its first lastSequence debt logs. *)
MirrorOK(m, history) ==
  /\ m \in Mirror
  /\ IF m.initialized
     THEN /\ m.lastSequence \in 1..Len(history)
          /\ m.principalOpened = history[1].amount
          /\ m.totalRepaid = history[m.lastSequence].cumulativeRepaid
          /\ m.verifiedDebt = history[m.lastSequence].outstanding
     ELSE /\ m.lastSequence = 0 /\ m.principalOpened = 0
          /\ m.totalRepaid = 0 /\ m.verifiedDebt = 0

CoreInv ==
  /\ LoanTypeOK
  /\ HistoryInv
  /\ GateTypeOK
  /\ MirrorOK(mirror, emitted)
  /\ ~mirror.initialized => committedCredit = 0
  /\ UtilizationFits

(* No decision is ahead of the gate, and one that is level with it is      *)
(* current.                                                                 *)
QuoteInv ==
  /\ quote \in [Quotes -> {NoDecision} \cup DecisionView]
  /\ \A q \in Quotes : quote[q] # NoDecision =>
       quote[q].stateVersion <= stateVersion /\ quote[q].policyVersion <= policyVersion
  /\ VersionsPinDecision

SequencesOf(logs) ==
  {logs[j].sequence : j \in {i \in 1..Len(logs) : Applicable(logs[i])}}

Key(tx) == <<tx.block, tx.tx>>

(* No two receipts have a key or a debt log in common, those of the chain   *)
(* lie behind its head, and what is admitted divides the debt logs at       *)
(* lastSequence.                                                            *)
WholeInv ==
  /\ processedQueries \subseteq {Key(receipts[i]) : i \in 1..Len(receipts)}
  /\ \A i \in 1..Len(receipts) :
       /\ \/ receipts[i].block < head.block
          \/ receipts[i].block = head.block /\ receipts[i].tx < head.tx
       /\ SequencesOf(receipts[i].logs) \cap SequencesOf(txLogs) = {}
       /\ \A s \in SequencesOf(receipts[i].logs) :
            Key(receipts[i]) \in processedQueries <=> s <= mirror.lastSequence
  /\ \A i, k \in 1..Len(receipts) : i # k =>
       /\ Key(receipts[i]) # Key(receipts[k])
       /\ SequencesOf(receipts[i].logs) \cap SequencesOf(receipts[k].logs) = {}
  /\ \A s \in SequencesOf(txLogs) : s > mirror.lastSequence

(* The history, the mirror, the credit, the decisions and the receipts      *)
(* together: what the proofs carry from step to step.                       *)
IInv == CoreInv /\ QuoteInv /\ WholeInv
=============================================================================
