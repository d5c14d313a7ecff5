-------------------------- MODULE SealedLoanSource --------------------------
(***************************************************************************)
(* contracts/aggregate/SealedLoanSource.sol: accounting sources on one     *)
(* source chain.  The owner of a source opens loans until it seals the     *)
(* source; loans are repaid before and after; checkpoints of a sealed      *)
(* source commit to its whole history under consecutive epochs.            *)
(*                                                                         *)
(* historyRoot is a rolling hash of the emitted states: it is represented  *)
(* by the sequence of those states, which a collision-free hash stands     *)
(* for.  Borrower, lender and asset of a loan are only compared for        *)
(* equality: one value, "parties", stands for the three.  Callers are not  *)
(* distinguished: the chain holds the calls of authorised ones.  Each      *)
(* transaction has a block of its own; a failed one has no logs, cannot be *)
(* applied by the ledger and is left out.                                  *)
(***************************************************************************)
EXTENDS EvmTypes, Sequences, FiniteSets

CONSTANTS
  Sources,       \* deployed SealedLoanSource contracts
  LoanIds,       \* bytes32 in the code
  Parties,       \* borrower, lender and asset of a loan
  NoParties,     \* of a loan not opened
  Principals,    \* bound: amounts a loan is opened with
  MaxEpoch,      \* bound: checkpoints of a source
  MaxTxs,        \* bound: transactions of the chain
  MaxTxLogs,     \* bound: logs of a transaction
  MaxTime        \* bound: timestamps of the source chain

ASSUME SourceConstants ==
  /\ NoParties \notin Parties
  /\ IsFiniteSet(LoanIds)
  /\ Principals \subseteq Uint \ {0}
  /\ MaxEpoch \in Nat /\ MaxTime \in Nat
  /\ MaxTxs \in Nat /\ MaxTxLogs \in Nat

VARIABLES
  loans,       \* loans[s][id]
  books,       \* the other storage of each source
  sourceTime,  \* timestamp of the block being built
  txLogs,      \* logs of the transaction being executed
  receipts     \* logs of the finished transactions

sourceVars == <<loans, books, sourceTime, txLogs, receipts>>

Loan == [parties : Parties \cup {NoParties}, sequence : Nat,
         eventSequence : Nat, principal : Uint, repaid : Uint,
         outstanding : Uint, timestamp : Nat]

NoLoan == [parties |-> NoParties, sequence |-> 0, eventSequence |-> 0,
           principal |-> 0, repaid |-> 0, outstanding |-> 0, timestamp |-> 0]

History == Seq([loanId : LoanIds, loan : Loan])

Totals == [loanCount : Nat, eventCount : Nat, historyRoot : History,
           totalIssued : Uint, totalRepaid : Uint]

NoTotals == [loanCount |-> 0, eventCount |-> 0, historyRoot |-> <<>>,
             totalIssued |-> 0, totalRepaid |-> 0]

Log == [type : {"LoanState"}, emitter : Sources, loanId : LoanIds, loan : Loan]
  \cup [type : {"SourceSeal"}, emitter : Sources]
  \cup [type : {"Checkpoint"}, emitter : Sources, epoch : Nat,
        totals : Totals, timestamp : Nat, sealedSource : BOOLEAN]

SourceTypeOK ==
  /\ loans \in [Sources -> [LoanIds -> Loan]]
  /\ books \in [Sources -> [sealedSource : BOOLEAN, epoch : Nat,
                            totals : Totals]]
  /\ sourceTime \in Nat
  /\ txLogs \in Seq(Log)
  /\ receipts \in Seq(Seq(Log))

SourceInit ==
  /\ loans = [s \in Sources |-> [id \in LoanIds |-> NoLoan]]
  /\ books = [s \in Sources |-> [sealedSource |-> FALSE, epoch |-> 0,
                                 totals |-> NoTotals]]
  /\ sourceTime = 1
  /\ txLogs = <<>>
  /\ receipts = <<>>

-----------------------------------------------------------------------------
Emit(log) ==
  /\ Len(receipts) < MaxTxs
  /\ Len(txLogs) < MaxTxLogs
  /\ txLogs' = Append(txLogs, log)
  /\ UNCHANGED <<sourceTime, receipts>>

(* _emitState: stamp the loan, count the event, extend the history. *)
EmitState(s, id, loan, totals) ==
  LET stamped == [loan EXCEPT !.eventSequence = totals.eventCount + 1,
                              !.timestamp = sourceTime]
  IN  /\ loans' = [loans EXCEPT ![s][id] = stamped]
      /\ books' = [books EXCEPT ![s].totals =
           [totals EXCEPT !.eventCount = @ + 1,
                          !.historyRoot =
                             Append(@, [loanId |-> id, loan |-> stamped])]]
      /\ Emit([type |-> "LoanState", emitter |-> s, loanId |-> id,
               loan |-> stamped])

OpenLoan(s, id, parties, principal) ==
  LET totals == books[s].totals
  IN  /\ ~books[s].sealedSource
      /\ loans[s][id].sequence = 0
      /\ totals.totalIssued + principal <= MaxUint
      /\ EmitState(s, id,
           [NoLoan EXCEPT !.parties = parties, !.sequence = 1,
                          !.principal = principal, !.outstanding = principal],
           [totals EXCEPT !.loanCount = @ + 1, !.totalIssued = @ + principal])

Repay(s, id, amount) ==
  LET loan   == loans[s][id]
      totals == books[s].totals
  IN  /\ loan.sequence # 0
      /\ amount # 0
      /\ amount <= loan.outstanding
      /\ EmitState(s, id,
           [loan EXCEPT !.repaid = @ + amount, !.outstanding = @ - amount,
                        !.sequence = @ + 1],
           [totals EXCEPT !.totalRepaid = @ + amount])

Seal(s) ==
  /\ ~books[s].sealedSource
  /\ books' = [books EXCEPT ![s].sealedSource = TRUE]
  /\ Emit([type |-> "SourceSeal", emitter |-> s])
  /\ UNCHANGED loans

TakeCheckpoint(s) ==
  /\ books[s].sealedSource
  /\ books[s].epoch < MaxEpoch
  /\ books' = [books EXCEPT ![s].epoch = @ + 1]
  /\ Emit([type |-> "Checkpoint", emitter |-> s,
           epoch |-> books[s].epoch + 1, totals |-> books[s].totals,
           timestamp |-> sourceTime, sealedSource |-> TRUE])
  /\ UNCHANGED loans

EndTransaction ==
  /\ txLogs # <<>>
  /\ receipts' = Append(receipts, txLogs)
  /\ txLogs' = <<>>
  /\ UNCHANGED <<loans, books, sourceTime>>

(* A new block may have a later timestamp. *)
TickSource ==
  /\ txLogs = <<>>
  /\ sourceTime < MaxTime
  /\ sourceTime' = sourceTime + 1
  /\ UNCHANGED <<loans, books, txLogs, receipts>>

SourceNext ==
  \/ \E s \in Sources, id \in LoanIds :
       \/ \E parties \in Parties, principal \in Principals :
            OpenLoan(s, id, parties, principal)
       \/ \E amount \in Uint : Repay(s, id, amount)
  \/ \E s \in Sources : Seal(s) \/ TakeCheckpoint(s)
  \/ EndTransaction
  \/ TickSource
=============================================================================
