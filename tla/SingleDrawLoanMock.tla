------------------------ MODULE SingleDrawLoanMock ------------------------
(***************************************************************************)
(* contracts/source/SingleDrawLoanMock.sol on its source chain.            *)
(*                                                                         *)
(* The loan is drawn once and repaid in parts by its borrower.  Every call *)
(* emits one debt log.  The chain packs calls into transactions and        *)
(* transactions into blocks: a borrower that is a contract may make        *)
(* several calls in one transaction, and other contracts put logs of their *)
(* own into the same receipt.  A log becomes provable when its transaction *)
(* ends, as a member of "receipts".                                        *)
(***************************************************************************)
EXTENDS EvmTypes, Sequences

CONSTANTS
  MaxBlock,       \* bound: blocks 1..MaxBlock
  MaxTxPerBlock,  \* bound: transactions of a block
  MaxLogs         \* bound: logs of a transaction

ASSUME LoanBounds == MaxBlock \in Nat
                     /\ MaxTxPerBlock \in Nat /\ MaxLogs \in Nat

VARIABLES
  loan,      \* the contract's storage
  emitted,   \* every debt log the contract emitted, in order
  head,      \* block and transaction index being executed
  txLogs,    \* logs of the transaction being executed
  receipts   \* receipts of the finished transactions, in chain order

loanVars == <<loan, emitted, head, txLogs, receipts>>

(* A log of another contract, or of another signature: the gate skips it. *)
ForeignLog == [type |-> "Foreign"]

DebtLog == [type : {"DebtOpened", "DebtRepaid"}, sequence : Nat, amount : Uint,
            cumulativeRepaid : Uint, outstanding : Uint, timestamp : Nat]

Receipt == [block : Nat, tx : Nat, status : {0, 1},
            logs : Seq(DebtLog \cup {ForeignLog})]

LoanTypeOK ==
  /\ loan \in [opened : BOOLEAN, principalOpened : Uint, totalRepaid : Uint,
               outstanding : Uint, sequence : Nat]
  /\ emitted \in Seq(DebtLog)
  /\ head \in [block : Nat, tx : Nat]
  /\ txLogs \in Seq(DebtLog \cup {ForeignLog})
  /\ receipts \in Seq(Receipt)

LoanInit ==
  /\ loan = [opened |-> FALSE, principalOpened |-> 0, totalRepaid |-> 0,
             outstanding |-> 0, sequence |-> 0]
  /\ emitted = <<>>
  /\ head = [block |-> 1, tx |-> 0]
  /\ txLogs = <<>>
  /\ receipts = <<>>

-----------------------------------------------------------------------------
(* The block timestamp, strictly increasing from block to block, is *)
(* represented by the block number.                                 *)
RoomForLog == Len(txLogs) < MaxLogs /\ head.tx < MaxTxPerBlock

Emit(debtLog) ==
  /\ RoomForLog
  /\ emitted' = Append(emitted, debtLog)
  /\ txLogs' = Append(txLogs, debtLog)
  /\ UNCHANGED <<head, receipts>>

OpenDebt(principal) ==
  /\ ~loan.opened
  /\ principal # 0
  /\ loan' = [opened |-> TRUE, principalOpened |-> principal, totalRepaid |-> 0,
              outstanding |-> principal, sequence |-> 1]
  /\ Emit([type |-> "DebtOpened", sequence |-> 1, amount |-> principal,
           cumulativeRepaid |-> 0, outstanding |-> principal,
           timestamp |-> head.block])

RepayDebt(amount) ==
  LET repaid == loan.totalRepaid + amount
      owed   == loan.principalOpened - repaid
  IN  /\ loan.opened
      /\ amount # 0
      /\ amount <= loan.outstanding
      /\ loan' = [loan EXCEPT !.totalRepaid = repaid, !.outstanding = owed,
                              !.sequence = @ + 1]
      /\ Emit([type |-> "DebtRepaid", sequence |-> loan.sequence + 1,
               amount |-> amount, cumulativeRepaid |-> repaid,
               outstanding |-> owed, timestamp |-> head.block])

(* Another contract emits a log in the same transaction. *)
EmitForeignLog ==
  /\ RoomForLog
  /\ txLogs' = Append(txLogs, ForeignLog)
  /\ UNCHANGED <<loan, emitted, head, receipts>>

Finish(status) ==
  /\ head.tx < MaxTxPerBlock
  /\ receipts' = Append(receipts, [block |-> head.block, tx |-> head.tx,
                                   status |-> status, logs |-> txLogs])
  /\ head' = [head EXCEPT !.tx = @ + 1]
  /\ txLogs' = <<>>
  /\ UNCHANGED <<loan, emitted>>

EndTransaction == txLogs # <<>> /\ Finish(1)

(* A transaction that reverts leaves a receipt without logs. *)
RevertedTransaction == txLogs = <<>> /\ Finish(0)

MineBlock ==
  /\ txLogs = <<>>
  /\ head.block < MaxBlock
  /\ head' = [block |-> head.block + 1, tx |-> 0]
  /\ UNCHANGED <<loan, emitted, txLogs, receipts>>

LoanNext ==
  \/ \E amount \in Uint : OpenDebt(amount) \/ RepayDebt(amount)
  \/ EmitForeignLog
  \/ EndTransaction
  \/ RevertedTransaction
  \/ MineBlock
=============================================================================
