--------------------------- MODULE ExposureCredit ---------------------------
(***************************************************************************)
(* The policy gate over any ledger that keeps the promise of               *)
(* ExposureReading.  Allocators and executors read a decision, then send a *)
(* transaction bound to its versions (the observe and write steps of       *)
(* scripts/phase2-demo.js); anything may land in between.                  *)
(***************************************************************************)
EXTENDS ExposurePolicyGate, ExposureReading, Functions

CONSTANTS
  Holders,      \* decisions held at a time
  NoDecision    \* a holder without one

VARIABLE held   \* the decision each holder read last

creditSpecVars == <<readingVars, gateVars, held>>

CreditInit ==
  /\ ReadingInit
  /\ GateInit
  /\ held = [h \in Holders |-> NoDecision]

LedgerStep == ReadingNext /\ UNCHANGED <<gateVars, held>>

SetPolicies ==
  /\ \/ \E account \in Accounts, authorized \in BOOLEAN :
          SetAllocator(account, authorized) \/ SetExecutor(account, authorized)
     \/ \E limit \in PolicyLimits : SetPolicy(limit)
  /\ UNCHANGED <<readingVars, held>>

Observe(h) ==
  /\ \E amount \in Uint :
       held' = [held EXCEPT ![h] = Decision(amount, reading, now)]
  /\ UNCHANGED <<readingVars, gateVars>>

ReserveHeld(h) ==
  /\ held[h] # NoDecision
  /\ \E by \in Accounts, c \in Commitments :
       Reserve(by, c, held[h], reading, now)
  /\ UNCHANGED <<readingVars, held>>

ExecuteHeld(h) ==
  /\ held[h] # NoDecision
  /\ \E by \in Accounts, c \in Commitments, p \in ProofIds :
       ExecuteReservation(by, c, p, held[h].exposureStateVersion, reading, now)
  /\ UNCHANGED <<readingVars, held>>

RepayHeld(h) ==
  /\ held[h] # NoDecision
  /\ \E by \in Accounts, c \in Commitments, p \in ProofIds, amount \in Uint :
       RepayExecution(by, c, amount, p, held[h].exposureStateVersion, reading, now)
  /\ UNCHANGED <<readingVars, held>>

GateStep ==
  \/ SetPolicies
  \/ \E h \in Holders :
       Observe(h) \/ ReserveHeld(h) \/ ExecuteHeld(h) \/ RepayHeld(h)

CreditSpec == CreditInit /\ [][LedgerStep \/ GateStep]_creditSpecVars

-----------------------------------------------------------------------------
(* Types of the ledger's reading, the gate and the decisions. *)
CreditTypeOK ==
  /\ reading \in LedgerReading
  /\ now \in Nat
  /\ GateTypeOK
  /\ held \in [Holders -> DecisionView \cup {NoDecision}]

(* A decision is worth its versions: while the sum of ledger and gate       *)
(* versions, the policy version and the snapshot it carries are current, so *)
(* is every amount in it, although two counters share one number and        *)
(* finalizeSnapshot advances neither (exposureStateVersion).                *)
VersionsPinDecision ==
  \A h \in Holders :
    LET d == held[h]
        current == Decision(d.amount, reading, now)
    IN  ( /\ d # NoDecision
          /\ d.exposureStateVersion = current.exposureStateVersion
          /\ d.policyVersion = current.policyVersion
          /\ d.snapshotId = current.snapshotId )
        => d = [current EXCEPT !.reason = d.reason]

(* Once a snapshot replaced the one a commitment is bound to, the           *)
(* commitment neither executes nor repays: its credit counts for good.      *)
SupersededIsFrozen ==
  [][\A c \in Commitments :
       reservationStatus[c] # "NONE" /\ reservations[c].snapshotId # reading.snapshotId
         => UNCHANGED <<reservations[c], reservationStatus[c]>>]_creditSpecVars

(* What is left of the commitments in a state, and what the proof references *)
(* of one kind moved of a commitment.                                        *)
Left(commitments, statuses, status) ==
  SumFunctionOnSet([c \in Commitments |-> commitments[c].amount],
                   {c \in Commitments : statuses[c] = status})

Uses(bindings, c, kind) ==
  {p \in ProofIds : /\ bindings[p] # NoUse
                    /\ bindings[p].commitment = c
                    /\ bindings[p].kind = kind}

Moved(bindings, c, kind) ==
  SumFunctionOnSet([p \in Uses(bindings, c, kind) |-> bindings[p].amount],
                   Uses(bindings, c, kind))

(* The two totals are what is left of the commitments in each state, and    *)
(* what is left of an executed one is what its execution proof moved less   *)
(* what its repayment proofs repaid: no proof counts twice.                 *)
CreditAddsUp ==
  /\ reservedCredit = Left(reservations, reservationStatus, "RESERVED")
  /\ executedCredit = Left(reservations, reservationStatus, "EXECUTED")
  /\ \A c \in Commitments : reservationStatus[c] \in {"EXECUTED", "CLOSED"}
       => reservations[c].amount = Moved(proofBinding, c, "EXECUTE")
                                     - Moved(proofBinding, c, "REPAY")

(* To those who build on it the gate is a book of commitments, whatever     *)
(* else reservations, executions, repayments and their proofs touch.        *)
Book == INSTANCE CommitmentBook WITH
  commitments <- [c \in Commitments |->
    [status |-> reservationStatus[c], amount |-> reservations[c].amount]]

KeepsCommitments == Book!BookSpec

-----------------------------------------------------------------------------
(* The inductive invariant of the proofs. *)

(* No decision is ahead of ledger and gate. *)
HeldBehind ==
  \A h \in Holders : held[h] # NoDecision =>
    /\ held[h].exposureStateVersion <= ExposureStateVersion(reading)
    /\ held[h].policyVersion <= policyVersion
    /\ held[h].snapshotId <= reading.snapshotId

(* Proof references are bound to commitments that were executed. *)
BoundToExecuted ==
  \A p \in ProofIds : proofBinding[p] # NoUse
    => reservationStatus[proofBinding[p].commitment] \in {"EXECUTED", "CLOSED"}

CreditFits == reservedCredit + executedCredit <= MaxUint

(* What the proofs carry from step to step. *)
IInv ==
  /\ CreditTypeOK
  /\ HeldBehind /\ VersionsPinDecision
  /\ BoundToExecuted /\ CreditFits /\ CreditAddsUp
=============================================================================
