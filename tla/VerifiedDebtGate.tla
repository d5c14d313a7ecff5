-------------------------- MODULE VerifiedDebtGate --------------------------
(***************************************************************************)
(* contracts/cc3/VerifiedDebtGate.sol: mirrors one source loan from proven *)
(* source receipts and grants credit under a limit.                        *)
(*                                                                         *)
(* The native verifier, which decides that a receipt is part of the        *)
(* attested source chain, is external: the composing module passes only    *)
(* receipts the source chain holds.  A gate is deployed for one loan, so   *)
(* the identity fields of its logs (asset, loan, unit, borrower) agree and *)
(* are left out.  The state hash, the last event id and the admission time *)
(* are derived from the state below and read by no guard.                  *)
(***************************************************************************)
EXTENDS EvmTypes, Sequences

CONSTANTS
  InitialLimit,   \* initialCreditLimit of the constructor
  PolicyLimits,   \* limits the policy owner chooses from
  MaxPolicyVersion  \* bound: on the policy versions

ASSUME GateConstants ==
  /\ PolicyLimits \subseteq Uint
  /\ InitialLimit \in Uint \ {0}
  /\ MaxPolicyVersion \in Nat

VARIABLES
  mirror,           \* what the gate knows of the source loan
  creditLimit, policyVersion,
  committedCredit,
  stateVersion,
  processedQueries  \* source transactions admitted so far

gateVars == <<mirror, creditLimit, policyVersion, committedCredit,
              stateVersion, processedQueries>>

Mirror == [initialized : BOOLEAN, principalOpened : Uint,
           totalRepaid : Uint, verifiedDebt : Uint,
           lastSequence : Nat, lastPosition : Position,
           lastSourceTimestamp : Nat]

GateTypeOK ==
  /\ mirror \in Mirror
  /\ creditLimit \in Uint \ {0}
  /\ policyVersion \in Nat
  /\ committedCredit \in Uint
  /\ stateVersion \in Nat
  /\ processedQueries \subseteq Nat \X Nat

GateInit ==
  /\ mirror = [initialized |-> FALSE, principalOpened |-> 0, totalRepaid |-> 0,
               verifiedDebt |-> 0, lastSequence |-> 0,
               lastPosition |-> [block |-> 0, tx |-> 0, log |-> 0],
               lastSourceTimestamp |-> 0]
  /\ creditLimit = InitialLimit
  /\ policyVersion = 1
  /\ committedCredit = 0
  /\ stateVersion = 0
  /\ processedQueries = {}

-----------------------------------------------------------------------------
(* Admission of a receipt. *)
Applicable(log) == log.type \in {"DebtOpened", "DebtRepaid"}

AcceptsOpening(m, log) ==
  /\ ~m.initialized
  /\ log.sequence = 1
  /\ log.amount # 0
  /\ log.outstanding = log.amount

AcceptsRepayment(m, log) ==
  /\ m.initialized
  /\ log.sequence = m.lastSequence + 1
  /\ log.amount # 0
  /\ log.amount <= m.verifiedDebt
  /\ log.cumulativeRepaid = m.totalRepaid + log.amount
  /\ log.cumulativeRepaid <= m.principalOpened
  /\ log.outstanding = m.principalOpened - log.cumulativeRepaid
  /\ log.outstanding = m.verifiedDebt - log.amount
  /\ log.timestamp >= m.lastSourceTimestamp

(* Mutated form: the position forgets the log. *)
PositionOfTx(tx, i) == [block |-> tx.block, tx |-> tx.tx, log |-> 0]

PositionOf(tx, i) == [block |-> tx.block, tx |-> tx.tx, log |-> i - 1]

Accepts(m, tx, i) ==
  /\ m.initialized => IsAfter(PositionOf(tx, i), m.lastPosition)
  /\ IF tx.logs[i].type = "DebtOpened" THEN AcceptsOpening(m, tx.logs[i])
                                       ELSE AcceptsRepayment(m, tx.logs[i])

(* Mutated form: adds the cumulative amount instead of storing it. *)
RepaidAfterAdding(m, log) == m.totalRepaid + log.cumulativeRepaid

RepaidAfter(m, log) ==
  IF log.type = "DebtOpened" THEN m.totalRepaid ELSE log.cumulativeRepaid

(* Mutated form: subtracts the cumulative amount from the last debt. *)
DebtAfterCumulative(m, log) ==
  IF log.type = "DebtOpened" THEN log.outstanding
                             ELSE m.verifiedDebt - log.cumulativeRepaid

DebtAfter(m, log) == log.outstanding

Applied(m, tx, i) ==
  LET log == tx.logs[i]
  IN  [initialized |-> TRUE,
       principalOpened |-> IF log.type = "DebtOpened" THEN log.amount
                                                      ELSE m.principalOpened,
       totalRepaid |-> RepaidAfter(m, log),
       verifiedDebt |-> DebtAfter(m, log),
       lastSequence |-> log.sequence,
       lastPosition |-> PositionOf(tx, i),
       lastSourceTimestamp |-> log.timestamp]

(* Mutated form: only the first applicable log is applied. *)
AdmitFirstLog(turn, tx, i) ==
  IF ~Applicable(tx.logs[i]) \/ turn.count # 0 THEN turn
  ELSE [ok |-> Accepts(turn.mirror, tx, i),
        mirror |-> Applied(turn.mirror, tx, i),
        count |-> 1]

(* One turn of the loop over the logs; a log that is applicable and not *)
(* acceptable reverts the whole submission.                             *)
AdmitLog(turn, tx, i) ==
  IF ~Applicable(tx.logs[i]) THEN turn
  ELSE [ok |-> turn.ok /\ Accepts(turn.mirror, tx, i),
        mirror |-> Applied(turn.mirror, tx, i),
        count |-> turn.count + 1]

(* The loop's state before and after each log of the receipt. *)
Admission(m, tx) ==
  LET turns[i \in 0..Len(tx.logs)] ==
        IF i = 0 THEN [ok |-> TRUE, mirror |-> m, count |-> 0]
                 ELSE AdmitLog(turns[i - 1], tx, i)
  IN  turns

SubmitSourceTransaction(tx) ==
  LET result == Admission(mirror, tx)[Len(tx.logs)]
  IN  /\ <<tx.block, tx.tx>> \notin processedQueries
      /\ tx.status = 1
      /\ result.ok
      /\ result.count # 0
      /\ mirror' = result.mirror
      /\ stateVersion' = stateVersion + result.count
      /\ processedQueries' = processedQueries \cup {<<tx.block, tx.tx>>}
      /\ UNCHANGED <<creditLimit, policyVersion, committedCredit>>

-----------------------------------------------------------------------------
(* Credit. *)
Utilization == mirror.verifiedDebt + committedCredit

(* Mutated form: the debt is forgotten. *)
HeadroomOfCommitments == creditLimit - committedCredit

Headroom == IF Utilization < creditLimit THEN creditLimit - Utilization ELSE 0

(* evaluate(requested).  Arithmetic is checked: a sum beyond uint256 panics *)
(* and the call returns no decision.                                        *)
PanicsNever(requested) == FALSE   \* mutated form: unchecked arithmetic

Panics(requested) ==
  /\ mirror.initialized
  /\ Utilization + requested > MaxUint

DecisionView ==
  [requested : Uint, headroom : Uint, utilization : Uint,
   reason : {"UNINITIALIZED", "ZERO_AMOUNT", "OVER_LIMIT", "ALLOW"},
   stateVersion : Nat, policyVersion : Nat]

Decision(requested) ==
  [requested |-> requested,
   reason |-> CASE ~mirror.initialized -> "UNINITIALIZED"
                [] mirror.initialized /\ requested = 0 -> "ZERO_AMOUNT"
                [] mirror.initialized /\ requested # 0
                   /\ Utilization + requested > creditLimit -> "OVER_LIMIT"
                [] OTHER -> "ALLOW",
   headroom |-> IF mirror.initialized THEN Headroom ELSE 0,
   utilization |-> IF ~mirror.initialized THEN 0
                   ELSE Utilization + requested,
   stateVersion |-> stateVersion,
   policyVersion |-> policyVersion]

CommitCredit(requested, expectedStateVersion, expectedPolicyVersion) ==
  /\ mirror.initialized
  /\ expectedStateVersion = stateVersion
  /\ expectedPolicyVersion = policyVersion
  /\ requested # 0
  /\ Utilization <= MaxUint
  /\ requested <= Headroom
  /\ committedCredit' = committedCredit + requested
  /\ stateVersion' = stateVersion + 1
  /\ UNCHANGED <<mirror, creditLimit, policyVersion, processedQueries>>

(* Mutated form: the policy version is not advanced. *)
SetLimitOnly(newLimit) ==
  /\ newLimit # 0
  /\ creditLimit' = newLimit
  /\ UNCHANGED <<policyVersion, mirror, committedCredit, stateVersion,
                 processedQueries>>

SetPolicy(newLimit) ==
  /\ newLimit # 0
  /\ policyVersion < MaxPolicyVersion
  /\ creditLimit' = newLimit
  /\ policyVersion' = policyVersion + 1
  /\ UNCHANGED <<mirror, committedCredit, stateVersion, processedQueries>>
=============================================================================
