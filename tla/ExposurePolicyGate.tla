------------------------- MODULE ExposurePolicyGate -------------------------
(***************************************************************************)
(* contracts/aggregate/ExposurePolicyGate.sol: credit against the debt of  *)
(* an aggregate ledger.  An allocator reserves credit with the versions    *)
(* and the snapshot of a decision it read; an executor turns a reservation *)
(* into executed credit and records its repayments, each with a proof      *)
(* reference of its own.                                                   *)
(*                                                                         *)
(* The gate reads the ledger through its public getters: the operators     *)
(* below take that reading as the argument "seen" and the block timestamp  *)
(* as "at".  The scope version is immutable and left out.  A commitment no *)
(* longer NONE has an allocator.                                           *)
(***************************************************************************)
EXTENDS EvmTypes, FiniteSets

CONSTANTS
  Accounts, GateOwner,
  Commitments, ProofIds,
  NoUse,             \* a proof reference not used yet
  InitialLimit,
  PolicyLimits,      \* bound: limits the owner chooses from
  MaxPolicyVersion,  \* bound: on the policy versions
  MaxReservationVersion \* bound: reservations, executions and repayments

ProofUse == [kind : {"EXECUTE", "REPAY"}, commitment : Commitments,
             amount : Uint, snapshotId : Nat]

ASSUME GateConstants ==
  /\ IsFiniteSet(Commitments) /\ IsFiniteSet(ProofIds)
  /\ NoUse \notin ProofUse
  /\ GateOwner \in Accounts
  /\ InitialLimit \in Uint \ {0}
  /\ PolicyLimits \subseteq Uint \ {0}
  /\ MaxPolicyVersion \in Nat /\ MaxReservationVersion \in Nat

VARIABLES
  creditLimit, policyVersion,
  allocators, executors,
  reservedCredit, executedCredit,
  reservationVersion,
  reservations,       \* what is left of each commitment, and its snapshot
  reservationStatus,
  proofBinding        \* the use each proof reference is bound to

gateVars == <<creditLimit, policyVersion, allocators, executors,
              reservedCredit, executedCredit, reservationVersion,
              reservations, reservationStatus, proofBinding>>

policyVars == <<creditLimit, policyVersion, allocators, executors>>
creditVars == <<reservedCredit, executedCredit, reservationVersion,
                reservations, reservationStatus, proofBinding>>

Lifecycle == {"NONE", "RESERVED", "EXECUTED", "CLOSED"}

GateTypeOK ==
  /\ creditLimit \in Uint \ {0}
  /\ policyVersion \in Nat
  /\ allocators \subseteq Accounts
  /\ executors \subseteq Accounts
  /\ reservedCredit \in Uint
  /\ executedCredit \in Uint
  /\ reservationVersion \in Nat
  /\ reservations \in [Commitments -> [amount : Uint, snapshotId : Nat]]
  /\ reservationStatus \in [Commitments -> Lifecycle]
  /\ proofBinding \in [ProofIds -> ProofUse \cup {NoUse}]

GateInit ==
  /\ creditLimit = InitialLimit
  /\ policyVersion = 1
  /\ allocators = {GateOwner}
  /\ executors = {}
  /\ reservedCredit = 0
  /\ executedCredit = 0
  /\ reservationVersion = 0
  /\ reservations = [c \in Commitments |-> [amount |-> 0, snapshotId |-> 0]]
  /\ reservationStatus = [c \in Commitments |-> "NONE"]
  /\ proofBinding = [p \in ProofIds |-> NoUse]

-----------------------------------------------------------------------------
(* By the owner. *)
Authorized(members, account, authorized) ==
  IF authorized THEN members \cup {account} ELSE members \ {account}

SetAllocator(account, authorized) ==
  /\ policyVersion < MaxPolicyVersion
  /\ allocators' = Authorized(allocators, account, authorized)
  /\ policyVersion' = policyVersion + 1
  /\ UNCHANGED <<creditLimit, executors, creditVars>>

SetExecutor(account, authorized) ==
  /\ policyVersion < MaxPolicyVersion
  /\ executors' = Authorized(executors, account, authorized)
  /\ policyVersion' = policyVersion + 1
  /\ UNCHANGED <<creditLimit, allocators, creditVars>>

SetPolicy(limit) ==
  /\ policyVersion < MaxPolicyVersion
  /\ creditLimit' = limit
  /\ policyVersion' = policyVersion + 1
  /\ UNCHANGED <<allocators, executors, creditVars>>

-----------------------------------------------------------------------------
(* One number for the state of ledger and gate. *)
VersionOfLedger(seen) == seen.stateVersion   \* mutated form

ExposureStateVersion(seen) == seen.stateVersion + reservationVersion

MinusUnchecked(a, b) == a - b   \* mutated form

Minus(a, b) == IF b >= a THEN 0 ELSE a - b

(* Mutated form: the debt no longer counts. *)
HeadroomOfCredit(seen) ==
  Minus(Minus(creditLimit, reservedCredit), executedCredit)

Headroom(seen) ==
  Minus(Minus(Minus(creditLimit, seen.totalDebt), reservedCredit),
        executedCredit)

FreshUntilExpiry(seen, at) == at <= seen.validUntil   \* mutated form

Fresh(seen, at) == seen.snapshotComplete /\ at <= seen.validUntil

Reason(amount, seen, at) ==
  CASE ~seen.snapshotComplete -> "COVERAGE_INCOMPLETE"
    [] seen.snapshotComplete /\ at > seen.validUntil -> "SNAPSHOT_STALE"
    [] Fresh(seen, at) /\ amount = 0 -> "ZERO_AMOUNT"
    [] Fresh(seen, at) /\ amount # 0 /\ amount > Headroom(seen) -> "OVER_LIMIT"
    [] OTHER -> "ALLOW"

DecisionView ==
  [amount : Uint, totalDebt : Uint, reservedCredit : Uint,
   executedCredit : Uint, headroom : Uint, exposureStateVersion : Nat,
   policyVersion : Nat, snapshotId : Nat,
   reason : {"COVERAGE_INCOMPLETE", "SNAPSHOT_STALE", "ZERO_AMOUNT",
             "OVER_LIMIT", "ALLOW"}]

(* evaluate(amount) *)
Decision(amount, seen, at) ==
  [amount |-> amount,
   reason |-> Reason(amount, seen, at),
   totalDebt |-> seen.totalDebt,
   reservedCredit |-> reservedCredit,
   executedCredit |-> executedCredit,
   headroom |-> Headroom(seen),
   exposureStateVersion |-> ExposureStateVersion(seen),
   policyVersion |-> policyVersion,
   snapshotId |-> seen.snapshotId]

(* d carries what the allocator expects: the versions of a decision it read. *)
Reserve(by, c, d, seen, at) ==
  /\ by \in allocators
  /\ reservationStatus[c] = "NONE"
  /\ reservationVersion < MaxReservationVersion
  /\ d.exposureStateVersion = ExposureStateVersion(seen)
  /\ d.policyVersion = policyVersion
  /\ d.snapshotId = seen.snapshotId
  /\ Reason(d.amount, seen, at) = "ALLOW"
  /\ reservedCredit' = reservedCredit + d.amount
  /\ reservationVersion' = reservationVersion + 1
  /\ reservations' = [reservations EXCEPT
       ![c] = [amount |-> d.amount, snapshotId |-> seen.snapshotId]]
  /\ reservationStatus' = [reservationStatus EXCEPT ![c] = "RESERVED"]
  /\ UNCHANGED <<policyVars, executedCredit, proofBinding>>

(* Mutated forms: a proof reference is used again; the snapshot a commitment *)
(* was reserved under does not matter.                                      *)
MayUseAnyProof(by, c, proof, version, seen, at) ==
  /\ by \in executors
  /\ reservationVersion < MaxReservationVersion
  /\ version = ExposureStateVersion(seen)
  /\ Fresh(seen, at)
  /\ seen.snapshotId = reservations[c].snapshotId

MayUseUnderAnySnapshot(by, c, proof, version, seen, at) ==
  /\ by \in executors
  /\ proofBinding[proof] = NoUse
  /\ reservationVersion < MaxReservationVersion
  /\ version = ExposureStateVersion(seen)
  /\ Fresh(seen, at)

(* What execution and repayment both require. *)
MayUse(by, c, proof, version, seen, at) ==
  /\ by \in executors
  /\ proofBinding[proof] = NoUse
  /\ reservationVersion < MaxReservationVersion
  /\ version = ExposureStateVersion(seen)
  /\ Fresh(seen, at)
  /\ seen.snapshotId = reservations[c].snapshotId

Bind(proof, kind, c, amount) ==
  proofBinding' = [proofBinding EXCEPT
    ![proof] = [kind |-> kind, commitment |-> c, amount |-> amount,
                snapshotId |-> reservations[c].snapshotId]]

ExecuteReservation(by, c, proof, version, seen, at) ==
  /\ MayUse(by, c, proof, version, seen, at)
  /\ reservationStatus[c] = "RESERVED"
  /\ reservedCredit' = reservedCredit - reservations[c].amount
  /\ executedCredit' = executedCredit + reservations[c].amount
  /\ reservationStatus' = [reservationStatus EXCEPT ![c] = "EXECUTED"]
  /\ Bind(proof, "EXECUTE", c, reservations[c].amount)
  /\ reservationVersion' = reservationVersion + 1
  /\ UNCHANGED <<policyVars, reservations>>

(* Mutated form: a commitment that is paid off stays open. *)
StatusAfterAny(c, amount) == reservationStatus[c]

StatusAfter(c, amount) ==
  IF reservations[c].amount = amount THEN "CLOSED" ELSE reservationStatus[c]

RepayExecution(by, c, amount, proof, version, seen, at) ==
  /\ MayUse(by, c, proof, version, seen, at)
  /\ reservationStatus[c] = "EXECUTED"
  /\ amount # 0
  /\ amount <= reservations[c].amount
  /\ reservations' = [reservations EXCEPT ![c].amount = @ - amount]
  /\ executedCredit' = executedCredit - amount
  /\ Bind(proof, "REPAY", c, amount)
  /\ reservationStatus' = [reservationStatus EXCEPT ![c] = StatusAfter(c, amount)]
  /\ reservationVersion' = reservationVersion + 1
  /\ UNCHANGED <<policyVars, reservedCredit>>
=============================================================================
