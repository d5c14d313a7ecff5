-------------------------- MODULE ExposureReading --------------------------
(***************************************************************************)
(* What a ledger promises to those who read it, whatever it is built from: *)
(* the debt changes only together with the state version; a snapshot has   *)
(* an identifier of its own, certifies the state it is taken in, stops     *)
(* being complete with the next change for good, and is valid for at most  *)
(* MaxAge.  MultiLoanLedger keeps this promise (run aggregate_credit).     *)
(***************************************************************************)
EXTENDS EvmTypes

CONSTANTS
  MaxAge,
  MaxEpoch,          \* bound: snapshots
  MaxLedgerVersion,  \* bound: state versions
  MaxNow             \* bound: timestamps

ASSUME ReadingConstants ==
  /\ MaxAge \in Nat \ {0} /\ MaxEpoch \in Nat
  /\ MaxLedgerVersion \in Nat /\ MaxNow \in Nat

VARIABLES
  reading,  \* the public getters of the ledger
  now       \* block.timestamp

readingVars == <<reading, now>>

LedgerReading == [stateVersion : Nat, totalDebt : Uint, snapshotId : Nat,
                  snapshotComplete : BOOLEAN, validUntil : Nat]

ReadingInit ==
  /\ reading = [stateVersion |-> 0, totalDebt |-> 0, snapshotId |-> 0,
                snapshotComplete |-> FALSE, validUntil |-> 0]
  /\ now = 1

Ingest ==
  /\ \E version \in (reading.stateVersion + 1)..MaxLedgerVersion, debt \in Uint :
       reading' = [reading EXCEPT !.stateVersion = version,
                                  !.totalDebt = debt,
                                  !.snapshotComplete = FALSE]
  /\ UNCHANGED now

Certify ==
  /\ \E id \in (reading.snapshotId + 1)..MaxEpoch, expiry \in now..(now + MaxAge) :
       reading' = [reading EXCEPT !.snapshotId = id,
                                  !.snapshotComplete = TRUE,
                                  !.validUntil = expiry]
  /\ UNCHANGED now

Pass ==
  /\ now < MaxNow
  /\ now' = now + 1
  /\ UNCHANGED reading

ReadingNext == Ingest \/ Certify \/ Pass
=============================================================================
