-------------------------- MODULE AggregateCredit --------------------------
(***************************************************************************)
(* The whole aggregate system: sources, ledger and policy gate.  The       *)
(* ledger takes the place of ExposureReading's promise.                    *)
(***************************************************************************)
EXTENDS AggregateProps, AggregateReport

CONSTANTS
  Holders, NoDecision,
  MaxLedgerVersion   \* bound: state versions

(* As many as logs can be applied. *)
ASSUME LedgerVersions ==
  MaxLedgerVersion \in Nat /\ MaxTxs * MaxTxLogs <= MaxLedgerVersion

VARIABLE held

systemVars == <<exposureVars, gateVars, held>>

Credit == INSTANCE ExposureCredit WITH reading <- Reading

SystemInit ==
  /\ ExposureInit
  /\ GateInit
  /\ held = [h \in Holders |-> NoDecision]

SystemNext ==
  \/ ExposureNext /\ UNCHANGED <<gateVars, held>>
  \/ UNCHANGED exposureVars /\ Credit!GateStep

SystemSpec == SystemInit /\ [][SystemNext]_systemVars

-----------------------------------------------------------------------------
(* Sources and ledger together keep the promise the gate relies on, so what *)
(* holds of the gate over any such ledger holds of the system.              *)
KeepsThePromise == Credit!CreditSpec

(* Credit is reserved only if the limit covers the debt the borrowers       *)
(* really carry at the sources, ingested or not, next to all other credit.  *)
ReservationsCoverTrueDebt ==
  [][reservedCredit' > reservedCredit
       => TrueDebt + reservedCredit' + executedCredit' <= creditLimit]_systemVars

(* No credit is reserved, executed or repaid on sources of which the ledger *)
(* knows later events than their last checkpoint, or whose checkpoint is    *)
(* older than MaxAge.                                                       *)
CreditOnFreshCoverage ==
  [][reservationVersion' # reservationVersion
       => \A s \in Registered :
            /\ ledger.sources[s].checkpointEventCount
                 = ledger.sources[s].totals.eventCount
            /\ now <= ledger.sources[s].checkpointTimestamp + MaxAge]_systemVars
=============================================================================
