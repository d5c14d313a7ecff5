------------------------- MODULE AggregateExposure -------------------------
(***************************************************************************)
(* Sources, ledger and the two clocks.  Anyone relays finished source      *)
(* transactions, in any order and any number of times, and anyone asks     *)
(* for a snapshot; the ledger's owner relates debts.  The clocks of the    *)
(* source chain and of the ledger's chain advance independently.           *)
(***************************************************************************)
EXTENDS MultiLoanLedger

CONSTANT MaxNow   \* bound: timestamps of the ledger's chain

ASSUME NowBound == MaxNow \in Nat

VARIABLE now   \* block.timestamp of the ledger's chain

exposureVars == <<sourceVars, ledgerVars, now>>

ExposureInit ==
  /\ SourceInit
  /\ LedgerInit
  /\ now = 1

Source == SourceNext /\ UNCHANGED <<ledgerVars, now>>

Relay ==
  /\ \E i \in 1..Len(receipts) : SubmitSourceTransaction(i, receipts[i], now)
  /\ UNCHANGED <<sourceVars, now>>

Relate ==
  /\ \E debt \in Debts, canonicalId \in RelationTargets :
       SetDebtRelation(debt, canonicalId)
  /\ UNCHANGED <<sourceVars, now>>

Finalize ==
  /\ \E s \in Registered :
       FinalizeSnapshot(ledger.sources[s].checkpointEpoch, now)
  /\ UNCHANGED <<sourceVars, now>>

Tick ==
  /\ now < MaxNow
  /\ now' = now + 1
  /\ UNCHANGED <<sourceVars, ledgerVars>>

ExposureNext == Source \/ Relay \/ Relate \/ Finalize \/ Tick

ExposureSpec == ExposureInit /\ [][ExposureNext]_exposureVars

(* The chain finishes the transactions it starts, the ledger's clock goes  *)
(* on, and some relayer goes on submitting what the ledger would apply.    *)
FairExposureSpec ==
  /\ ExposureSpec
  /\ WF_exposureVars(EndTransaction /\ UNCHANGED <<ledgerVars, now>>)
  /\ WF_exposureVars(Tick)
  /\ WF_exposureVars(Relay)
=============================================================================
