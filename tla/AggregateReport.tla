--------------------------- MODULE AggregateReport ---------------------------
(***************************************************************************)
(* The status report of ledger and gate (src/aggregate-view.js), all of it *)
(* read at one block, and what the page (ui/aggregate.js) checks before it *)
(* shows one: it works out again, from the reported sources, what the      *)
(* contracts decided.                                                      *)
(***************************************************************************)
EXTENDS AggregateExposure, ExposurePolicyGate

(* The public getters of the ledger. *)
Reading == [stateVersion |-> ledger.stateVersion,
            totalDebt |-> ledger.totalDebt,
            snapshotId |-> snapshot.epoch,
            snapshotComplete |-> SnapshotComplete,
            validUntil |-> snapshot.validUntil]

SourceReport(s) ==
  LET state == ledger.sources[s]
  IN  [debt |-> state.totals.totalIssued - state.totals.totalRepaid,
       events |-> state.totals.eventCount,
       sealedSource |-> state.sealedSource,
       checkpointEpoch |-> state.checkpointEpoch,
       checkpointEvents |-> state.checkpointEventCount]

TargetEpoch ==
  Max({1, snapshot.epoch} \cup {ledger.sources[s].checkpointEpoch : s \in Registered})

CollectAggregateStatus(amount) ==
  [decision |-> Decision(amount, Reading, now),
   reading |-> Reading, limit |-> creditLimit, timestamp |-> now,
   targetEpoch |-> TargetEpoch,
   sources |-> [s \in Registered |-> SourceReport(s)]]

-----------------------------------------------------------------------------
CoveredIn(r, s) ==
  /\ r.sources[s].sealedSource
  /\ r.sources[s].checkpointEpoch = r.targetEpoch
  /\ r.sources[s].checkpointEpoch >= EffectiveEpoch[s]
  /\ r.sources[s].checkpointEvents = r.sources[s].events

(* Mutated form: executed credit is left out. *)
AvailableToReserve(r) ==
  LET used == r.decision.totalDebt + r.decision.reservedCredit
  IN  IF r.limit > used THEN r.limit - used ELSE 0

Available(r) ==
  LET used == r.decision.totalDebt + r.decision.reservedCredit + r.decision.executedCredit
  IN  IF r.limit > used THEN r.limit - used ELSE 0

ReasonIn(r) ==
  IF ~r.reading.snapshotComplete THEN "COVERAGE_INCOMPLETE"
  ELSE IF r.timestamp > r.reading.validUntil THEN "SNAPSHOT_STALE"
  ELSE IF r.decision.amount = 0 THEN "ZERO_AMOUNT"
  ELSE IF r.decision.amount > Available(r) THEN "OVER_LIMIT" ELSE "ALLOW"

(* deriveAggregateView does not throw. *)
PageShows(r) ==
  /\ \A s \in Registered :
       r.sources[s].debt >= 0 /\ r.sources[s].checkpointEvents <= r.sources[s].events
  /\ FoldFunction(+, 0, [s \in Registered |-> r.sources[s].debt]) = r.decision.totalDebt
  /\ r.reading.snapshotComplete =>
       r.reading.snapshotId = r.targetEpoch /\ \A s \in Registered : CoveredIn(r, s)
  /\ r.decision.headroom = Available(r)
  /\ r.decision.reason = ReasonIn(r)

(* The page shows every report of the contracts' state, with the gate's own *)
(* decision and headroom, whatever was ingested, certified, reserved,       *)
(* executed and repaid before, as long as no two sources report one debt:   *)
(* it adds the sources up (ui/aggregate.js:29), the ledger counts aliases   *)
(* once.                                                                    *)
PageShowsEveryReport ==
  (\A d \in Debts : canonicalIds[d] = Unset)
    => \A amount \in Uint : PageShows(CollectAggregateStatus(amount))
=============================================================================
