-------------------------- MODULE MultiLoanLedger --------------------------
(***************************************************************************)
(* contracts/aggregate/MultiLoanLedger.sol over the fixed scope of         *)
(* contracts/aggregate/ExposureScopeRegistry.sol: rebuilds the loans of    *)
(* every registered source from proven receipts, counts aliases of one     *)
(* debt once, and certifies with a snapshot that all sources are covered.  *)
(*                                                                         *)
(* The native verifier is external: the composing module passes receipts   *)
(* the source chain holds.  Registered emitters are SealedLoanSource       *)
(* contracts, whose logs have two topics and a unit the registry fixed.    *)
(* snapshotId hashes the epoch with state the epoch determines, and epochs *)
(* of snapshots strictly increase: the epoch stands for the id.  The       *)
(* relation type (REPRESENTS, WRAPS) and checkpointPosition are read by no *)
(* guard and left out.                                                     *)
(***************************************************************************)
EXTENDS SealedLoanSource, FiniteSetsExt

CONSTANTS
  Registered,      \* the sources of the scope: all are mandatory
  EffectiveEpoch,  \* EffectiveEpoch[s]: first epoch s counts in
  SharedDebts,     \* canonical ids of no debt of their own
  RelationTargets, \* bound: canonical ids the owner chooses from
  Unset,           \* no relation
  MaxAge           \* validity of a snapshot after its oldest checkpoint

Debts == Registered \X LoanIds
CanonicalIds == Debts \cup SharedDebts

(* A scope names at least one source, each once and with a first epoch. *)
ValidScope ==
  /\ Registered \subseteq Sources /\ Registered # {}
  /\ IsFiniteSet(Registered)
  /\ EffectiveEpoch \in [Registered -> Nat \ {0}]

ASSUME LedgerConstants ==
  /\ ValidScope
  /\ Unset \notin CanonicalIds
  /\ RelationTargets \subseteq CanonicalIds
  /\ MaxAge \in Nat \ {0}

VARIABLES
  ledger,           \* what submissions change
  canonicalIds,     \* relations set by the ledger's owner
  snapshot,         \* the last finalized snapshot
  processedQueries  \* transactions applied so far

ledgerVars == <<ledger, canonicalIds, snapshot, processedQueries>>

SourceState == [totals : Totals, lastPosition : Position,
                lastTimestamp : Nat, seen : BOOLEAN, sealedSource : BOOLEAN,
                checkpointEpoch : Nat, checkpointEventCount : Nat,
                checkpointTimestamp : Nat]

NewSourceState ==
  [totals |-> NoTotals, lastPosition |-> [block |-> 0, tx |-> 0, log |-> 0],
   lastTimestamp |-> 0, seen |-> FALSE, sealedSource |-> FALSE,
   checkpointEpoch |-> 0, checkpointEventCount |-> 0,
   checkpointTimestamp |-> 0]

Ledger == [sources : [Registered -> SourceState],
           loans : [Debts -> Loan],
           canonical : [CanonicalIds -> Loan],
           relationLocked : SUBSET Debts,
           totalDebt : Uint, stateVersion : Nat]

LedgerTypeOK ==
  /\ ledger \in Ledger
  /\ canonicalIds \in [Debts -> CanonicalIds \cup {Unset}]
  /\ snapshot \in [epoch : Nat, stateVersion : Nat, validUntil : Nat]
  /\ processedQueries \subseteq Nat

LedgerInit ==
  /\ ledger = [sources |-> [s \in Registered |-> NewSourceState],
               loans |-> [d \in Debts |-> NoLoan],
               canonical |-> [c \in CanonicalIds |-> NoLoan],
               relationLocked |-> {},
               totalDebt |-> 0, stateVersion |-> 0]
  /\ canonicalIds = [d \in Debts |-> Unset]
  /\ snapshot = [epoch |-> 0, stateVersion |-> 0, validUntil |-> 0]
  /\ processedQueries = {}

-----------------------------------------------------------------------------
(* Aliases of one debt share its canonical id; others are debts of their own. *)
CanonicalDebtId(debt) ==
  IF canonicalIds[debt] = Unset THEN debt ELSE canonicalIds[debt]

(* One log of a receipt. *)
Applicable(log) ==
  log.emitter \in Registered /\ log.type \in {"LoanState", "Checkpoint"}

(* Mutated form: the position forgets the log. *)
PositionOfTx(query, i) == [block |-> query, tx |-> 0, log |-> 0]

PositionOf(query, i) == [block |-> query, tx |-> 0, log |-> i - 1]

SameDebt(next, known) ==
  next.principal = known.principal /\ next.parties = known.parties

AcceptsOpening(L, debt, next) ==
  LET known == L.canonical[CanonicalDebtId(debt)]
  IN  /\ ~L.sources[debt[1]].sealedSource
      /\ next.repaid = 0
      /\ next.outstanding = next.principal
      /\ IF known.sequence = 0
         THEN L.totalDebt + next.principal <= MaxUint
         ELSE SameDebt(next, known) /\ next.outstanding >= known.outstanding

AcceptsRepayment(L, debt, next) ==
  LET previous == L.loans[debt]
  IN  /\ SameDebt(next, previous)
      /\ next.repaid > previous.repaid
      /\ next.repaid <= next.principal
      /\ next.outstanding = next.principal - next.repaid
      /\ SameDebt(next, L.canonical[CanonicalDebtId(debt)])

(* _applyLoan's guards. *)
AcceptsLoan(L, log, now) ==
  LET state == L.sources[log.emitter]
      debt  == <<log.emitter, log.loanId>>
      next  == log.loan
  IN  /\ next.eventSequence = state.totals.eventCount + 1
      /\ next.sequence = L.loans[debt].sequence + 1
      /\ next.timestamp >= state.lastTimestamp
      /\ next.timestamp <= now
      /\ IF L.loans[debt].sequence = 0 THEN AcceptsOpening(L, debt, next)
                                       ELSE AcceptsRepayment(L, debt, next)

(* Mutated form: a checkpoint need not cover the events ingested so far. *)
AcceptsAnyCheckpoint(L, log, now) ==
  LET state == L.sources[log.emitter]
  IN  /\ log.epoch > state.checkpointEpoch
      /\ log.sealedSource
      /\ log.timestamp >= state.lastTimestamp
      /\ log.timestamp <= now

(* _applyCheckpoint's guards. *)
AcceptsCheckpoint(L, log, now) ==
  LET state == L.sources[log.emitter]
  IN  /\ log.epoch > state.checkpointEpoch
      /\ log.sealedSource
      /\ log.totals = state.totals
      /\ log.timestamp >= state.lastTimestamp
      /\ log.timestamp <= now

Accepts(L, query, log, i, now) ==
  /\ L.sources[log.emitter].seen =>
       IsAfter(PositionOf(query, i), L.sources[log.emitter].lastPosition)
  /\ IF log.type = "LoanState" THEN AcceptsLoan(L, log, now)
                               ELSE AcceptsCheckpoint(L, log, now)

(* Mutated form: the last event decides. *)
CanonicalAfterLast(known, next) == next

(* The canonical debt after an event of one of its aliases. *)
CanonicalAfter(known, next) ==
  IF known.sequence = 0 \/ next.outstanding < known.outstanding
  THEN next ELSE known

(* Unique debt after an event: only the canonical debt counts. *)
DebtAfter(L, debt, next) ==
  LET known == L.canonical[CanonicalDebtId(debt)]
  IN  L.totalDebt + CanonicalAfter(known, next).outstanding - known.outstanding

(* Mutated form: a source's repayments count by their effect on unique debt. *)
TotalsAfterUnique(L, debt, log) ==
  LET totals   == L.sources[debt[1]].totals
      previous == L.loans[debt]
      opened   == previous.sequence = 0
      next     == log.loan
  IN  [loanCount |-> totals.loanCount + (IF opened THEN 1 ELSE 0),
       eventCount |-> next.eventSequence,
       historyRoot |-> Append(totals.historyRoot,
                              [loanId |-> log.loanId, loan |-> next]),
       totalIssued |-> totals.totalIssued + (IF opened THEN next.principal ELSE 0),
       totalRepaid |-> totals.totalRepaid
                         + (IF opened THEN 0
                            ELSE L.totalDebt - DebtAfter(L, debt, next))]

(* The source's own totals, which checkpoints are compared with. *)
TotalsAfter(L, debt, log) ==
  LET totals   == L.sources[debt[1]].totals
      previous == L.loans[debt]
      opened   == previous.sequence = 0
      next     == log.loan
  IN  [loanCount |-> totals.loanCount + (IF opened THEN 1 ELSE 0),
       eventCount |-> next.eventSequence,
       historyRoot |-> Append(totals.historyRoot,
                              [loanId |-> log.loanId, loan |-> next]),
       totalIssued |-> totals.totalIssued + (IF opened THEN next.principal ELSE 0),
       totalRepaid |-> totals.totalRepaid + (next.repaid - previous.repaid)]

LoanApplied(L, log) ==
  LET s    == log.emitter
      debt == <<s, log.loanId>>
      id   == CanonicalDebtId(debt)
  IN  [L EXCEPT
         !.sources[s].totals = TotalsAfter(L, debt, log),
         !.sources[s].lastTimestamp = log.loan.timestamp,
         !.loans[debt] = log.loan,
         !.canonical[id] = CanonicalAfter(@, log.loan),
         !.relationLocked = @ \cup {debt},
         !.totalDebt = DebtAfter(L, debt, log.loan)]

CheckpointApplied(L, log) ==
  [L EXCEPT !.sources[log.emitter] =
     [@ EXCEPT !.sealedSource = TRUE,
               !.checkpointEpoch = log.epoch,
               !.checkpointEventCount = log.totals.eventCount,
               !.checkpointTimestamp = log.timestamp,
               !.lastTimestamp = log.timestamp]]

Applied(L, query, log, i) ==
  LET changed == IF log.type = "LoanState" THEN LoanApplied(L, log)
                                           ELSE CheckpointApplied(L, log)
  IN  [changed EXCEPT !.sources[log.emitter].lastPosition = PositionOf(query, i),
                      !.sources[log.emitter].seen = TRUE,
                      !.stateVersion = @ + 1]

-----------------------------------------------------------------------------
(* One turn of the loop over a receipt's logs; a log that is applicable and *)
(* not acceptable reverts the whole submission.                             *)
SubmitLog(turn, query, log, i, now) ==
  IF ~Applicable(log) THEN turn
  ELSE IF turn.ok /\ Accepts(turn.ledger, query, log, i, now)
  THEN [ok |-> TRUE, applied |-> turn.applied + 1,
        ledger |-> Applied(turn.ledger, query, log, i)]
  ELSE [turn EXCEPT !.ok = FALSE]

(* The loop's state before and after each log. *)
Submission(query, logs, now) ==
  LET turns[i \in 0..Len(logs)] ==
        IF i = 0 THEN [ok |-> TRUE, applied |-> 0, ledger |-> ledger]
                 ELSE SubmitLog(turns[i - 1], query, logs[i], i, now)
  IN  turns

SubmitSourceTransaction(query, logs, now) ==
  LET result == Submission(query, logs, now)[Len(logs)]
  IN  /\ query \notin processedQueries
      /\ result.ok
      /\ result.applied # 0
      /\ ledger' = result.ledger
      /\ processedQueries' = processedQueries \cup {query}
      /\ UNCHANGED <<canonicalIds, snapshot>>

(* By the owner, once per debt and before its first event. *)
SetDebtRelation(debt, canonicalId) ==
  /\ debt \notin ledger.relationLocked
  /\ canonicalIds[debt] = Unset
  /\ canonicalIds' = [canonicalIds EXCEPT ![debt] = canonicalId]
  /\ UNCHANGED <<ledger, snapshot, processedQueries>>

-----------------------------------------------------------------------------
(* Snapshots. *)
SnapshotTaken == snapshot.epoch # 0   \* mutated form

SnapshotComplete ==
  snapshot.epoch # 0 /\ snapshot.stateVersion = ledger.stateVersion

(* Mutated form: a source may be ahead of the epoch or have later events. *)
CoveredAtLeast(s, epoch) ==
  /\ epoch >= EffectiveEpoch[s]
  /\ ledger.sources[s].sealedSource
  /\ ledger.sources[s].checkpointEpoch >= epoch

Covered(s, epoch) ==
  /\ epoch >= EffectiveEpoch[s]
  /\ ledger.sources[s].sealedSource
  /\ ledger.sources[s].checkpointEpoch = epoch
  /\ ledger.sources[s].checkpointEventCount = ledger.sources[s].totals.eventCount

(* The timestamps of the checkpoints a snapshot rests on. *)
CheckpointTimes == {ledger.sources[s].checkpointTimestamp : s \in Registered}

OldestCheckpoint == Min(CheckpointTimes)

(* By anyone. *)
FinalizeSnapshot(epoch, now) ==
  /\ epoch > snapshot.epoch
  /\ \A s \in Registered : Covered(s, epoch)
  /\ now <= OldestCheckpoint + MaxAge
  /\ snapshot' = [epoch |-> epoch, stateVersion |-> ledger.stateVersion,
                  validUntil |-> OldestCheckpoint + MaxAge]
  /\ UNCHANGED <<ledger, canonicalIds, processedQueries>>
=============================================================================
