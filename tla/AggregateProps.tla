--------------------------- MODULE AggregateProps ---------------------------
(***************************************************************************)
(* What the ledger must guarantee about the sources.  The reference        *)
(* definitions read a source's history as a list of events.                *)
(***************************************************************************)
EXTENDS AggregateExposure

TypeOK == SourceTypeOK /\ LedgerTypeOK /\ now \in Nat

-----------------------------------------------------------------------------
(* The source after the events of "history", told from the events alone. *)
SumOf(f) == FoldFunction(+, 0, f)

EventsOf(history, id) == {k \in 1..Len(history) : history[k].loanId = id}

LoanAfter(history, id) ==
  IF EventsOf(history, id) = {} THEN NoLoan
  ELSE history[Max(EventsOf(history, id))].loan

SourceAfter(history) ==
  [loans |-> [id \in LoanIds |-> LoanAfter(history, id)],
   loanCount |-> Cardinality({history[k].loanId : k \in 1..Len(history)}),
   totalIssued |-> SumOf([id \in LoanIds |-> LoanAfter(history, id).principal]),
   totalRepaid |-> SumOf([id \in LoanIds |-> LoanAfter(history, id).repaid])]

SourceHistory(s) ==
  LET history == books[s].totals.historyRoot
  IN  [k \in 1..Len(history) |-> SourceAfter(SubSeq(history, 1, k))]

LedgerView(s) ==
  LET totals == ledger.sources[s].totals
  IN  [loans |-> [id \in LoanIds |-> ledger.loans[<<s, id>>]],
       loanCount |-> totals.loanCount, totalIssued |-> totals.totalIssued,
       totalRepaid |-> totals.totalRepaid]

Replica(s) == INSTANCE LaggedReplica WITH
  Nothing <- SourceAfter(<<>>), published <- SourceHistory(s),
  position <- ledger.sources[s].totals.eventCount, shown <- LedgerView(s)

(* However proofs of several sources are ordered, repeated, batched or      *)
(* withheld, each source appears in the ledger as it was after some prefix  *)
(* of its events, and only moves forward (_applyLoan).                      *)
MirrorsEverySource ==
  /\ \A s \in Registered : Replica(s)!Init
  /\ [][\A s \in Registered : [Replica(s)!Next]_(Replica(s)!replicaVars)
       ]_exposureVars

-----------------------------------------------------------------------------
(* The debt behind a canonical id is the smallest balance of its aliases:  *)
(* a repayment one of them reports has happened.                           *)
UniqueDebts(loanOf) ==
  LET opened == {d \in Debts : loanOf[d].sequence # 0}
      ids    == {CanonicalDebtId(d) : d \in opened}
      debt[c \in ids] ==
        Min({loanOf[d].outstanding : d \in {e \in opened : CanonicalDebtId(e) = c}})
  IN  debt

UniqueDebtOf(loanOf) == SumOf(UniqueDebts(loanOf))

(* totalDebt counts every unique debt once, whatever the order in which its *)
(* aliases arrive and repay, and however relations are set in between.      *)
CountsEachDebtOnce == ledger.totalDebt = UniqueDebtOf(ledger.loans)

(* The debt the sources really carry, ingested or not. *)
TrueDebt == UniqueDebtOf([d \in Debts |-> loans[d[1]][d[2]]])

(* Once every source's seal is proven, nothing not yet ingested can make    *)
(* the aggregate larger: late proofs may overstate the debt, never          *)
(* understate it (the sealed flag and count checks of _applyCheckpoint).    *)
SealedNeverUnderstated ==
  (\A s \in Registered : ledger.sources[s].sealedSource)
    => TrueDebt <= ledger.totalDebt

(* While a snapshot is complete the ledger is, source by source, what that  *)
(* source's checkpoint of the snapshot's epoch committed to, and none of    *)
(* these checkpoints is older than validUntil allows.                       *)
SnapshotCoversSources ==
  SnapshotComplete =>
    \A s \in Registered : \E i \in 1..Len(receipts) :
      \E j \in 1..Len(receipts[i]) :
        LET log == receipts[i][j]
        IN  /\ log.type = "Checkpoint" /\ log.emitter = s
            /\ log.epoch = snapshot.epoch
            /\ log.totals = ledger.sources[s].totals
            /\ snapshot.validUntil <= log.timestamp + MaxAge

(* An event that shares a transaction with a checkpoint of another source   *)
(* is kept out for good once a later checkpoint or event of that source is  *)
(* proven first (_applyCheckpoint): its transaction can only revert.        *)
Overtaken(log) ==
  LET state == ledger.sources[log.emitter]
  IN \/ log.epoch <= state.checkpointEpoch
     \/ log.totals.eventCount < state.totals.eventCount

CheckpointOvertaken ==
  \E i \in (1..Len(receipts)) \ processedQueries :
    \E j, k \in 1..Len(receipts[i]) :
      LET log == receipts[i][j]
          event == receipts[i][k]
      IN  /\ log.type = "Checkpoint" /\ log.emitter \in Registered /\ Overtaken(log)
          /\ event.type = "LoanState" /\ event.emitter \in Registered \ {log.emitter}

(* So are openings with other terms than those its canonical debt has       *)
(* already, and those that take the debt beyond uint256 (_applyLoan).       *)
OpeningRefused ==
  \/ \E d, e \in Debts :
       LET first == loans[d[1]][d[2]]
           second == loans[e[1]][e[2]]
       IN  /\ first.sequence # 0 /\ second.sequence # 0
           /\ CanonicalDebtId(d) = CanonicalDebtId(e) /\ ~SameDebt(first, second)
  \/ SumOf([s \in Registered |-> books[s].totals.totalIssued]) > MaxUint

(* The ledger catches up with every registered source again and again,      *)
(* whatever is relayed first, unless one of these happens.  A source emits  *)
(* at most an opening and one event for each unit repaid of a loan, so      *)
(* every event is ingested in time.                                         *)
EverySourceCatchesUp ==
  []<>( \/ \A s \in Registered :
             ledger.sources[s].totals.eventCount = books[s].totals.eventCount
        \/ CheckpointOvertaken \/ OpeningRefused )

-----------------------------------------------------------------------------
(* The inductive invariant behind these properties.  What is said of the   *)
(* ledger is said of a value L, since it also holds between two logs of    *)
(* one receipt.                                                            *)

(* The source chain. *)
HistoryOf(s) == books[s].totals.historyRoot

ViewOf(loanOf, totals) ==
  [loans |-> loanOf, loanCount |-> totals.loanCount,
   totalIssued |-> totals.totalIssued, totalRepaid |-> totals.totalRepaid]

Balanced(loan) == loan.repaid + loan.outstanding = loan.principal

(* A loan only loses debt after the event that reported "earlier". *)
Follows(later, earlier) ==
  /\ later.sequence # 0 /\ earlier.sequence # 0
  /\ later.principal = earlier.principal
  /\ later.repaid >= earlier.repaid
  /\ later.outstanding <= earlier.outstanding

(* A source's storage is what its events tell, and no event of a loan       *)
(* reported less debt than is left.                                         *)
SourceFits(loanOf, book) ==
  LET history == book.totals.historyRoot
  IN  /\ ViewOf(loanOf, book.totals) = SourceAfter(history)
      /\ book.totals.eventCount = Len(history)
      /\ book.epoch <= MaxEpoch
      /\ \A id \in LoanIds : Balanced(loanOf[id])
      /\ \A k \in 1..Len(history) :
           /\ history[k].loan.eventSequence = k
           /\ Follows(loanOf[history[k].loanId], history[k].loan)

ChainInv == \A s \in Sources : SourceFits(loans[s], books[s])

(* Where a log comes from: an event of its emitter's history, or a           *)
(* checkpoint taken after the seal, hence after the last opening.           *)
Genuine(log, loanOf, book) ==
  /\ log.type = "LoanState" =>
       LET history == book.totals.historyRoot
       IN  /\ log.loan.eventSequence \in 1..Len(history)
           /\ history[log.loan.eventSequence]
                = [loanId |-> log.loanId, loan |-> log.loan]
  /\ log.type = "Checkpoint" =>
       /\ book.sealedSource
       /\ log.epoch <= MaxEpoch
       /\ \A id \in LoanIds : loanOf[id].sequence # 0
            => EventsOf(log.totals.historyRoot, id) # {}

GenuineLogs(logs) ==
  \A j \in 1..Len(logs) :
    Genuine(logs[j], loans[logs[j].emitter], books[logs[j].emitter])

LogsInv ==
  /\ GenuineLogs(txLogs)
  /\ \A i \in 1..Len(receipts) : GenuineLogs(receipts[i])
  /\ Len(receipts) <= MaxTxs /\ Len(txLogs) <= MaxTxLogs
  /\ txLogs # <<>> => Len(receipts) < MaxTxs
  /\ \A i \in 1..Len(receipts) : Len(receipts[i]) <= MaxTxLogs

-----------------------------------------------------------------------------
(* The ledger. *)
LoansOf(L, s) == [id \in LoanIds |-> L.loans[<<s, id>>]]

(* It knows the first events of a source, and what they tell. *)
MirrorFits(loanOf, totals, history) ==
  LET known == totals.historyRoot
  IN  /\ totals.eventCount = Len(known)
      /\ Len(known) <= Len(history)
      /\ \A k \in 1..Len(known) : known[k] = history[k]
      /\ ViewOf(loanOf, totals) = SourceAfter(known)

Mirrored(L, s) == MirrorFits(LoansOf(L, s), L.sources[s].totals, HistoryOf(s))

(* Checkpoints ingested: the last one is on the source chain, covers every  *)
(* loan the source will ever open, and equals the ledger's own totals until *)
(* the next event is ingested.                                              *)
LastCheckpoint(L, s, log) ==
  LET state == L.sources[s]
  IN  /\ log.type = "Checkpoint" /\ log.emitter = s
      /\ log.epoch = state.checkpointEpoch
      /\ log.timestamp = state.checkpointTimestamp
      /\ state.totals.eventCount = state.checkpointEventCount
           => log.totals = state.totals

Checkpointed(L, s) ==
  /\ L.sources[s].checkpointEventCount <= L.sources[s].totals.eventCount
  /\ L.sources[s].sealedSource =>
    /\ books[s].sealedSource
    /\ \A id \in LoanIds :
         loans[s][id].sequence # 0 => L.loans[<<s, id>>].sequence # 0
    /\ L.sources[s].checkpointEpoch <= MaxEpoch
    /\ L.sources[s].checkpointTimestamp <= now
    /\ \E i \in 1..Len(receipts) : \E j \in 1..Len(receipts[i]) :
         LastCheckpoint(L, s, receipts[i][j])

Opened(loanOf) == {d \in Debts : loanOf[d].sequence # 0}

AliasesOf(loanOf, c) == {d \in Opened(loanOf) : CanonicalDebtId(d) = c}

(* The canonical debt is the least its opened aliases report. *)
CanonicalFits(L, c) ==
  LET aliases == AliasesOf(L.loans, c)
      least   == L.canonical[c].outstanding
  IN  IF aliases = {} THEN L.canonical[c] = NoLoan
      ELSE /\ L.canonical[c].sequence # 0
           /\ \E d \in aliases : L.loans[d].outstanding = least
           /\ \A d \in aliases : least <= L.loans[d].outstanding

DebtsFit(L) ==
  /\ Opened(L.loans) \subseteq L.relationLocked
  /\ \A d \in Debts : Balanced(L.loans[d])
  /\ \A c \in CanonicalIds : CanonicalFits(L, c)
  /\ L.totalDebt = UniqueDebtOf(L.loans)

LedgerFits(L) ==
  /\ L \in Ledger
  /\ \A s \in Registered : Mirrored(L, s) /\ Checkpointed(L, s)
  /\ DebtsFit(L)

-----------------------------------------------------------------------------
(* A complete snapshot is level with the checkpoints it was taken from. *)
SnapshotInv ==
  /\ snapshot.epoch <= MaxEpoch
  /\ snapshot.stateVersion <= ledger.stateVersion
  /\ SnapshotComplete => \A s \in Registered :
       /\ Covered(s, snapshot.epoch)
       /\ snapshot.validUntil <= ledger.sources[s].checkpointTimestamp + MaxAge

(* The state version counts logs, each receipt being applied once. *)
VersionInv ==
  /\ processedQueries \subseteq 1..Len(receipts)
  /\ ledger.stateVersion <= Cardinality(processedQueries) * MaxTxLogs

(* What the sources report, what the ledger made of it, and what a          *)
(* snapshot certifies: what the proofs carry from step to step.             *)
IInv ==
  /\ TypeOK
  /\ ChainInv
  /\ LogsInv
  /\ LedgerFits(ledger)
  /\ SnapshotInv
  /\ VersionInv
=============================================================================
