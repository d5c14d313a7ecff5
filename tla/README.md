# Proof-to-Credit: TLA+ models, model checking and proofs

The repository lends against debt that lives on another chain.  A borrower's
loan emits logs on a source chain; anybody relays an inclusion proof of a
source transaction to the Creditcoin chain (CC3), where a contract replays the
logs into a mirror of the debt and refuses credit that the mirrored debt does
not leave room for.  Two generations live side by side:

* **v1**: one loan, one contract that mirrors it and commits credit
  (`SingleDrawLoanMock`, `VerifiedDebtGate`);
* **Phase 2 (aggregate)**: several sources with many loans, debts with aliases
  on several sources, checkpoints and snapshots, a gate with reservations,
  executions and repayments (`SealedLoanSource`, `MultiLoanLedger`,
  `ExposurePolicyGate`), and on top of it origination quotas and settlement.

Nothing trusts the relayer: proofs arrive in any order, twice, late, or never.
What must hold whatever it does is the subject of this directory.

## 1. Inventory

State, operations and hard behaviour per component; "where" is the module that
models it.

| component (src/) | state | operations | what is hard | where |
|---|---|---|---|---|
| `contracts/source/SingleDrawLoanMock.sol` | principal, repaid, outstanding, sequence | `openDebt`, `repayDebt` | several calls, and logs of other contracts, in one transaction; reverted transactions | `SingleDrawLoanMock` |
| `contracts/cc3/SourcePosition.sol` | none | `isAfter` | order of (block, transaction, log) at the edges | `EvmTypes` |
| `contracts/cc3/VerifiedDebtGate.sol` | mirrored debt, last position, processed queries, limit, committed credit, two versions | `submitSourceTransaction`, `evaluate`, `commitCredit`, `setPolicy` | a receipt is admitted whole or not at all; a decision read earlier must not be usable in another state; unsigned arithmetic when the limit is lowered | `VerifiedDebtGate` |
| `contracts/aggregate/SealedLoanSource.sol` | loans, totals, epoch, sealed flag | `openLoan`, `repay`, `seal`, `checkpoint` | events of several loans in one transaction; repayments after a checkpoint | `SealedLoanSource` |
| `contracts/aggregate/ExposureScopeRegistry.sol` | registered sources and their first epochs, immutable | views | none after construction | constants of `MultiLoanLedger` |
| `contracts/aggregate/MultiLoanLedger.sol` | loans per source, canonical debts, total debt, source totals, snapshot, processed queries, state version | `submitSourceTransaction`, `setDebtRelation`, `finalizeSnapshot` | several sources out of order; two aliases of one debt that repay in different orders; a snapshot that must not mix epochs or survive the next event | `MultiLoanLedger`, `AggregateExposure` |
| `contracts/aggregate/ExposurePolicyGate.sol` | limit, roles, reserved and executed credit, reservations and their lifecycle, used proof references, two versions | `evaluate`, `reserve`, `executeReservation`, `repayExecution`, `setPolicy`, `setAllocator`, `setExecutor` | decisions held across changes of ledger *and* gate; two counters behind one number; commitments frozen by a newer snapshot | `ExposurePolicyGate`, `ExposureCredit`, `AggregateCredit` |
| `contracts/aggregate/OriginationController.sol` | institutions, quotas per source, per institution and per pair with what is used of each, originations, consumed commitments and proof references, adapter in force | `originate`, `setQuota`, `setSourceQuota`, `setInstitutionQuota`, `setInstitution`, `setSettlementAdapter`, `requestSettlement` | three quotas charged together and never released; a commitment that is repaid or recorded by somebody else in between; adapters replaced under open requests | `OriginationController`, `Origination`; the last two operations in `Settlement` |
| `contracts/settlement/SettlementVault.sol`, `DirectSettlementAdapter.sol` | authority and its lock, payments; requests, bound and used transport references, relayers | `setAuthority`, `fund`; `setRelayer`, `requestFunding`, `fund`, `retry` | a failed payment retried, several adapters over one vault, a reference bound before it is used | `SettlementVault`, `DirectSettlementAdapter`, `Settlement` |
| `contracts/settlement/LayerZeroSettlementOApp.sol` | requests, origination of each guid, processed guids; fixed peers and owner | `sendFunding`, `requestFunding`, `lzReceive`, `fund`, `retry` | redelivery, reordering, failure at the destination; who may ask and who may reopen | `LayerZeroSettlementOApp`, `Settlement` |
| v1 scripts: `scripts/deploy-source.js`, `source-actions.js`, `fetch-proof.js`, `deploy-cc3.js`, `submit-proof.js`, `demo.js`, `demo-negative.js`, `resume.js` with `src/evidence.js`, `cc3-run.js`, `source-run.js`, `scenario-result.js`, `negative-result.js` | manifest: a record per finished step, a pending transaction per chain; a proof file per event; the negative evidence | run a step, register a lost transaction, audit | crash between broadcast and record; reverted and unknown transactions; two scripts at once, each writing the whole manifest it read; a stranger who relays first; another transaction in the same block | `RunChains`, `RunManifest`, `RunJournal` |
| `src/phase2-journal.js`, lock and save of `scripts/phase2-demo.js` | a manifest of prepared and confirmed transactions, a lock file | `transact`, `save`, `lock` | crash at any await; stale and half-written lock; transactions that are dropped | `PreparedJournal`, `ExecutionLock`, `Phase2Run` |
| scenario of `scripts/phase2-demo.js`, `src/phase2-runtime.js` | deployments, proofs, proof bound to each submission, observations, completion | run, observe, bind, complete, audit | a run of hours, interrupted and repeated, while proofs expire, snapshots age and others call the ledger | `Phase2Scenario` |
| `src/proof-client.js`, `scripts/fetch-proof.js`, `src/runtime-negative.js` | saved bundles | poll attestation, fetch, refresh once, tampered controls | staleness between fetch and use | `RunJournal` (`FetchProof`, `EnsureFreshProof`), `Phase2Scenario` (`AcquireProof`) |
| `src/aggregate-view.js`, `scripts/aggregate-status.js`, `ui/aggregate.js` | none | report at one block, check a report before it is shown | a second implementation of debt, coverage, headroom and reason | `AggregateReport` |
| `ui/app.js` | none | show the canonical run | evidence taken too early, records that do not belong together | `RunJournal` (`CanonicalView`) |
| `contracts/vendor`, interfaces | none | receipt decoding, native query verifier | stateless, vendored or external | represented by the receipts the models pass |
| wallet and check scripts, static server, Pages build | files | one-shot I/O, presentation | no protocol state | not modelled |

Interactions: the source emits logs; the native query verifier vouches for a
(chain, height, index, bytes) tuple; the ledgers decode the receipt and apply
every log of a registered emitter; the gate calls the ledger's getters inside
its own transaction; the scripts read a decision in one call and send a
transaction bound to its versions in another.  Everything on one chain is
serial; all concurrency lies *between* transactions, between the two chains
and between a script's reads and writes.

## 2. The modules

### v1

* **`EvmTypes`** - the unsigned integers, and `isAfter` as the lexicographic order it is.
* **`SingleDrawLoanMock`** - the loan and the chain that runs it.  One action
  per function; a call appends logs to the transaction under construction
  (`txLogs`), `EndTransaction` makes it a receipt, `MineBlock` starts a block.
  A transaction may also hold logs of other contracts (`EmitForeignLog`) or be
  reverted (`RevertedTransaction`).  `emitted` is a history variable: the debt
  logs in order.
* **`VerifiedDebtGate`** - the gate.  The storage fields that receipts write
  are one record `mirror`; the per-log loop of `submitSourceTransaction` is the
  recursive function `Admission`, whose value is the mirror after k logs or
  a refusal, so that a refused log refuses the receipt.  `CommitCredit`,
  `Decision` (the view `evaluate`, with `Panics` for its overflow) and
  `SetPolicy` follow the functions of the same names.
* **`VerifiedDebtPipeline`** - composition: source, permissionless relay,
  borrower slots (`quote`) holding decisions read earlier, policy owner.
* **`LaggedReplica`** - the abstract specification of a mirror: it shows the
  state after some event of the source's history and only moves forward.
* **`VerifiedDebtProps`** - properties and the inductive invariant.
* **`DataLemmas`**, **`VerifiedDebtProofs`** - section 5.

### Phase 2

* **`SealedLoanSource`** - all sources on one chain.  `books` holds each
  source's totals, epoch and sealed flag; the history root is the list of
  events itself (a hash chain commits to exactly that); the loan root inside
  a log is the loan the log restates.  Two sources may log in one transaction.
* **`MultiLoanLedger`** - the ledger.  What receipts write is the record
  `ledger`; `Submission` is the log loop.  `_applyLoan` splits into what it
  requires (`AcceptsLoan`, `AcceptsOpening`, `AcceptsRepayment`) and what it
  writes (`TotalsAfter`, `DebtAfter`, `CanonicalAfter`); `_applyCheckpoint`
  likewise.  `finalizeSnapshot` derives the identifier from the epoch and the
  state it certifies and demands a greater epoch each time; the model uses the
  epoch itself as the identifier.
* **`AggregateExposure`** - sources, ledger and two clocks.
* **`AggregateProps`**, **`AggregateProofs`** - what the ledger must guarantee, against
  reference definitions that read the source's history as a list of events; the
  inductive invariant of sources and ledger; and section 5.
* **`ExposureReading`** - abstract specification of a ledger as its reader
  sees it: the debt changes only with the state version, a snapshot has an
  identifier of its own and is void after the next change.
* **`ExposurePolicyGate`** - the gate.  Actions take the ledger reading and
  the timestamp as arguments, which is how the contract gets them: by calls
  inside the same transaction.
* **`ExposureCredit`** - gate over *any* ledger of `ExposureReading`, with
  holders of decisions read earlier.  This is where the gate is explored
  deeply, since the abstract ledger is small.
* **`ExposureCreditProofs`** - section 5.
* **`AggregateCredit`** - gate over the real ledger and sources;
  `KeepsThePromise` says that it implements `ExposureCredit`
  (`INSTANCE ExposureCredit WITH reading <- Reading`).

### Origination and settlement

* **`CommitmentBook`** - abstract specification of the gate for those who build
  on it: a commitment's amount is fixed when it is reserved, executed once and
  in full, then only lowered by repayments, and closed for good at zero.
  `ExposureCredit` implements it (`KeepsCommitments`).
* **`OriginationController`** - quotas and originations.  The three pairs of
  mappings `quota`/`quotaUsed`, `sourceQuota`/..., `institutionQuota`/... are one
  pair of functions over `QuotaKeys`; the three setters are `SetQuota` for the
  three kinds of key; `AcceptsOrigination` is everything `originate` requires.  The amount is any
  the caller states.
* **`Origination`** - the controller over any gate of `CommitmentBook`, with
  the owner and the institutions.
* **`Obligations`** - abstract specification of the controller for settlement:
  an obligation is recorded once, for a commitment no other stands for, and
  never changes.  `Origination` implements it (`RecordsOnce`).
* **`SettlementTypes`**, **`SettlementVault`** - the vaults, one record of
  payments each.  `fund` either returns, with all its writes, or reverts.
* **`DirectSettlementAdapter`** - requests and the relayer.  `_attemptFund` is
  `AttemptFund`: the `try` succeeds (`AttemptPays`) or is caught
  (`AttemptFails`), and it may be caught at any time, as a token may fail.
* **`LayerZeroSettlementOApp`** - the OApps, one on each chain.  `deployment`
  holds the immutable owner and peers; `packets` is what the endpoint was given,
  a guid its number; a delivered packet stays deliverable.
* **`Settlement`** - controller, adapters, endpoint and vaults together:
  `setSettlementAdapter` and `requestSettlement` over the obligations of any
  controller of `Obligations`, the owner's choices of authority and relayer,
  an operator who owns an OApp and asks for whatever it likes.
* **`PayOnce`** - abstract specification of settlement: a request is taken
  once per adapter, its terms never change, it is FUNDED exactly when
  its vault paid those terms, and a vault pays an origination once and for one
  adapter only.
* **`OriginationProofs`**, **`SettlementProofs`** - section 5.

### The scripts that run a scenario

* **`SignerChain`** - a chain as an RPC provider shows it: transactions of one
  account ordered by nonce, a pool that may drop them, receipts.  It is not
  code of the repository; a hash is represented by what it commits to, the
  step and the nonce.  `sent` is a history variable.
* **`ExecutionLock`** - `lock()` of `phase2-demo.js`, one action per file
  system call, since other processes and kills fall between any two.  The lock
  file has an owner and a flag that says whether its text is written.
* **`PreparedJournal`** - `transact`, one action per stretch between two
  awaits.  Each process has the manifest it read in `memory`; `save` makes the
  file equal to it.
* **`Phase2Run`** - processes behind the lock, on the chain; calls that throw
  end in `finally { unlock() }`, kills leave the lock behind.
* **`Phase2Scenario`** - what one process at a time does with them: the plan of
  31 deployments, transactions, submissions and observations over the modules
  of the aggregate (`Sends`, `Submits`, `FinalizeSnapshot`, `Reserve` are the
  contracts' own actions).  A process goes through the plan from the start and
  passes what the manifest has, so `Current` is the first item left.  Each
  `Saves` is one `writeJsonAtomic`; kills fall between any two.  A bundle is the
  horizon it was built for; the verifier accepts that of the current `horizon`.
  `Audit`, `BindingHolds` and `ValidateCompletion` are the code's functions.
  What is proved of it is at the end of `AggregateProofs`.
* **`AggregateReport`** - `CollectAggregateStatus` is the report of
  `src/aggregate-view.js`, `PageShows` what `deriveAggregateView` of
  `ui/aggregate.js` demands of one.  `Phase2Scenario` observes these reports.

v1:

* **`RunChains`** - both chains as the v1 scripts see them: pools, nonces,
  blocks of one or two transactions, relayed proofs, and of the contracts what
  decides whether a step is accepted and matches: how many events the loan has
  emitted, how many the gate has applied, whether credit is committed.
  `Records` says which state, at the end of its block, a step's record demands.
* **`RunManifest`** - the manifest and the decisions taken from it alone
  (`src/evidence.js`): `RecordPending`, `FinalizePending`, `NextRunStep`, and
  `Admits`, the checks at the start of every script.  `Needs` is what a script asks
  for, with a transaction of its step pending or not (`deploy-cc3.js` alone looks at the
  pending one first); `Asks` what `resume.js` asks before it registers a transaction,
  which is less: no opening for a repayment, no submission of the opening for a commitment.
* **`RunJournal`** - the scripts, one operator per file, in terminals.  Each keeps
  the manifest it read (`mem`) and writes the whole of it; `Send`, `RecordSent`,
  `Await`, `Recover` are the stretches between two awaits that all of them
  share.  `Resume` is `resume.js --tx`, `DemoNegative` the read-only evidence.
* **`RunJournalProofs`** - section 5.

### Abstractions common to all

Addresses, hashes, transaction ids and digests are model values.  `keccak256`
of a tuple is the tuple.  The native verifier accepts exactly the receipts of
finished source transactions.  Checks that compare a constant of the deployment
(chain id, scope version, emitter, loan id of v1) are folded into which logs
count as `Applicable`.  `uint256` is `0..MaxUint` and every Solidity
subtraction or addition that may leave it is a guard (a revert) unless the code
itself excludes it, which the type invariants state and, for both gates,
`IInv` checks and the proofs show.  uint64 counters
(sequence, versions, epochs) are bounded by named bounds and never wrap.

Operators called "mutated form" describe a plausible error in the operator that
follows them.  No specification uses them; they exist to show that each
property does fail when the code is wrong.

## 3. Runs

| run | module / cfg | what it asks | bounds |
|---|---|---|---|
| `v1` | `VerifiedDebtProps`, `MCVerifiedDebt.cfg` | the gate shows a prefix of the loan's history, admits a receipt whole and once, never understates the debt, pins decisions to versions, never wraps, and catches up | amounts up to 2, 2 blocks of 2 transactions, 2 logs each: an opening and two repayments fit into one receipt or into several, with foreign logs; 2 policy versions, one decision held |
| `lineage` | `MCAggregate` | each source is mirrored as a prefix and catches up; aliases count once | 2 sources with one loan each that may be aliases of one debt, with equal or different principals (1 or 2), 2 epochs, so that a checkpoint may be overtaken by an event or by another checkpoint, 3 transactions with 2 logs; 298 thousand states |
| `coverage` | `MCAggregate` | a sealed scope is never understated; a complete snapshot is what checkpoints of one epoch committed to | 2 symmetric sources, 2 epochs, 4 transactions, source clock up to 2 and ledger clock up to 3 with validity 1 |
| `credit` | `MCCredit` | gate over the abstract ledger: decisions pinned, totals add up, superseded commitments frozen; the gate is a book of commitments | 2 commitments, 3 proof references, 4 credit steps, 2 ledger versions, 2 snapshots, 3 policy versions |
| `aggregate_credit` | `MCAggregateCredit` | sources + ledger + gate implement the gate over the abstract ledger; credit is covered by the true debt; the page shows every report | 1 source, 1 loan, 2 epochs, 3 transactions, 2 credit steps |
| `origination` | `MCOrigination` | used quotas are what was originated, limits hold, one loan per commitment | 2 commitments, 2 institutions, 2 sources, 2 loans, 2 proof references, limits 1 and 2, 6 changes of quotas or institutions |
| `settlement` | `MCSettlement` | each request paid at most once and as originated; an unpaid one has a named obstacle | 2 originations, 2 possible terms, a direct adapter and 2 OApps over 2 vaults, 2 transport references, 2 messages, 2 deployments: the controller's OApp is its own peer, or is paired with an operator's |
| `phase2_run` | `Phase2Run`, `MCPhase2Run.cfg` | one process at a time, one transaction per step, in order, recorded before it is sent, never taken back; a repeated run completes | 3 process slots that start again and again, 3 steps, 3 exceptions or kills, 2 drops, 2 foreign transactions |
| `lock_race` (violated) | `Phase2Run`, `MCLockRace.cfg` | one process at a time although two start together | 3 slots, 1 step, 1 kill |
| `phase2_scenario` | `Phase2Scenario`, `MCPhase2Scenario.cfg` | a complete run passes its audit; a repeated run completes | the scenario's own two sources, amounts and plan of 31 items; any 3 of: a kill, an expired horizon, a delay beyond the validity of a snapshot, another caller |
| `run_journal` | `RunJournal`, `MCRunJournal.cfg` | records belong together whoever wrote last; the next step is one its script accepts, or a registered transaction without an earlier record; evidence is kept; a complete run passes its audit; one transaction per step, and completion, if none is overlooked | 2 terminals, all 8 steps, 4 source and 6 destination nonces (so that any step may be sent twice), any 2 of: a drop, a relayed proof, an expiry, a crash, two scripts at once; 319 thousand states |
| `broadcast_unrecorded` (violated) | `RunJournal`, `MCRunJournalLost.cfg` | one transaction per step without that operator | 1 terminal, 1 mishap |

Why the bounds are enough: every guard of the modelled code compares at most a
log with its predecessor, two aliases, two epochs, or a held version with
the current one; the instances hold two (mostly three) of each of these and
amounts that allow partial repayments and headroom exactly met, missed by one
and exceeded.  In the scripts' models a mishap matters by the place it
happens at and by what the one before it left behind: each may fall between any
two steps of a script, and two or three of them meet in every order, of the same kind or of
several.  Each property is broken by an injected error within these bounds.

`CHECK_DEADLOCK FALSE` is set where every actor may stop: all bounds used up and
nobody has to act, or a run that is over.  `v1` and `phase2_run` check deadlock: a borrower
may always read a decision again and a run may always be started again.

### Fairness

* `EndTransaction`: the chain finishes a transaction it started.
* `Relay` / submission, weakly fair: *some* relayer goes on submitting receipts
  that the ledger would apply.  `Relay` is one action over all receipts: which
  of the applicable receipts is relayed is not constrained.  This is the assumption of
  docs/SPEC.md that proofs may be late or missing; without it nothing is mirrored.
* `Tick` in the aggregate: the destination's clock goes on, since a checkpoint
  of a later timestamp is refused until then.

* Scripts (`Phase2Run`, `Phase2Scenario`, `RunJournal`): a process that is not
  killed goes on, an operator starts the run again as long as it is incomplete
  (the documented way to recover), and a waiting transaction with the next nonce
  is mined.  Mishaps are bounded in number, or no run would ever complete.
* `RunJournal` also has the operator `resume.js` is written for: the step it names
  is started again and again (strong fairness, since another script may be in the terminal),
  what was lost is registered, a missing proof is fetched, the negative evidence
  is taken once the run is complete.  Nothing obliges a stranger to relay.

* `settlement`: relayer, operator and endpoint keep trying, and a payment that
  is tried again and again succeeds in the end: weak fairness of a relayer's
  attempts that pay, strong fairness of deliveries that pay (a failed
  request must be reopened between two of them), weak fairness of the operator's
  `retry`.  Deliveries are repeated as the repository's endpoint mock does; an endpoint that
  never delivers a message again once `lzReceive` returned gives a failed request no second
  attempt.

Nobody is obliged to draw, repay, ask, reserve or seal.

## 4. What the runs show

* **Order and repetition.** v1 and the aggregate ledger refine `LaggedReplica`.
  A late repayment proof overstates the debt and never understates it.  For
  the aggregate this needs every source's seal: before it, unknown loans may
  exist, and the gate gives no credit then.
* **Atomic receipts.** `AdmittedWhole` ties `processedQueries` to the sequence.
* **Old decisions.** `exposureStateVersion` adds two counters and is not advanced by
  `finalizeSnapshot`; together with `policyVersion` and `snapshotId` it still
  identifies the state (`VersionsPinDecision`).
* **Aliases.** `totalDebt` is the sum over unique debts of the smallest balance any
  alias reports, whatever the order of arrival (`CountsEachDebtOnce`).
* **Frozen credit.** A commitment is bound to the snapshot it was reserved
  under; after the next snapshot it can neither be executed nor repaid, and its
  credit counts for good (`SupersededIsFrozen`).  This is what the code
  does, stated so that a change to it is noticed; it also means that renewing
  a snapshot with open commitments costs their headroom.
* **Quotas.** What is used of each of the three quotas is the sum of the
  originations counted against it, and never exceeds its limit, although limits move
  and three are charged at once (`QuotasAddUp`).  Quotas are never released, also not by
  repayment; a commitment is recorded once, over exactly what is left of it, and
  keeps that amount when it is repaid later (`RecordsOnce`).
* **Paying once.** Through retries, redelivery, adapters replaced between two
  requests and authorities changed before the first payment, each vault pays an
  origination at most once, and what the adapter reports is what happened
  (`PaysOnce`).  The promise is per vault: an adapter of another vault, put in force later,
  takes the request again.  A vault whose authority takes requests from the
  controller pays only what was originated (`PaidAsOriginated`).
* **Requests that are never paid.** `RequestsFunded` names every obstacle.  Three
  are consequences of the code that a reader may not expect: two
  requests may be bound to one transport reference, since a reference counts as used
  only after a payment, and then the second fails on every retry; a receiving OApp
  rejects the message of its peer unless it was asked for the same origination
  itself; and an OApp that takes requests from the controller is owned by
  it, so nobody can call its `retry`.
* **Sources left behind.** Two ways for a source to stay behind for good, which
  keeps credit closed.  Its opening contradicts an alias (the run takes one
  principal, so that aliases agree).  Or an event of it shares a transaction
  with a checkpoint of another source, and a later checkpoint or event of that
  source is proven first: the transaction then reverts whenever it is
  submitted.  A relayer that submits a source's transactions in their order
  avoids it.  `EverySourceCatchesUp` names both (`OpeningRefused`,
  `CheckpointOvertaken`) and finds no third.
* **Interrupted runs.** However often a Phase 2 run is interrupted, at most one
  transaction is broadcast per step and the journal knows it before the network
  does, as long as two processes do not start at the same moment.
* **The lock.** A stale lock is removed by name, so of two processes that find
  the same stale lock one may remove the other's new lock (`lock_race`, against
  docs/PHASE2_PUBLIC_RUN.md:14).  And the lock is created before it is filled: a
  process killed in between leaves an empty file that no later run can parse.
  `RunCompletes` names this (`LockTorn`) beside the two other events that end a
  run, a reverted step and a nonce the account spent elsewhere.
* **v1 journal.** A recorded transaction is kept and never replaced.  A crash
  between the broadcast and the record leaves nothing to recover, and the retry
  sends a second transaction (`broadcast_unrecorded`; docs/TEST_MATRIX.md:71
  says otherwise).  `resume.js --tx` closes the gap, if the operator uses it
  before a script is started again (`OneUnlessOverlooked`).  A recorded
  transaction that is dropped or reverts stays in the journal for good (`Stuck`).
* **Two v1 scripts at once.** Nothing keeps them apart: both send, and the
  later write takes back what the earlier one recorded.  What remains is
  nevertheless coherent (`ManifestIsCoherent`, proved): a script that sends
  takes its targets from the manifest it writes, so a record never points
  to a contract another record replaced.
* **A plan no script accepts.** `resume.js` may name a step that every script refuses
  (`Orphaned`), and only like this: scripts ran at once, one of them wrote a manifest that
  lacks what another had recorded, and the operator registered the later of the lost
  transactions.  Say `deploy-cc3.js` was started before `open` and wrote after `repay`: both records are
  gone; `resume.js --tx` accepts the repayment, which asks for the source contract
  alone (resume.js:88-92); `repay` then wants the opening (source-actions.js:36), and neither
  `open` (:35) nor the registration of the opening (resume.js:140-143) is accepted beside the
  pending repayment.  Registering the opening first avoids it.  A commitment whose
  opening's submission is gone is the other case (resume.js:117-121, demo.js:45); it takes
  four scripts at once, more than the run has.  `PlanIsAdmitted` finds no third,
  and none at all with one script at a time.
* **Strangers.** Whoever relays a source event before `submit-proof.js` does leaves the
  v1 run without a way on: the step's own transaction reverts or, sent already, is the
  replay, and the record is demanded of it.  A complete run fails its audit only
  if a second repayment was sent and relayed (`CompleteRunPassesAudit`).
* **Negative evidence** is written once, also when it is taken too early or the
  saved bundles have expired; the canonical page then refuses the run for good (`Spoiled`).
* **Phase 2 completion.** What calls itself complete passes the audit, and a repeated
  run completes unless one of four named events ends it.  Time ends it
  only up to the last report on an epoch (`Overdue`): after `reserved` was
  observed, the replay is checked and the run completed also when the
  snapshot has expired.  An audit of an *incomplete* run fails in one more case than
  an incomplete transaction: between saving `submissionProofs` and the intent
  (phase2-demo.js:145-146) the step it looks up does not exist (phase2-runtime.js:167).
  Refused calls are modelled as refused; that `observe` also demands an error of a
  given name (phase2-demo.js:158-161) is not.  Nor is a provider that prunes old state:
  a repeated run reads every contract's code at the block it was deployed in
  (phase2-demo.js:113-115) and would stop there.
* **The page and aliases.** `ui/aggregate.js:29` demands that the reported sources
  add up to the total debt; the ledger counts aliases of one debt once.  A scope
  with aliases therefore has true reports the page refuses, and `PageShowsEveryReport`
  is stated for scopes without (the public run has none).

## 5. Proofs

All theorems are proved for every value of the constants, under the named
assumptions of the modules they are about (bounds are natural numbers,
identifiers are not the placeholder values, `Commitments` and `ProofIds` are
finite).  Where a proof works over a bound such as `MaxUint` the width of the
integers is arbitrary.

**`VerifiedDebtProofs`** is about `VerifiedDebtPipeline`.  The inductive
invariant `IInv` (in `VerifiedDebtProps`, checked by `v1`) has five parts:

* `LoanTypeOK` and `HistoryInv`: every log in `emitted` carries the sequence
  number of its place, the loan's balance after it, and balances never grow;
  every receipt holds a contiguous stretch of `emitted` at positions that grow;
* `MirrorOK`: the mirror equals what the log number `lastSequence` of the
  history says, and its position is that log's;
* `UtilizationFits`, and no commitments before initialization;
* `QuoteInv`: no held decision is ahead of the versions, and one that is
  level with them is what `evaluate` would answer now;
* `WholeInv`: no two receipts hold the same log, receipts lie on the source chain, and the
  processed ones hold exactly the debt logs up to `lastSequence`.

`MirrorOK` alone is not inductive: that the next accepted log is the *right*
one follows from what receipts can hold.  The loop over a receipt's logs is a
recursive function, and the proof that it maps a mirror of the history to
a mirror of the history, or refuses, is an induction over the log's index
(**`DataLemmas`** holds the induction step for sets of naturals that
stands in for the library's schema).  That a refused log takes the earlier ones of its
receipt back is `WholeInv`: a receipt's logs are applied all at once or not at all,
and the result is `WholeOrNotAtAll`.  `TypeCorrect`, `UtilizationBounded`,
`DecisionsPinned` and `DebtNeverUnderstated` follow from `IInv` in one
step; `CommitsCovered` is an action property that combines it with the headroom
check; `Prefix` is the refinement of `LaggedReplica`.

**`ExposureCreditProofs`** is about `ExposureCredit`, the gate over any ledger of
`ExposureReading`.  `IInv` is checked by the run `credit`: types, `HeldBehind`
(no decision is ahead of versions or snapshot), `VersionsPinDecision`,
`BoundToExecuted` (a used proof reference belongs to an executed commitment; without it
`CreditAddsUp` is not inductive, because a new commitment could come with
proofs), `CreditFits` and `CreditAddsUp`.  The totals are sums over sets that change
at one point per step; **`DataLemmas`** proves what is needed of
`SumFunctionOnSet` (unfolding, splitting, one change, bounds).  Results:
`TypeCorrect`, `DecisionsPinned`, `TotalsAddUp`, `SupersededFrozen`, and
`CommitmentsKept`: every step of the gate is a step of `CommitmentBook` or leaves
its commitments alone, one lemma per action that moves one.

**`Phase2RunProofs`** is about `Phase2Run`, for any number of steps, processes,
nonces, drops and mishaps.  Its theorems assume `~ConcurrentStarts`; the run
`lock_race` shows that `OneProcess` is false without it.  `IInv` (in
`Phase2Run`, checked by `phase2_run`) says of the lock that at most one process
is inside `lock()`, that what it found still is so, and that the file names the
process that is in (`LockInv`); of the chain that a mined nonce is spent
(`ReceiptsSpent`); of the manifest that its entries are prepared in order, its
confirmed transactions succeeded and everything sent is in it (`ManifestFits`);
and of a process at work that its memory *is* the file and what each place in
`transact` knows of the current entry (`PlaceFits`).  The chain of argument is:
one process at a time, hence the manifest in memory is the one on disk, hence
saving all of it loses nothing, hence a later process finds the intent and
broadcasts the same transaction.  Results: `OneAtATime`, `OneTransaction`,
`IntentDurable`, `InOrder`, `ConfirmedStays`.

**`RunJournalProofs`** is about `RunJournal`, for any number of terminals, nonces
and mishaps, and without any assumption on how many scripts run at once.  The
argument for `RecordsBelongTogether`: a record in any manifest, on disk or in a
script's memory, is of a transaction that succeeded (`Won`), of its kind and
made against the contracts recorded in *that* manifest (`Aimed`), which
are there, like the records of all steps it builds on (`Built`, for a pending transaction
only `Asked`); a script's own transaction
is made against the contracts of its memory; a pending one, of a step without a
record, against those of the manifest it is in.  The invariant is one predicate on a
manifest, `Sound`, said of the disk and of every memory; each step copies a
manifest, adds a pending transaction to one, or makes it a record there.
Blocks can only help: what has succeeded stays so.

Four more results rest on it.  `PlannedStepBegins` adds that a proof on its way has a
proof file (`ProofsInv`): the records on disk are closed under what steps build on, so the
first step left admits everything.  A pending transaction has only what `resume.js` asks (`Asked`), since it
may have been registered; what its script needs besides is the opening of a
repayment or the opening's submission of a commitment (`PendingOrphaned`).  With one script
at a time no record is ever lost, so every transaction sent has all it builds on (`Backed`) and
these two do not occur.  `CompleteRunsPass`
adds what gates never take back (`ChainsInv`): a credit commit that succeeded found two
events and left the gate committed, and later blocks only add events.  Both are proved for
any number of scripts at once.  For `EvidenceKept` one script at a time is
needed: then the script at work has the manifest on disk in
memory (`Alone`), and what it found there (no record, no pending transaction) is still so when it
writes.  `OneTransactionPerStep` adds `OnceInv`: while nothing was overlooked, no live
transaction is lost on the chain of the script at work, but the one it has just
sent; so nothing of its step is alive when it sends.  This is where `Overlooks` asks about
the whole *chain* and not the step alone: a script that waited for the decoder
goes on to the gate.

**`AggregateProofs`** is about `AggregateExposure`, `AggregateCredit` and the scenario run
against them: any number of sources, loans, aliases, transactions and logs.  `IInv` (in `AggregateProps`) says

* of the sources (`ChainInv`) that each one's storage is what its own events tell, and that
  no event of a loan reports less debt than is left;
* of logs (`LogsInv`) that every log in a receipt is `Genuine`: an event of its
  emitter's history, or a checkpoint taken after the seal and so after the last opening;
* of the ledger (`LedgerFits`) that it knows the first events of every source and what
  they tell (`Mirrored`); that a sealed source's last checkpoint is on the source chain,
  covers every loan and equals the ledger's own totals until the next
  event is ingested (`Checkpointed`); that each canonical debt is the least its opened
  aliases report and the total is their sum (`DebtsFit`);
* of the snapshot (`SnapshotInv`) that a complete one is level with the checkpoints it was
  taken from;
* of versions (`VersionInv`) that the state version counts logs of receipts applied once.

`LedgerFits` is said of a value and not of a variable: the loop over a receipt's logs
passes through intermediate ledgers, and that it keeps `LedgerFits` at each of them is an
induction over the log's index.  None of the properties is inductive by itself: that a
repayment lowers the unique debt by what it should needs the mirror to be a
*prefix* (not merely to hold the last event of each loan), and that needs the logs
to be genuine.  The sum over unique debts changes at one canonical debt per log
(`SumSplit` of `DataLemmas`).  `PageShowsReports` says that the canonical page
refuses no report of a scenario without shared debts: the ledger's two totals of a source differ by its open
balances (its own totals are sums over its loans), the sum over sources of their sums is the sum over all debts
(`SumOfRows` of `DataLemmas`), and headroom and reason are worked out from the
same numbers.  Results: `UniqueDebtCounted`, `NeverUnderstated`
(the sum over the ledger's canonical debts bounds the sum over the sources' true
ones once every loan is known), `SnapshotsCover`, `EverySourceMirrored` (one
`LaggedReplica` per source), and over the composition with the gate:
`PromiseKept`, the refinement of `ExposureCredit`, and through it
`GateOverLedger`: `ExposureCreditProofs` is instantiated with the real ledger's
`Reading`, its assumptions are shown to hold, and its lemmas about initial states
and steps give its invariant for the whole system without a second proof.
`TrueDebtCoveredByLimit` and `CreditMovesOnFreshCoverage` join that invariant with
`NeverUnderstated` and `SnapshotInv`.  The one assumption added for this is
`LedgerVersions`: the abstract ledger's bound on versions leaves room for
all logs the sources may emit.

The end of the module is about `Phase2Scenario`: the run of the scripts against these
contracts.  `RunInv` says what the manifest's entries were not written without: a confirmed step was mined, a deployment
is of a confirmed step, a submission with an intent has a proof bound to it that is on disk and was
the one of its intent, a report written down was as expected, and what the process
has in hand is on disk.  It mentions no contract: what the contracts answer, which the
actions ask with ENABLED, is left open throughout, so `ScenarioPassesAudit` holds for
every answer and any number of mishaps.  A complete
run has nothing of its plan left, and every part of `Audit` follows from an entry that is there.

The other theorems on the run need its contracts too.  `ScenarioInv` joins `RunInv`, the sources' and
the ledger's `IInv` and six parts about both sides:

* `OrderFits`: a submission was recorded after its source transaction was confirmed, and the
  reservation after the report `epoch-2` was written down;
* `ReceiptsFit`: the receipt a confirmed source step names is there, and a
  mined one has logs to leave a receipt with;
* `ReportsFit`: every report written down is one the page shows;
* `GateFits`, `LoansFit`: the gate's totals and the sources' balances are what the mined
  transactions of the run add up to (`Effect`), and nothing else;
* `NoAliases`: the run lists none, so each alias is a debt of its own, which the page's sums need.

`OrderFits` comes from the plan, whose order is worked out item by item (`PlanOrder`).  It
is what lets the steps be read as calls of `AggregateExposure` on receipts of the chain, so
that `Invariance`'s lemmas apply to each.  Which step calls which contract is settled once
(`OtherCalls` and the lemmas before it) and not per invariant.  Results:

* `ScenarioKeepsLedger`: the ledger counts each debt once, never understates and covers the
  sources with its snapshots, throughout the run and its mishaps;
* `ScenarioReportsShown`: no report the run wrote down is refused by the page that reads the
  manifest later, when the state behind the report is gone;
* `ScenarioReservesCovered`: when the run's reservation is mined, however long after the report it
  was decided on, the limit covers it together with the borrowers' true debt;
* `ScenarioTakesEffectOnce`: the sources and the gate of a complete run hold what each of its transactions
  does, once, and nothing else: no step passes for done because it reverted or because a stranger
  relayed.  (That a step has at most one transaction is `Phase2Run`'s part, proved there.)

TLC found no violation of the parts of `ScenarioInv` under the bounds of `phase2_scenario`
before they were proved.  The constants are those of the scenario (`ScenarioConstants`, the first
conjunct of `Init`); the number of mishaps is arbitrary.

**`OriginationProofs`** is about `Origination`, over any gate of `CommitmentBook`.
`IInv`: types, `QuotasAddUp`, finitely many recorded originations, none of them
over nothing, and a commitment is consumed exactly when an origination of it is
recorded.  The last part carries `RecordedOnce`, the refinement of `Obligations`:
what the guard of `originate` reads (`commitmentConsumed`) is what the
abstraction asks for (no origination of that commitment).  `QuotasKept` uses the
sum lemmas once per charged quota; that used amounts stay within uint256 follows from
the limits, which the owner cannot lower below what is used.

**`SettlementProofs`** is about `Settlement`.  Every step of the controller, the owners, the
relayer, the operator or the endpoint is one of four moves (`Move`): one request is asked,
reports or is paid; the authority of a vault that has paid nothing changes; an
obligation is recorded; nothing that matters.  One lemma per action shows which,
and the rest of the proof is about moves.  `IInv`: types; a vault that has paid is
locked; a request that an adapter of the controller holds has the terms of
its obligation; the adapter of a request reported FUNDED has the authority of its vault for
good.  The last part is what makes `EachPaidOnce` (the refinement of `PayOnce`) go
through: an adapter that may pay has the authority, so no other adapter of that
vault ever reported a payment.  `PaysAsOriginated` follows from the third.

Only model-checked: liveness (`CatchesUp`, `EverySourceCatchesUp`,
`RunCompletes`, `RequestsFunded`), which the prover cannot handle under fairness.  Every
safety and action property a passing run checks is stated by a theorem.

## 6. Plan

Models and safety proofs are complete as far as sections 5 and 7 do not say otherwise.
What would add most is a safety argument under `RunCompletes`: that a run which is not over can always
take a step or be started again, given the reports it has written down.

## 7. Not modelled, and why

* `EvmV1Decoder`, the native verifier and the LayerZero endpoint are vendored or
  external; models take what they vouch for.
* Chain reorganizations: source blocks are proven after attestation, and the
  scripts verify block hashes at confirmation.
* The scripts' checks of chain ids, artifacts, addresses, calldata and event
  contents against fixed scenario values: a mismatch ends the script, which every model
  allows at any call.
* A vault whose asset is the native coin: no adapter sends value with `fund`, so
  it reverts whenever an adapter calls it.  Tokens that call their recipient back.
* The source proof digest of a direct request, stored and read by nobody; the
  run gives OApp requests one digest.
* The polling loop of `fetchProof` and its 30 minute timeout: a call that
  throws, which every script model allows at any place; the byte mutations of the tampered
  controls; `probe-proof.js`, which keeps nothing.
* `--slot`: the models have one destination per run, as every document does.
* Wallet, configuration and build scripts, the static server, and what the pages
  draw: one-shot input and output.
