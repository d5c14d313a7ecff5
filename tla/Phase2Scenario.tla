--------------------------- MODULE Phase2Scenario ---------------------------
(***************************************************************************)
(* The scenario of a Phase 2 run (scripts/phase2-demo.js,                  *)
(* src/phase2-runtime.js) against the contracts it deploys: two sources, a *)
(* ledger and a gate that anyone may call, too.  The process is killed     *)
(* anywhere and started again; it goes through the plan from the start and *)
(* passes what its manifest has.                                           *)
(*                                                                         *)
(* One process runs at a time and a step is broadcast at most once: that   *)
(* is the subject of Phase2Run.  Amounts are in whole DEMO_USD.  Blocks    *)
(* are final.  What the process wrote is the manifest on disk: every save  *)
(* is of all of it.                                                        *)
(***************************************************************************)
EXTENDS AggregateReport

CONSTANT MaxMishaps   \* bound: what goes wrong in a run, all told

ASSUME MishapsBound == MaxMishaps \in Nat

(* The registry the scenario deploys: both sources count from epoch 1. *)
ScenarioEpochs == [s \in {"A", "B"} |-> 1]

(* What it deploys. *)
ScenarioConstants ==
  /\ Sources = {"A", "B"} /\ Registered = Sources /\ LoanIds = Sources
  /\ {20, 30} \subseteq Principals
  /\ EffectiveEpoch = ScenarioEpochs /\ InitialLimit = 60

VARIABLES
  manifest,  \* runs/<id>/manifest.json
  mined,     \* what became of each step's transaction
  at,        \* where the process is: "off" if there is none
  hand,      \* the proof it acquired
  horizon,   \* the verifier refuses a bundle of another one
  mishaps    \* how often each kind of mishap happened

runVars == <<manifest, mined, at, hand, horizon, mishaps>>
vars == <<exposureVars, gateVars, runVars>>

Plan ==
  << <<"deploy", "A">>, <<"deploy", "B">>, <<"deploy", "registry">>, <<"deploy", "decoder">>,
     <<"deploy", "ledger">>, <<"deploy", "gate">>,
     <<"write", "A-open">>, <<"write", "A-seal">>, <<"write", "A-checkpoint-1">>,
     <<"write", "B-open">>, <<"write", "B-seal">>, <<"write", "B-checkpoint-1">>,
     <<"submit", "A-open">>, <<"submit", "A-checkpoint-1">>, <<"observe", "missing-B">>,
     <<"submit", "B-open">>, <<"submit", "B-checkpoint-1">>, <<"write", "finalize-1">>,
     <<"observe", "epoch-1">>,
     <<"write", "B-repay">>, <<"submit", "B-repay">>, <<"observe", "repayment-invalidates">>,
     <<"write", "A-checkpoint-2">>, <<"write", "B-checkpoint-2">>,
     <<"submit", "A-checkpoint-2">>, <<"submit", "B-checkpoint-2">>, <<"write", "finalize-2">>,
     <<"observe", "epoch-2">>, <<"write", "reserve-20">>, <<"observe", "reserved">>,
     <<"observe", "proof-negatives">> >>

Items == {Plan[i] : i \in DOMAIN Plan}
Steps == {item \in Items : item[1] # "observe"}
Proven == {item[2] : item \in {i \in Items : i[1] = "submit"}}
Observed == {item[2] : item \in Items \ Steps}

NoStep == [status |-> "NONE", bundle |-> 0, receipt |-> 0]
NoProof == [bundle |-> 0, verifiedAt |-> 0]
NoReport == << >>

Mishaps == {"crash", "expiry", "delay", "stranger"}

Happens(m) ==
  /\ mishaps["crash"] + mishaps["expiry"] + mishaps["delay"] + mishaps["stranger"] < MaxMishaps
  /\ mishaps' = [mishaps EXCEPT ![m] = @ + 1]

Init ==
  /\ ScenarioConstants /\ ExposureInit /\ GateInit
  /\ manifest = [status |-> "INITIALIZED",
                 steps |-> [s \in Steps |-> NoStep], deployments |-> {},
                 proofs |-> [k \in Proven |-> {}],            \* immutable proof files
                 submissionProofs |-> [k \in Proven |-> NoProof],
                 observations |-> [o \in Observed |-> NoReport]]
  /\ mined = [s \in Steps |-> "NONE"]
  /\ at = "off" /\ hand = NoProof /\ horizon = 1
  /\ mishaps = [m \in Mishaps |-> 0]

-----------------------------------------------------------------------------
(* The calls of the plan's transactions, all of the run's one signer. *)
Submits(key, bundle) ==
  /\ bundle = horizon
  /\ LET i == manifest.steps[<<"write", key>>].receipt
     IN SubmitSourceTransaction(i, receipts[i], now)

Reserves(name, report, amount) ==
  Reserve(GateOwner, name, [report.decision EXCEPT !.amount = amount], Reading, now)

Sends(key) ==
  \/ key = "A-open" /\ \E signer \in Parties : OpenLoan("A", "A", signer, 30)
  \/ key = "B-open" /\ \E signer \in Parties : OpenLoan("B", "B", signer, 20)
  \/ key = "B-repay" /\ Repay("B", "B", 10)
  \/ key = "A-seal" /\ Seal("A")
  \/ key = "B-seal" /\ Seal("B")
  \/ key \in {"A-checkpoint-1", "A-checkpoint-2"} /\ TakeCheckpoint("A")
  \/ key \in {"B-checkpoint-1", "B-checkpoint-2"} /\ TakeCheckpoint("B")

OnSource(step) == step[1] = "write" /\ step[2] \notin {"finalize-1", "finalize-2", "reserve-20"}

Call(step, bundle) ==
  IF OnSource(step) THEN Sends(step[2]) /\ UNCHANGED <<ledgerVars, gateVars, now>>
  ELSE /\ CASE step[1] = "deploy" -> UNCHANGED <<ledgerVars, gateVars>>
            [] step[1] = "submit" ->
                 Submits(step[2], bundle) /\ UNCHANGED gateVars
            [] step[2] = "finalize-1" -> FinalizeSnapshot(1, now) /\ UNCHANGED gateVars
            [] step[2] = "finalize-2" -> FinalizeSnapshot(2, now) /\ UNCHANGED gateVars
            [] step[2] = "reserve-20" ->
                 /\ Reserves("reservation", manifest.observations["epoch-2"], 20)
                 /\ UNCHANGED ledgerVars
       /\ UNCHANGED <<sourceVars, now>>

-----------------------------------------------------------------------------
(* The process. *)
Done(item) ==
  CASE item[1] = "observe" -> manifest.observations[item[2]] # NoReport
    [] item[1] = "deploy"  -> item[2] \in manifest.deployments
    [] OTHER -> manifest.steps[item].status = "CONFIRMED"

Left == {i \in DOMAIN Plan : ~Done(Plan[i])}
Current == IF Left = {} THEN <<"complete", "">> ELSE Plan[Min(Left)]

Saves(m) == manifest' = m /\ UNCHANGED <<exposureVars, gateVars, mined, horizon, mishaps>>
Goes(place) == at' = place /\ UNCHANGED hand
Stops == at' = "off" /\ hand' = NoProof

Start ==
  /\ at = "off" /\ manifest.status # "COMPLETE"
  /\ Goes("on") /\ Saves(manifest)

(* proof-negatives replays the repayment. *)
NeedsProof(item) ==
  \/ item[1] = "submit" /\ manifest.steps[item].status = "NONE"
  \/ item = <<"observe", "proof-negatives">>
ProofOf(item) == IF item[1] = "submit" THEN item[2] ELSE "B-repay"

(* Mutated form: a saved bundle is used as it is. *)
AcquiredBundle(saved) == IF saved = {} THEN horizon ELSE Max({p.bundle : p \in saved})

(* A saved bundle the verifier still accepts, or else a new one. *)
AcquireBundle(saved) ==
  IF \E p \in saved : p.bundle = horizon THEN Max({p.bundle : p \in saved}) ELSE horizon

AcquireProof ==
  LET key == ProofOf(Current)
      proof == [bundle |-> AcquireBundle(manifest.proofs[key]), verifiedAt |-> horizon]
  IN /\ at = "on" /\ NeedsProof(Current)
     /\ at' = "acquired" /\ hand' = proof
     /\ Saves([manifest EXCEPT !.proofs[key] = @ \cup {proof}])

(* Mutated form: the first proof acquired for a submission stays bound. *)
BindFirstProof ==
  /\ at = "acquired" /\ Current[1] = "submit"
  /\ Goes("ready")
  /\ Saves([manifest EXCEPT !.submissionProofs[Current[2]] = IF @ = NoProof THEN hand ELSE @])

BindProof ==
  /\ at = "acquired" /\ Current[1] = "submit"
  /\ Goes("ready")
  /\ Saves([manifest EXCEPT !.submissionProofs[Current[2]] = hand])

(* transact: the gas estimate must succeed before the intent is saved. *)
Prepare ==
  /\ at = (IF Current[1] = "submit" THEN "ready" ELSE "on")
  /\ Current \in Steps /\ manifest.steps[Current].status = "NONE"
  /\ IF ENABLED Call(Current, hand.bundle)
     THEN /\ at' = "on" /\ hand' = NoProof
          /\ Saves([manifest EXCEPT !.steps[Current] =
                      [status |-> "PREPARED", bundle |-> hand.bundle, receipt |-> 0]])
     ELSE Stops /\ Saves(manifest)

Confirm ==
  /\ at = "on" /\ Current \in Steps /\ manifest.steps[Current].status = "PREPARED"
  /\ mined[Current] # "NONE" /\ txLogs = << >>
  /\ IF mined[Current] = "SUCCESS"
     THEN Goes("on") /\ Saves([manifest EXCEPT !.steps[Current].status = "CONFIRMED",
                                             !.steps[Current].receipt = Len(receipts)])
     ELSE Stops /\ Saves(manifest)

Deployed ==
  /\ at = "on" /\ Current[1] = "deploy" /\ manifest.steps[Current].status = "CONFIRMED"
  /\ Goes("on") /\ Saves([manifest EXCEPT !.deployments = @ \cup {Current[2]}])

(* What the scenario expects of a report, and must be refused at its block. *)
AmountOf(key) == IF key \in {"reserved", "proof-negatives"} THEN 1 ELSE 20

AsExpected(key, d, complete) ==
  CASE key = "missing-B" ->
         d.totalDebt = 30 /\ ~complete /\ d.reason = "COVERAGE_INCOMPLETE"
    [] key = "epoch-1" ->
         d.totalDebt = 50 /\ complete /\ d.snapshotId = 1 /\ d.reason = "OVER_LIMIT"
    [] key = "repayment-invalidates" ->
         d.totalDebt = 40 /\ ~complete /\ d.reason = "COVERAGE_INCOMPLETE"
    [] key = "epoch-2" ->
         d.totalDebt = 40 /\ complete /\ d.snapshotId = 2 /\ d.reason = "ALLOW" /\ d.headroom = 20
    [] key = "reserved" ->
         d.totalDebt = 40 /\ d.reservedCredit = 20 /\ d.headroom = 0 /\ d.reason = "OVER_LIMIT"
    [] key = "proof-negatives" -> d.totalDebt = 40 /\ d.reservedCredit = 20

Refused(key, report) ==
  CASE key = "missing-B" -> ~ENABLED FinalizeSnapshot(1, now) /\ ~ENABLED Reserves("missing", report, 20)
    [] key = "epoch-1"   -> ~ENABLED Reserves("over-limit", report, 20)
    [] key = "reserved"  -> /\ ~ENABLED Reserves("competitor", manifest.observations["epoch-2"], 20)
                            /\ ~ENABLED Reserves("additional-one", report, 1)
    [] key = "proof-negatives" -> ~ENABLED Submits("B-repay", hand.bundle)
    [] OTHER -> TRUE

Observe ==
  LET key == Current[2]
      report == CollectAggregateStatus(AmountOf(key))
  IN /\ at = (IF NeedsProof(Current) THEN "acquired" ELSE "on") /\ Current[1] = "observe"
     /\ IF AsExpected(key, report.decision, report.reading.snapshotComplete) /\ Refused(key, report)
        THEN /\ at' = "on" /\ hand' = NoProof
             /\ Saves([manifest EXCEPT !.observations[key] = report])
        ELSE Stops /\ Saves(manifest)

Complete ==
  /\ at = "on" /\ Current[1] = "complete"
  /\ Stops /\ Saves([manifest EXCEPT !.status = "COMPLETE"])

Process ==
  \/ Start \/ AcquireProof \/ BindProof \/ Prepare \/ Confirm \/ Deployed \/ Observe \/ Complete

(* The process is killed, or a call it makes throws. *)
Crash ==
  /\ at # "off" /\ Stops /\ Happens("crash")
  /\ UNCHANGED <<exposureVars, gateVars, manifest, mined, horizon>>

-----------------------------------------------------------------------------
(* The chains, the verifier, and those who call the ledger besides the run. *)
Mine(step) ==
  /\ manifest.steps[step].status = "PREPARED" /\ mined[step] = "NONE"
  /\ IF ENABLED Call(step, manifest.steps[step].bundle)
     THEN Call(step, manifest.steps[step].bundle) /\ mined' = [mined EXCEPT ![step] = "SUCCESS"]
     ELSE UNCHANGED <<exposureVars, gateVars>> /\ mined' = [mined EXCEPT ![step] = "REVERTED"]
  /\ UNCHANGED <<manifest, at, hand, horizon, mishaps>>

FinishSource ==
  EndTransaction /\ UNCHANGED <<ledgerVars, now, gateVars, runVars>>

Stranger ==
  /\ Relay \/ Finalize
  /\ Happens("stranger")
  /\ UNCHANGED <<gateVars, manifest, mined, at, hand, horizon>>

(* More time passes than a snapshot is valid for. *)
Delay ==
  /\ now' = now + MaxAge + 1 /\ sourceTime' = now' /\ Happens("delay")
  /\ UNCHANGED <<loans, books, txLogs, receipts, ledgerVars, gateVars,
                 manifest, mined, at, hand, horizon>>

Expire ==
  /\ horizon' = horizon + 1 /\ Happens("expiry")
  /\ UNCHANGED <<exposureVars, gateVars, manifest, mined, at, hand>>

World == (\E step \in Steps : Mine(step)) \/ FinishSource

Next == Process \/ Crash \/ World \/ Stranger \/ Delay \/ Expire

Spec == Init /\ [][Next]_vars

(* The run is started again until it is complete, and goes on while it runs; *)
(* transactions are mined.                                                   *)
FairSpec == Spec /\ WF_vars(Process) /\ WF_vars(World)

-----------------------------------------------------------------------------
(* What audit checks of the manifest, whose blocks it reads again. *)
BindingHolds(key) ==
  LET ref == manifest.submissionProofs[key]
      step == manifest.steps[<<"submit", key>>]
  IN ref # NoProof => /\ step # NoStep /\ step.bundle = ref.bundle
                      /\ ref \in manifest.proofs[key]

ValidateCompletion ==
  /\ \A step \in Steps : manifest.steps[step].status = "CONFIRMED"
  /\ {"A", "B", "registry", "decoder", "ledger", "gate"} \subseteq manifest.deployments
  /\ \A key \in Proven : manifest.submissionProofs[key] # NoProof /\ manifest.proofs[key] # {}
  /\ \A key \in Observed :
       LET r == manifest.observations[key]
       IN r # NoReport /\ AsExpected(key, r.decision, r.reading.snapshotComplete)

Audit ==
  /\ manifest.status = "COMPLETE" => ValidateCompletion
  /\ \A step \in Steps : manifest.steps[step] # NoStep =>
       manifest.steps[step].status = "CONFIRMED" /\ mined[step] = "SUCCESS"
  /\ \A key \in Proven : \A p \in manifest.proofs[key] : p.bundle = p.verifiedAt
  /\ \A key \in Proven : BindingHolds(key)

(* A run that calls itself complete passes its audit, however often it was  *)
(* killed and whatever changed in between: its submissions carry the proofs *)
(* it bound to them (audit, validateCompletion in src/phase2-runtime.js).   *)
CompleteRunPassesAudit == manifest.status = "COMPLETE" => Audit

(* A snapshot rests on checkpoints; those of an epoch are too old before the *)
(* last report on it is read.                                                *)
Overdue ==
  \E i \in 1..Len(receipts) :
    LET log == receipts[i][1]
    IN  /\ log.type = "Checkpoint" /\ now > log.timestamp + MaxAge
        /\ manifest.observations[IF log.epoch = 1 THEN "epoch-1" ELSE "reserved"] = NoReport

(* A run repeated after every interruption completes: "For interruption     *)
(* recovery repeat `run` with the same ID" (docs/PHASE2_PUBLIC_RUN.md).     *)
(* Only these end it: a transaction that reverted, as a submission does     *)
(* whose proof expired after it was prepared; another account that relays   *)
(* to the ledger or certifies first; and time, up to the last report on an  *)
(* epoch.  The replay is observed, and the run completed, also later.       *)
RunCompletes ==
  <>(\/ manifest.status = "COMPLETE" /\ Audit
     \/ \E step \in Steps : mined[step] = "REVERTED"
     \/ mishaps["stranger"] > 0 \/ Overdue)
=============================================================================
