----------------------------- MODULE RunJournal -----------------------------
(***************************************************************************)
(* A v1 run: the scripts an operator starts one after the other, or at     *)
(* once, each of which reads the manifest, sends the transaction of its    *)
(* step, records it as pending and makes it a record once its receipt      *)
(* matches the scenario.  Scripts are killed or fail anywhere.  The hash   *)
(* is recorded after the broadcast: the operator may register a            *)
(* transaction the journal lost with resume.js --tx.                       *)
(***************************************************************************)
EXTENDS RunManifest

CONSTANTS
  NTerminals   \* bound: scripts running at once

ASSUME JournalConstants ==
  NTerminals \in Nat \ {0}

Terminals == 1..NTerminals

VARIABLES
  disk,       \* runs/<id>/manifest.json
  proofs,     \* runs/<id>/proofs/<kind>.json
  negative,   \* runs/<id>/negative.json
  script,     \* the script in each terminal
  overlooked  \* history: a script was started past a lost transaction

files == <<disk, proofs, negative>>
vars == <<chainVars, files, script, overlooked>>

None == [events |-> 0, committed |-> FALSE]
ScriptAt(place, k, m, t) ==
  [at |-> place, kind |-> k, mem |-> m, tx |-> t, bundle |-> 0, seen |-> None]
NoScript == ScriptAt("idle", "none", NoManifest, NoTx)
NoNegative == [gate |-> 0, verified |-> FALSE, seen |-> None]

Init ==
  /\ ChainInit
  /\ disk = NoManifest /\ proofs = NoProofs /\ negative = NoNegative
  /\ script = [p \in Terminals |-> NoScript]
  /\ overlooked = FALSE

-----------------------------------------------------------------------------
(* What the scripts share.  A script keeps the manifest it read and writes *)
(* the whole of it.                                                        *)
At(p, k, place) == script[p].at = place /\ script[p].kind = k
Becomes(p, s) == script' = [script EXCEPT ![p] = s]
Ends(p) == Becomes(p, NoScript)

(* What the chains have or may still get and the journal does not know. *)
Lost == {t \in Sent : Live(t) /\ disk.rec[t.kind] = NoTx /\ Pending(disk, t.kind) # t}

(* A script starts in the first free terminal. *)
Starts(p, s) ==
  /\ script[p] = NoScript /\ \A q \in 1..(p - 1) : script[q] # NoScript
  /\ Becomes(p, s)
  /\ IF \A q \in Terminals : script[q] = NoScript THEN UNCHANGED mishaps ELSE Happens("overlap")
  /\ UNCHANGED <<fate, loan, gate, files>>

Overlooks(k) == overlooked' = (overlooked \/ \E t \in Lost : ChainOf(t.kind) = ChainOf(k))

(* Mutated form: a pending transaction is not looked at. *)
BeginFresh(p, k, place) ==
  /\ Admits(disk, proofs, k)
  /\ Starts(p, ScriptAt(place, k, disk, NoTx))
  /\ Overlooks(k)

Begin(p, k, place) ==
  /\ Admits(disk, proofs, k)
  /\ Starts(p, ScriptAt(IF Pending(disk, k) = NoTx THEN place ELSE "recover", k, disk, NoTx))
  /\ Overlooks(k)

(* await contract.method(...): the gas estimate must succeed first. *)
Send(p, k) ==
  LET t == [kind |-> k, nonce |-> NextNonce(ChainOf(k)),
            on |-> Targets(script[p].mem, k), bundle |-> script[p].bundle]
  IN /\ At(p, k, "ready")
     /\ IF Accepts(Contracts, t)
        THEN Broadcast(t) /\ Becomes(p, ScriptAt("sent", k, script[p].mem, t))
        ELSE Ends(p) /\ UNCHANGED chainVars
     /\ UNCHANGED <<files, overlooked>>

(* recordPending, then the write of the manifest, refused if it must not *)
(* exist and does.                                                       *)
RecordSent(p, k, exclusive) ==
  LET m == RecordPending(script[p].mem, script[p].tx)
  IN /\ At(p, k, "sent")
     /\ IF exclusive /\ disk # NoManifest
        THEN Ends(p) /\ UNCHANGED disk
        ELSE disk' = m /\ Becomes(p, ScriptAt("waiting", k, m, script[p].tx))
     /\ UNCHANGED <<chainVars, proofs, negative, overlooked>>

(* Mutated forms: the record is merged into the manifest as it is now; a    *)
(* reverted transaction is recorded, too; it makes room for another one.    *)
SettleMerging(p, t, next) ==
  /\ IF t \in Sent /\ fate[t] = "matched"
     THEN disk' = FinalizePending(disk, t) /\ Becomes(p, next)
     ELSE Ends(p) /\ UNCHANGED disk
  /\ UNCHANGED <<chainVars, proofs, negative, overlooked>>

SettleReverted(p, t, next) ==
  /\ IF t \in Sent /\ fate[t] \in {"matched", "reverted"}
     THEN disk' = FinalizePending(script[p].mem, t) /\ Becomes(p, next)
     ELSE Ends(p) /\ UNCHANGED disk
  /\ UNCHANGED <<chainVars, proofs, negative, overlooked>>

SettleDiscarding(p, t, next) ==
  /\ IF t \in Sent /\ fate[t] = "matched"
     THEN disk' = FinalizePending(script[p].mem, t) /\ Becomes(p, next)
     ELSE /\ Ends(p)
          /\ disk' = IF t \in Sent /\ fate[t] = "reverted"
                     THEN ClearPending(script[p].mem, t.kind) ELSE disk
  /\ UNCHANGED <<chainVars, proofs, negative, overlooked>>

(* classifyPendingReceipt, then the record, from the receipt and from the *)
(* contract's state at its block: a transaction that waits or reverted,   *)
(* and one whose block ends in another state, stays pending.              *)
Settle(p, t, next) ==
  /\ IF t \in Sent /\ fate[t] = "matched"
     THEN disk' = FinalizePending(script[p].mem, t) /\ Becomes(p, next)
     ELSE Ends(p) /\ UNCHANGED disk
  /\ UNCHANGED <<chainVars, proofs, negative, overlooked>>

(* transaction.wait() *)
Await(p, k, next) ==
  /\ At(p, k, "waiting")
  /\ fate[script[p].tx] \notin {"pool", "dropped"}
  /\ Settle(p, script[p].tx, next)

(* getTransaction and getTransactionReceipt of the pending hash. *)
Recover(p, k) ==
  /\ At(p, k, "recover")
  /\ Settle(p, Pending(script[p].mem, k), NoScript)

-----------------------------------------------------------------------------
(* The scripts. *)
DeploySource(p) ==
  LET k == "source-deploy" IN
  \/ Begin(p, k, "ready") \/ Send(p, k) \/ RecordSent(p, k, TRUE)
  \/ Await(p, k, NoScript) \/ Recover(p, k)

SourceAction(p) ==
  \E k \in {"source-open", "source-repay"} :
    \/ Begin(p, k, "ready") \/ Send(p, k) \/ RecordSent(p, k, FALSE)
    \/ Await(p, k, NoScript) \/ Recover(p, k)

(* After the decoder it waited for, not after one it recovered, the script *)
(* goes on to the gate, whose arguments name the loan.                     *)
ThenGate(p) ==
  LET m == FinalizePending(script[p].mem, script[p].tx)
  IN IF Recorded(m, "source-open")
     THEN ScriptAt("ready", "gate-deploy", m, NoTx)
     ELSE NoScript

DeployDestination(p) ==
  \E k \in DeployKinds :
    \/ Begin(p, k, "ready") \/ Send(p, k) \/ RecordSent(p, k, FALSE)
    \/ Await(p, k, IF k = "decoder-deploy" THEN ThenGate(p) ELSE NoScript)
    \/ Recover(p, k)

(* The saved bundle is used if the verifier accepts it.  Mutated form: as  *)
(* it is.                                                                  *)
SavedProof(saved) == saved

EnsureFreshProof(saved) == IF saved = epoch THEN saved ELSE epoch

Preflight(p, k) ==
  LET bundle == EnsureFreshProof(proofs[k])
  IN /\ At(p, k, "preflight")
     /\ proofs' = [proofs EXCEPT ![k] = bundle]
     /\ Becomes(p, [at |-> "ready", kind |-> k, mem |-> script[p].mem, tx |-> NoTx,
                     bundle |-> bundle, seen |-> None])
     /\ UNCHANGED <<chainVars, disk, negative, overlooked>>

SubmitProof(p) ==
  \E k \in ProofKinds :
    \/ Begin(p, k, "preflight") \/ Preflight(p, k) \/ Send(p, k)
    \/ RecordSent(p, k, FALSE) \/ Await(p, k, NoScript) \/ Recover(p, k)

Demo(p) ==
  LET k == "commit-credit" IN
  \/ Begin(p, k, "ready") \/ Send(p, k) \/ RecordSent(p, k, FALSE)
  \/ Await(p, k, NoScript) \/ Recover(p, k)

(* fetch-proof.js writes a bundle only after the verifier accepted it: the  *)
(* saved one, or another one once the source transaction is attested.       *)
FetchProof ==
  \E k \in ProofKinds : \E refresh \in BOOLEAN :
    LET bundle == IF proofs[k] # 0 /\ ~refresh THEN proofs[k] ELSE epoch
    IN /\ Recorded(disk, SourceOf(k))
       /\ bundle = epoch
       /\ proofs' = [proofs EXCEPT ![k] = bundle]
       /\ UNCHANGED <<chainVars, disk, negative, script, overlooked>>

(* demo-negative.js reads the gate at a block, checks both saved bundles    *)
(* and the replay there, reads the gate again and writes its evidence once, *)
(* whatever the verdict.                                                    *)
ObserveNegative(p) ==
  LET g == disk.rec["gate-deploy"].nonce
  IN /\ negative = NoNegative
     /\ \A k \in ProofKinds \cup {"gate-deploy"} : Recorded(disk, k)
     /\ Starts(p, [at |-> "observed", kind |-> "negative", mem |-> disk, tx |-> NoTx,
          seen |-> gate[g],
          bundle |-> IF \A k \in ProofKinds : proofs[k] = epoch THEN epoch ELSE 0])
     /\ UNCHANGED overlooked

Verdict(bundle, before, after) == bundle # 0 /\ before = after

WriteNegative(p) ==
  LET g == script[p].mem.rec["gate-deploy"].nonce
  IN /\ At(p, "negative", "observed")
     /\ negative' = IF negative # NoNegative THEN negative ELSE
          [gate |-> g, seen |-> gate[g],
           verified |-> Verdict(script[p].bundle, script[p].seen, gate[g])]
     /\ Ends(p)
     /\ UNCHANGED <<chainVars, disk, proofs, overlooked>>

DemoNegative(p) == ObserveNegative(p) \/ WriteNegative(p)

-----------------------------------------------------------------------------
(* resume.js --tx --kind: a transaction the chain knows and that did not   *)
(* revert, the one its step would send now, of a step without a record and *)
(* without another pending transaction.                                    *)
Registrable(m, t) ==
  /\ Known(t) /\ fate[t] # "reverted"
  /\ ~Recorded(m, t.kind) /\ Pending(m, t.kind) = NoTx
  /\ t.kind = "source-deploy" \/ m # NoManifest
  /\ \A j \in Asks(t.kind) : Recorded(m, j)
  /\ t.on = Targets(m, t.kind)
  /\ t.kind \in ProofKinds => t.bundle = proofs[t.kind]

Resume(p) ==
  \/ \E t \in Lost :
       /\ Registrable(disk, t)
       /\ Starts(p, ScriptAt("register", t.kind, disk, t))
       /\ UNCHANGED overlooked
  \/ /\ script[p].at = "register"
     /\ disk' = IF script[p].mem = NoManifest /\ disk # NoManifest THEN disk
                ELSE RecordPending(script[p].mem, script[p].tx)
     /\ Ends(p)
     /\ UNCHANGED <<chainVars, proofs, negative, overlooked>>

(* The script is killed, or a call it makes throws. *)
Crash(p) ==
  /\ script[p] # NoScript
  /\ Ends(p) /\ Happens("crash")
  /\ UNCHANGED <<fate, loan, gate, files, overlooked>>

Script(p) ==
  DeploySource(p) \/ SourceAction(p) \/ DeployDestination(p) \/ SubmitProof(p) \/ Demo(p)

World == Chains /\ UNCHANGED <<files, script, overlooked>>

Next ==
  \/ \E p \in Terminals : Script(p) \/ DemoNegative(p) \/ Resume(p) \/ Crash(p)
  \/ FetchProof \/ World

Spec == Init /\ [][Next]_vars

-----------------------------------------------------------------------------
(* What resume.js audits of a complete run: every receipt and its target,   *)
(* and the gate as it is now.                                               *)
Made(m, k) ==
  /\ Succeeded(m.rec[k]) /\ m.rec[k].kind = k
  /\ \A i \in DOMAIN Against(k) : Recorded(m, Against(k)[i])
  /\ m.rec[k].on = Targets(m, k)

Final == [events |-> 2, committed |-> TRUE]

Audit(m) ==
  /\ \A k \in Kinds : Made(m, k)
  /\ gate[m.rec["gate-deploy"].nonce] = Final

Complete == NextRunStep(disk, proofs) = "complete"

(* The canonical page (ui/app.js) shows the run if the manifest has every   *)
(* record and the negative evidence is of the gate's state after the commit.*)
RuntimeEvidence(m, n) ==
  n.verified /\ n.gate = m.rec["gate-deploy"].nonce /\ n.seen = Final

CanonicalView(m, n) == (\A k \in Kinds : Recorded(m, k)) /\ RuntimeEvidence(m, n)

-----------------------------------------------------------------------------
(* The operator runs the step resume.js names, registers what was lost, and *)
(* takes the negative evidence of a complete run.                           *)
Planned(p) ==
  LET step == NextRunStep(disk, proofs)
  IN /\ script[p] = NoScript /\ Script(p)
     /\ script'[p].kind \in Carries(step)

FairSpec ==
  /\ Spec
  /\ \A p \in Terminals :
       /\ SF_vars(Planned(p)) /\ WF_vars(script[p] # NoScript /\ Script(p)) /\ WF_vars(Resume(p))
       /\ WF_vars(Complete /\ ObserveNegative(p)) /\ WF_vars(WriteNegative(p))
  /\ WF_vars((\E k \in ProofKinds : ~HasProof(proofs, k)) /\ FetchProof)
  /\ WF_vars(MineBlock /\ UNCHANGED <<files, script, overlooked>>)

-----------------------------------------------------------------------------
(* Whatever scripts run at once, and whichever of them wrote last, the      *)
(* records of the manifest belong together: each is of a transaction that   *)
(* succeeded and was made against the contracts recorded beside it.         *)
ManifestIsCoherent == \A k \in Kinds : Recorded(disk, k) => Made(disk, k)

(* The step nextRunStep names is one whose script begins: no script refuses *)
(* what resume.js tells the operator to run.  There is one way to get where *)
(* every script refuses: of scripts at once, one writes a manifest it read  *)
(* before another one finished, so that records are gone, and resume.js     *)
(* registers the later of their transactions without asking for the earlier *)
(* record.  Its script asks for it (scripts/source-actions.js, demo.js),    *)
(* and no other one begins beside the pending transaction.                  *)
Orphaned(k) ==
  LET missing == [source |-> "source-open", destination |-> "debt-opened"]
  IN /\ k \in {"source-repay", "commit-credit"} /\ Pending(disk, k).kind = k
     /\ ~Recorded(disk, missing[ChainOf(k)])

PlanIsAdmitted ==
  LET step == NextRunStep(disk, proofs)
  IN step \in Kinds =>
       \/ \E k \in Carries(step) : Admits(disk, proofs, k)
       \/ mishaps["overlap"] > 0 /\ Orphaned(step)

(* A run nextRunStep calls complete passes the audit, unless a second       *)
(* repayment was made and someone relayed it, too.                          *)
CompleteRunPassesAudit ==
  Complete => \/ Audit(disk)
              \/ gate[disk.rec["gate-deploy"].nonce].events > 2

(* One script at a time, a pending transaction is only ever removed by      *)
(* making it a record, and none is sent for a step that has one recorded,   *)
(* pending or final: "no replacement was sent; pending evidence was         *)
(* retained" (scripts/source-actions.js).                                   *)
RemovedAsRecord(c) ==
  LET t == disk.pend[c]
  IN (t # NoTx /\ disk'.pend[c] # t) => disk'.pend[c] = NoTx /\ disk'.rec[t.kind] = t

NotReplaced(t) == ~Recorded(disk, t.kind) /\ Pending(disk, t.kind) = NoTx

EvidenceIsKept ==
  [][mishaps["overlap"] = 0 =>
       /\ \A c \in DOMAIN disk.pend : RemovedAsRecord(c)
       /\ \A t \in Sent' \ Sent : NotReplaced(t)]_vars

(* docs/TEST_MATRIX.md claims it of every retry: "Crash after broadcast:    *)
(* ... retry validates and recovers the recorded transaction instead of     *)
(* sending a replacement".                                                  *)
AtMostOneTransaction ==
  \A t, u \in Sent : t.kind = u.kind /\ Live(t) /\ Live(u) => t = u

(* It holds as long as the operator runs one script at a time and registers *)
(* the transaction a crash between broadcast and record left behind before  *)
(* going on.                                                                *)
OneUnlessOverlooked == mishaps["overlap"] = 0 /\ ~overlooked => AtMostOneTransaction

(* Then a run is completed, passes its audit and is shown, too, unless a    *)
(* transaction it recorded was dropped or reverted, a stranger relayed its  *)
(* proof first, or the negative evidence was taken too early: the journal   *)
(* and the evidence file keep what they have for good.                      *)
Stuck ==
  \E c \in DOMAIN disk.pend :
    LET t == disk.pend[c] IN t # NoTx /\ fate[t] \notin {"pool", "matched"}

Spoiled == negative # NoNegative /\ ~(negative.verified /\ negative.seen = Final)

RunCompletes ==
  <>(\/ Complete /\ Audit(disk) /\ CanonicalView(disk, negative)
     \/ mishaps["overlap"] > 0 \/ overlooked \/ Stuck \/ mishaps["relay"] > 0 \/ Spoiled)
=============================================================================
