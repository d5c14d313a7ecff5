----------------------------- MODULE RunManifest -----------------------------
(***************************************************************************)
(* The manifest of a v1 run and what the scripts decide from it alone      *)
(* (src/evidence.js): the record of every finished step and, per chain,    *)
(* the transaction being recovered.  A record is its transaction: what a   *)
(* record says besides was read from that transaction's receipt.  No       *)
(* manifest file is an empty one.                                          *)
(***************************************************************************)
EXTENDS RunChains

(* No transaction. *)
NoTx == [kind |-> "none", nonce |-> 0, on |-> << >>, bundle |-> 0]

NoManifest ==
  [rec  |-> [k \in Kinds |-> NoTx],
   pend |-> [c \in {"source", "destination"} |-> NoTx]]

Recorded(m, k) == m.rec[k] # NoTx
Pending(m, k) == m.pend[ChainOf(k)]

(* The contracts a step's transaction is made against: the scripts take *)
(* them from the manifest.                                              *)
Against(k) ==
  CASE k \in {"source-open", "source-repay"} -> <<"source-deploy">>
    [] k = "gate-deploy" -> <<"decoder-deploy", "source-deploy">>
    [] k \in ProofKinds \cup {"commit-credit"} -> <<"gate-deploy">>
    [] OTHER -> << >>

Targets(m, k) == [i \in DOMAIN Against(k) |-> m.rec[Against(k)[i]].nonce]

(* Records a step is not begun without. *)
Needs(k) ==
  {Against(k)[i] : i \in DOMAIN Against(k)} \cup
  (CASE k = "source-repay" -> {"source-open"}
     [] k = "decoder-deploy" -> {"source-deploy"}
     [] k = "gate-deploy" -> {"source-open"}
     [] k = "commit-credit" -> ProofKinds
     [] OTHER -> {})

SourceOf(k) == IF k = "debt-opened" THEN "source-open" ELSE "source-repay"

(* Records without which resume.js registers no transaction of a step: for *)
(* a repayment and a commitment fewer than their scripts need.             *)
Asks(k) ==
  CASE k = "source-deploy" -> {}
    [] k \in {"source-open", "source-repay", "decoder-deploy"} -> {"source-deploy"}
    [] k = "gate-deploy" -> {"source-deploy", "source-open", "decoder-deploy"}
    [] k \in ProofKinds -> {"source-deploy", "gate-deploy", SourceOf(k)}
    [] OTHER -> {"source-deploy", "gate-deploy", "debt-repaid"}

RecordPending(m, t) == [m EXCEPT !.pend[ChainOf(t.kind)] = t]

ClearPending(m, k) == [m EXCEPT !.pend[ChainOf(k)] = NoTx]

FinalizePending(m, t) == [ClearPending(m, t.kind) EXCEPT !.rec[t.kind] = t]

-----------------------------------------------------------------------------
(* A proof file: the horizon of the bundle in it, 0 if there is none. *)
NoProofs == [k \in ProofKinds |-> 0]

RunOrder == <<"source-deploy", "source-open", "source-repay", "proof-open", "proof-repay",
              "gate-deploy", "debt-opened", "debt-repaid", "commit-credit">>

HasProof(proofs, k) == proofs[k] # 0

Done(m, proofs, step) ==
  CASE step = "proof-open"  -> HasProof(proofs, "debt-opened")
    [] step = "proof-repay" -> HasProof(proofs, "debt-repaid")
    [] OTHER -> Recorded(m, step)

FirstUndone(m, proofs) ==
  LET left == {i \in DOMAIN RunOrder : ~Done(m, proofs, RunOrder[i])}
  IN IF left = {} THEN "complete" ELSE RunOrder[Min(left)]

(* What the script a step names sends: deploy-cc3.js carries out two steps. *)
Carries(step) == IF step \in DeployKinds THEN DeployKinds ELSE {step}

(* Mutated form: only the source's pending transaction comes first. *)
NextRunStepSource(m, proofs) ==
  IF m.pend["source"] # NoTx THEN m.pend["source"].kind ELSE FirstUndone(m, proofs)

(* The step resume.js tells the operator to run. *)
NextRunStep(m, proofs) ==
  IF \E c \in DOMAIN m.pend : m.pend[c] # NoTx
  THEN m.pend[IF m.pend["source"] # NoTx THEN "source" ELSE "destination"].kind
  ELSE FirstUndone(m, proofs)

-----------------------------------------------------------------------------
(* What a script's own checks of the manifest let begin: a step that is not *)
(* recorded, after those it builds on, with no other transaction pending.   *)
(* deploy-cc3.js carries out two steps, the gate after the decoder, and     *)
(* looks at its pending transaction before anything else; the other scripts *)
(* ask for the earlier records first.                                       *)
Admits(m, proofs, k) ==
  /\ ~Recorded(m, k)
  /\ Pending(m, k) # NoTx => Pending(m, k).kind = k
  /\ \/ k \in DeployKinds /\ Pending(m, k) # NoTx
     \/ \A j \in Needs(k) : Recorded(m, j)
  /\ k = "source-deploy" /\ Pending(m, k) = NoTx => m = NoManifest
  /\ k = "decoder-deploy" => ~Recorded(m, "gate-deploy")
  /\ k \in ProofKinds => Recorded(m, SourceOf(k)) /\ HasProof(proofs, k)
=============================================================================
