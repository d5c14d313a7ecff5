-------------------------- MODULE RunJournalProofs --------------------------
(***************************************************************************)
(* Proofs about the v1 run journal, for any number of scripts and mishaps. *)
(*                                                                         *)
(* Every manifest there is, the one on disk and the one each script read   *)
(* and will write, is sound by itself: its records succeeded and come after*)
(* the steps they build on; they and its pending transactions were made    *)
(* against contracts recorded beside them.  A step only adds to its own    *)
(* manifest a record it did not have, so no contract is replaced under the *)
(* transactions made against it; what another script wrote meanwhile does  *)
(* not matter (Inv).  On it rest the plan, with the proof files there must *)
(* be (ProofsInv), and the audit, with what gates never take back          *)
(* (ChainsInv).  One script at a time has the manifest on disk (Alone): so *)
(* no record goes missing under a transaction (Backed), evidence is kept,  *)
(* and a step has one transaction, if none is overlooked (OnceInv).        *)
(***************************************************************************)
EXTENDS RunJournal, DataLemmas

(* Facts about a manifest m, given the fates f of the transactions.  What a *)
(* step is not taken without, and the part of it that is asked of a pending *)
(* transaction:                                                             *)
Before(k) == Needs(k) \cup Asks(k)

Built(m, k) == \A j \in Before(k) : Recorded(m, j)
Asked(m, k) == \A j \in Asks(k) : Recorded(m, j)

Aimed(m, t, f) ==
  t \in DOMAIN f /\ t.kind \in Kinds /\ Asked(m, t.kind) /\ t.on = Targets(m, t.kind)

Won(t, f) == t \in DOMAIN f /\ f[t] \in {"matched", "succeeded"}

Ends2 == {"source", "destination"}

Shape(m, f) ==
  m \in [rec : [Kinds -> DOMAIN f \cup {NoTx}], pend : [Ends2 -> DOMAIN f \cup {NoTx}]]

Sound(m, f) ==
  /\ Shape(m, f)
  /\ \A k \in Kinds : Recorded(m, k) =>
       Won(m.rec[k], f) /\ m.rec[k].kind = k /\ Aimed(m, m.rec[k], f) /\ Built(m, k)
  /\ \A c \in Ends2 : m.pend[c] # NoTx =>
       /\ Aimed(m, m.pend[c], f)
       /\ ChainOf(m.pend[c].kind) = c /\ ~Recorded(m, m.pend[c].kind)

(* What a script holds: its step is not recorded in its manifest, and what *)
(* the step builds on is, which resume.js does not ask in full.            *)
Carrying(s, f) ==
  /\ s.at \in {"ready", "preflight"} => s.kind \in Kinds
  /\ s.at \in {"ready", "preflight", "sent", "waiting", "recover"} => Built(s.mem, s.kind)
  /\ s.at \in {"sent", "waiting", "register"} => s.tx.kind = s.kind /\ Aimed(s.mem, s.tx, f)
  /\ s.at \in {"ready", "preflight", "sent", "register"} => Pending(s.mem, s.kind) = NoTx
  /\ s.at = "waiting" => Pending(s.mem, s.kind) = s.tx
  /\ s.at = "recover" =>
       LET t == Pending(s.mem, s.kind) IN t # NoTx /\ t.kind = s.kind /\ Aimed(s.mem, t, f)
  /\ s.at \notin {"idle", "observed"} => ~Recorded(s.mem, s.kind)

(* A record with a script's fields, whatever they hold. *)
ScriptOver(S) == [at : S, kind : S, mem : S, tx : S, bundle : S, seen : S]

IsScript(s) == \E S : s \in ScriptOver(S)

ScriptSound(s, f) ==
  /\ IsScript(s)
  /\ Sound(s.mem, f)
  /\ Carrying(s, f)

Inv ==
  /\ \A t \in DOMAIN fate : t.kind \in Kinds
  /\ Sound(disk, fate)
  /\ script = [p \in Terminals |-> script[p]]
  /\ \A p \in Terminals : ScriptSound(script[p], fate)

-----------------------------------------------------------------------------
(* Later fates keep what was sound. *)
Later(f, g) == DOMAIN f \subseteq DOMAIN g /\ \A t : Won(t, f) => Won(t, g)

LEMMA SoundLater ==
  ASSUME NEW m, NEW f, NEW g, Sound(m, f), Later(f, g)
  PROVE  Sound(m, g)
<1>1. Shape(m, g)
  BY DEF Sound, Shape, Later
<1> QED BY <1>1 DEF Sound, Later, Aimed

LEMMA ScriptLater ==
  ASSUME NEW s, NEW f, NEW g, ScriptSound(s, f), Later(f, g)
  PROVE  ScriptSound(s, g)
BY SoundLater DEF ScriptSound, Carrying, Aimed, Later

LEMMA AgainstKinds ==
  ASSUME NEW k \in Kinds
  PROVE  /\ \A i \in DOMAIN Against(k) : Against(k)[i] \in Kinds
         /\ \A i \in DOMAIN Against(k) : Against(k)[i] \in Asks(k)
BY DEF Against, Asks, Kinds, SourceKinds, ProofKinds, DeployKinds

LEMMA BeforeKinds == ASSUME NEW k \in Kinds PROVE Before(k) \subseteq Kinds
<1>1. Needs(k) \subseteq Kinds
  BY AgainstKinds DEF Needs, Kinds, SourceKinds, ProofKinds, DeployKinds
<1>2. Asks(k) \subseteq Kinds
  BY DEF Asks, SourceOf, Kinds, SourceKinds, ProofKinds, DeployKinds
<1> QED BY <1>1, <1>2 DEF Before

LEMMA KindNames ==
  {"source-deploy", "source-open", "decoder-deploy", "gate-deploy"} \subseteq Kinds
BY DEF Kinds, SourceKinds, DeployKinds

(* What the steps build on, name by name. *)
LEMMA BeforeNames ==
  /\ Before("source-open") = {"source-deploy"}
  /\ Before("source-repay") = {"source-deploy", "source-open"}
  /\ Before("decoder-deploy") = {"source-deploy"}
  /\ Before("gate-deploy") = {"decoder-deploy", "source-deploy", "source-open"}
  /\ Before("debt-opened") = {"source-deploy", "gate-deploy", "source-open"}
  /\ Before("debt-repaid") = {"source-deploy", "gate-deploy", "source-repay"}
  /\ Before("commit-credit") = {"source-deploy", "gate-deploy", "debt-opened", "debt-repaid"}
BY DEF Before, Needs, Asks, Against, SourceOf, ProofKinds

(* The same contracts, the same targets. *)
LEMMA SameTargets ==
  ASSUME NEW m, NEW n, NEW k,
         \A i \in DOMAIN Against(k) : n.rec[Against(k)[i]] = m.rec[Against(k)[i]]
  PROVE  Targets(n, k) = Targets(m, k)
BY DEF Targets

LEMMA BuiltKept ==
  ASSUME NEW m, NEW n, NEW k \in Kinds,
         \A j \in Kinds : Recorded(m, j) => Recorded(n, j)
  PROVE  (Built(m, k) => Built(n, k)) /\ (Asked(m, k) => Asked(n, k))
BY BeforeKinds DEF Built, Asked, Before

LEMMA ScriptFields ==
  ASSUME NEW a, NEW k, NEW m, NEW t, NEW b, NEW e
  PROVE  IsScript([at |-> a, kind |-> k, mem |-> m, tx |-> t, bundle |-> b, seen |-> e])
<1> DEFINE S == {a, k, m, t, b, e}
<1>1. [at |-> a, kind |-> k, mem |-> m, tx |-> t, bundle |-> b, seen |-> e] \in ScriptOver(S)
  BY DEF ScriptOver
<1> QED BY <1>1 DEF IsScript

LEMMA ChainOfKind == ASSUME NEW k PROVE ChainOf(k) \in Ends2
BY DEF ChainOf, Ends2

(* Recording a transaction as pending. *)
LEMMA SoundPending ==
  ASSUME NEW m, NEW f, NEW t, Sound(m, f), Aimed(m, t, f), ~Recorded(m, t.kind)
  PROVE  /\ Sound(RecordPending(m, t), f)
         /\ RecordPending(m, t).rec = m.rec
         /\ Aimed(RecordPending(m, t), t, f)
         /\ Pending(RecordPending(m, t), t.kind) = t
<1> DEFINE n == RecordPending(m, t)
<1>0. ChainOf(t.kind) \in Ends2
  BY ChainOfKind
<1>1. n.rec = m.rec /\ n.pend = [m.pend EXCEPT ![ChainOf(t.kind)] = t] /\ Shape(n, f)
  BY <1>0 DEF RecordPending, Sound, Shape, Aimed
<1>2. \A u : Aimed(m, u, f) => Aimed(n, u, f)
  BY <1>1, SameTargets, BuiltKept DEF Aimed, Recorded
<1>3. \A c \in Ends2 : n.pend[c] # NoTx =>
        /\ Aimed(n, n.pend[c], f)
        /\ ChainOf(n.pend[c].kind) = c /\ ~Recorded(n, n.pend[c].kind)
  BY <1>0, <1>1, <1>2 DEF Sound, Shape, Recorded
<1>4. \A k \in Kinds : Recorded(n, k) =>
        Won(n.rec[k], f) /\ n.rec[k].kind = k /\ Aimed(n, n.rec[k], f) /\ Built(n, k)
  BY <1>1, <1>2, BuiltKept DEF Sound, Recorded
<1>5. Pending(n, t.kind) = t
  BY <1>0, <1>1 DEF Pending, Sound, Shape
<1> QED BY <1>1, <1>2, <1>3, <1>4, <1>5 DEF Sound

(* Making it a record: nothing sound was made against what is not recorded. *)
LEMMA SoundRecord ==
  ASSUME NEW m, NEW f, NEW t, Sound(m, f), Aimed(m, t, f), Built(m, t.kind), Won(t, f),
         ~Recorded(m, t.kind)
  PROVE  /\ Sound(FinalizePending(m, t), f)
         /\ \A k \in Kinds \ {t.kind} : FinalizePending(m, t).rec[k] = m.rec[k]
<1> DEFINE n == FinalizePending(m, t)
<1>0. ChainOf(t.kind) \in Ends2 /\ t.kind \in Kinds
  BY ChainOfKind DEF Aimed
<1>1. /\ n.rec = [m.rec EXCEPT ![t.kind] = t]
      /\ n.pend = [m.pend EXCEPT ![ChainOf(t.kind)] = NoTx]
      /\ Shape(n, f)
  BY <1>0 DEF FinalizePending, ClearPending, Sound, Shape, Aimed
<1>2. \A k \in Kinds : k # t.kind => n.rec[k] = m.rec[k]
  BY <1>1 DEF Sound, Shape
<1>3. \A u : Aimed(m, u, f) => Aimed(n, u, f)
  <2> SUFFICES ASSUME NEW u, Aimed(m, u, f) PROVE Aimed(n, u, f)
    OBVIOUS
  <2>1. \A i \in DOMAIN Against(u.kind) :
          Against(u.kind)[i] \in Kinds /\ Against(u.kind)[i] # t.kind
    BY AgainstKinds DEF Aimed, Asked
  <2>2. Targets(n, u.kind) = Targets(m, u.kind)
    BY <1>2, <2>1, SameTargets
  <2>3. \A j \in Kinds : Recorded(m, j) => Recorded(n, j)
    BY <1>2 DEF Recorded
  <2>4. Asked(n, u.kind)
    BY <2>3, BuiltKept DEF Aimed
  <2> QED BY <2>2, <2>4 DEF Aimed
<1>4. n.rec[t.kind] = t
  BY <1>0, <1>1 DEF Sound, Shape
<1>7. \A k \in Kinds : Built(m, k) => Built(n, k)
  BY <1>2, BuiltKept DEF Recorded
<1>5. \A k \in Kinds : Recorded(n, k) =>
        Won(n.rec[k], f) /\ n.rec[k].kind = k /\ Aimed(n, n.rec[k], f) /\ Built(n, k)
  BY <1>2, <1>3, <1>4, <1>7 DEF Sound, Recorded
<1>6. ASSUME NEW c \in Ends2, n.pend[c] # NoTx
      PROVE  /\ Aimed(n, n.pend[c], f)
             /\ ChainOf(n.pend[c].kind) = c /\ ~Recorded(n, n.pend[c].kind)
  <2>1. n.pend[c] = m.pend[c] /\ c # ChainOf(t.kind)
    BY <1>0, <1>1, <1>6 DEF Sound, Shape
  <2>2. /\ Aimed(m, m.pend[c], f)
        /\ ChainOf(m.pend[c].kind) = c /\ ~Recorded(m, m.pend[c].kind)
    BY <1>6, <2>1 DEF Sound
  <2>3. m.pend[c].kind \in Kinds \ {t.kind}
    BY <2>1, <2>2 DEF Aimed
  <2> HIDE DEF n
  <2> QED BY <1>2, <1>3, <2>1, <2>2, <2>3 DEF Recorded
<1> QED BY <1>1, <1>2, <1>5, <1>6 DEF Sound

-----------------------------------------------------------------------------
LEMMA EmptySound == ASSUME NEW f PROVE Sound(NoManifest, f) /\ ScriptSound(NoScript, f)
<1>1. /\ NoManifest.rec = [k \in Kinds |-> NoTx]
      /\ NoManifest.pend = [c \in Ends2 |-> NoTx]
      /\ Shape(NoManifest, f)
  BY DEF NoManifest, Shape, Ends2
<1>2. Sound(NoManifest, f)
  BY <1>1 DEF Sound, Recorded, Ends2
<1> QED BY <1>2, ScriptFields DEF ScriptSound, NoScript, ScriptAt, Carrying

LEMMA InitInv == Init => Inv
<1> SUFFICES ASSUME Init PROVE Inv
  OBVIOUS
<1>1. DOMAIN fate = {}
  BY DEF Init, ChainInit
<1>2. Sound(disk, fate) /\ ScriptSound(NoScript, fate)
  BY EmptySound DEF Init
<1> QED BY <1>1, <1>2 DEF Init, Inv

(* A step that leaves the chains' facts, changes one script to a sound one *)
(* and the disk to a sound manifest.                                       *)
LEMMA StepInv ==
  ASSUME Inv, NEW p \in Terminals, NEW s, Becomes(p, s), ScriptSound(s, fate'),
         Sound(disk', fate'), Later(fate, fate'), \A t \in DOMAIN fate' : t.kind \in Kinds
  PROVE  Inv'
<1>1. script' = [q \in Terminals |-> script'[q]]
  BY DEF Inv, Becomes
<1>2. \A q \in Terminals : ScriptSound(script'[q], fate')
  BY ScriptLater DEF Inv, Becomes
<1> QED BY <1>1, <1>2 DEF Inv

(* The same with the chains unchanged. *)
LEMMA QuietStep ==
  ASSUME Inv, UNCHANGED fate, NEW p \in Terminals, NEW s, Becomes(p, s),
         ScriptSound(s, fate), Sound(disk', fate)
  PROVE  Inv'
<1>1. Later(fate, fate')
  BY DEF Later
<1> QED BY <1>1, StepInv DEF Inv

LEMMA EndsInv ==
  ASSUME Inv, UNCHANGED fate, NEW p \in Terminals, Ends(p), Sound(disk', fate)
  PROVE  Inv'
BY QuietStep, EmptySound DEF Ends

(* The chains only add to what succeeded. *)
LEMMA EndsInLater ==
  ASSUME NEW s, NEW o, EndsIn(s, o), \A t \in DOMAIN o : t \in Sent => fate[t] = "pool"
  PROVE  Later(fate, fate') /\ DOMAIN fate' = DOMAIN fate
BY DEF EndsIn, Sent, Later, Won

LEMMA ChainsLater ==
  ASSUME Chains
  PROVE  Later(fate, fate') /\ DOMAIN fate' = DOMAIN fate
<1>1. CASE MineBlock
  <2> PICK c \in {"source", "destination"} : \E t \in First(c) :
        MineAlone(t) \/ MineBeforeRelay(t) \/ \E u \in Pool(c) : MineBoth(t, u)
    BY <1>1 DEF MineBlock
  <2> PICK t \in First(c) :
        MineAlone(t) \/ MineBeforeRelay(t) \/ \E u \in Pool(c) : MineBoth(t, u)
    OBVIOUS
  <2>1. fate[t] = "pool"
    BY DEF First, Pool
  <2>2. CASE MineAlone(t)
    BY <2>1, <2>2, EndsInLater DEF MineAlone
  <2>3. CASE MineBeforeRelay(t)
    BY <2>1, <2>3, EndsInLater DEF MineBeforeRelay
  <2>4. ASSUME NEW u \in Pool(c), MineBoth(t, u)
        PROVE  Later(fate, fate') /\ DOMAIN fate' = DOMAIN fate
    <3>1. fate[u] = "pool"
      BY DEF Pool
    <3> QED BY <2>1, <2>4, <3>1, EndsInLater DEF MineBoth
  <2> QED BY <2>2, <2>3, <2>4
<1>2. CASE Relay
  BY <1>2, EndsInLater DEF Relay
<1>3. CASE Drop
  BY <1>3 DEF Drop, Sent, Later, Won
<1>4. CASE Expire
  BY <1>4 DEF Expire, Later
<1> QED BY <1>1, <1>2, <1>3, <1>4 DEF Chains

LEMMA BroadcastLater ==
  ASSUME NEW t, Broadcast(t)
  PROVE  Later(fate, fate') /\ DOMAIN fate' = DOMAIN fate \cup {t}
<1>1. ~Won(t, fate)
  BY DEF Broadcast, Taken, Sent, Won
<1> QED BY <1>1 DEF Broadcast, Sent, Later, Won

-----------------------------------------------------------------------------
(* The steps of the scripts: what begins has all it builds on. *)
LEMMA AdmittedBuilt ==
  ASSUME NEW m, NEW f, NEW q, NEW k \in Kinds, Sound(m, f), Admits(m, q, k),
         Pending(m, k) # NoTx => Aimed(m, Pending(m, k), f)
  PROVE  Built(m, k)
<1>1. CASE k \in DeployKinds /\ Pending(m, k) # NoTx
  <2>1. Asked(m, k)
    BY <1>1 DEF Admits, Aimed
  <2>2. Needs(k) \subseteq Asks(k)
    BY <1>1 DEF Needs, Asks, Against, ProofKinds, DeployKinds
  <2> QED BY <2>1, <2>2 DEF Built, Before, Asked
<1>2. CASE \A j \in Needs(k) : Recorded(m, j)
  <2>1. Recorded(m, "gate-deploy") => Recorded(m, "source-deploy")
    BY KindNames, BeforeNames DEF Sound, Built
  <2>2. k \in ProofKinds => Recorded(m, SourceOf(k))
    BY DEF Admits
  <2>3. \A j \in Asks(k) : j \in Needs(k) \/ (k \in ProofKinds /\ j = SourceOf(k))
                            \/ (j = "source-deploy" /\ "gate-deploy" \in Needs(k))
    BY DEF Needs, Asks, Against, Kinds, SourceKinds, ProofKinds, DeployKinds
  <2> QED BY <1>2, <2>1, <2>2, <2>3 DEF Built, Before
<1> QED BY <1>1, <1>2 DEF Admits

LEMMA BeginInv ==
  ASSUME Inv, NEW p \in Terminals, NEW k \in Kinds, NEW place \in {"ready", "preflight"},
         Begin(p, k, place)
  PROVE  Inv'
<1> DEFINE s == [at |-> IF Pending(disk, k) = NoTx THEN place ELSE "recover", kind |-> k,
                 mem |-> disk, tx |-> NoTx, bundle |-> 0, seen |-> None]
<1>1. Admits(disk, proofs, k) /\ Becomes(p, s) /\ UNCHANGED <<fate, disk>>
  BY DEF Begin, Starts, files, ScriptAt
<1>2. IsScript(s)
  BY ScriptFields
<1>3. Sound(disk, fate)
  BY DEF Inv
<1>4. ~Recorded(disk, k)
  BY <1>1 DEF Admits
<1>5. Pending(disk, k) # NoTx =>
        Pending(disk, k).kind = k /\ Aimed(disk, Pending(disk, k), fate)
  BY <1>1, <1>3, ChainOfKind DEF Admits, Pending, Sound
<1>7. Built(disk, k)
  BY <1>1, <1>3, <1>5, AdmittedBuilt
<1>6. ScriptSound(s, fate)
  BY <1>2, <1>3, <1>4, <1>5, <1>7 DEF ScriptSound, Carrying
<1> QED BY <1>1, <1>3, <1>6, QuietStep

LEMMA SendInv ==
  ASSUME Inv, NEW p \in Terminals, NEW k \in Kinds, Send(p, k)
  PROVE  Inv'
<1> DEFINE t == [kind |-> k, nonce |-> NextNonce(ChainOf(k)),
                 on |-> Targets(script[p].mem, k), bundle |-> script[p].bundle]
<1>1. At(p, k, "ready") /\ UNCHANGED disk
  BY DEF Send, files
<1>2. CASE Ends(p) /\ UNCHANGED chainVars
  BY <1>1, <1>2, EndsInv DEF Inv, chainVars
<1>3. CASE Broadcast(t) /\ Becomes(p, ScriptAt("sent", k, script[p].mem, t))
  <2>1. Later(fate, fate') /\ DOMAIN fate' = DOMAIN fate \cup {t}
    BY <1>3, BroadcastLater
  <2>2. ScriptSound(script[p], fate')
    BY <2>1, ScriptLater DEF Inv
  <2>3. /\ Built(script[p].mem, k) /\ ~Recorded(script[p].mem, k)
        /\ Pending(script[p].mem, k) = NoTx
    BY <1>1, <2>2 DEF ScriptSound, Carrying, At
  <2>4. t.kind = k /\ Aimed(script[p].mem, t, fate')
    BY <2>1, <2>3 DEF Aimed, Asked, Built, Before
  <2> HIDE DEF t
  <2> DEFINE n == ScriptAt("sent", k, script[p].mem, t)
  <2>5. IsScript(n) /\ n.at = "sent" /\ n.tx = t /\ n.kind = k /\ n.mem = script[p].mem
    BY ScriptFields DEF ScriptAt
  <2> HIDE DEF n
  <2>6. ScriptSound(n, fate')
    BY <2>2, <2>3, <2>4, <2>5 DEF ScriptSound, Carrying
  <2>7. Sound(disk', fate') /\ \A u \in DOMAIN fate' : u.kind \in Kinds
    BY <1>1, <2>1, <2>4, SoundLater DEF Inv
  <2> QED BY <1>3, <2>1, <2>6, <2>7, StepInv DEF n
<1> QED BY <1>2, <1>3 DEF Send

LEMMA RecordSentInv ==
  ASSUME Inv, NEW p \in Terminals, NEW k \in Kinds, NEW e \in BOOLEAN, RecordSent(p, k, e)
  PROVE  Inv'
<1> DEFINE m == RecordPending(script[p].mem, script[p].tx)
<1>1. At(p, k, "sent") /\ UNCHANGED fate /\ ScriptSound(script[p], fate)
  BY DEF RecordSent, chainVars, Inv
<1>2. CASE Ends(p) /\ UNCHANGED disk
  BY <1>1, <1>2, EndsInv DEF Inv
<1>3. CASE disk' = m /\ Becomes(p, ScriptAt("waiting", k, m, script[p].tx))
  <2>1. /\ script[p].tx.kind = k /\ Aimed(script[p].mem, script[p].tx, fate)
        /\ ~Recorded(script[p].mem, k) /\ Built(script[p].mem, k) /\ Sound(script[p].mem, fate)
    BY <1>1 DEF ScriptSound, Carrying, At
  <2>2. /\ Sound(m, fate) /\ m.rec = script[p].mem.rec /\ Aimed(m, script[p].tx, fate)
        /\ Pending(m, k) = script[p].tx
    BY <2>1, SoundPending
  <2> HIDE DEF m
  <2> DEFINE n == ScriptAt("waiting", k, m, script[p].tx)
  <2>3. IsScript(n) /\ n.at = "waiting" /\ n.tx = script[p].tx /\ n.kind = k /\ n.mem = m
    BY ScriptFields DEF ScriptAt
  <2> HIDE DEF n
  <2>4. ScriptSound(n, fate)
    BY <2>1, <2>2, <2>3 DEF ScriptSound, Carrying, Built, Recorded
  <2> QED BY <1>1, <1>3, <2>2, <2>4, QuietStep DEF m, n
<1> QED BY <1>2, <1>3 DEF RecordSent

(* What deploy-cc3.js goes on with after its decoder is recorded. *)
LEMMA SettleInv ==
  ASSUME Inv, NEW p \in Terminals, NEW t, NEW next, Settle(p, t, next),
         Aimed(script[p].mem, t, fate), Built(script[p].mem, t.kind),
         ~Recorded(script[p].mem, t.kind),
         Sound(FinalizePending(script[p].mem, t), fate) => ScriptSound(next, fate)
  PROVE  Inv'
<1> DEFINE m == FinalizePending(script[p].mem, t)
<1>1. UNCHANGED fate
  BY DEF Settle, chainVars
<1>2. CASE Ends(p) /\ UNCHANGED disk
  BY <1>1, <1>2, EndsInv DEF Inv
<1>3. CASE t \in Sent /\ fate[t] = "matched" /\ disk' = m /\ Becomes(p, next)
  <2>1. Sound(script[p].mem, fate) /\ Won(t, fate)
    BY <1>3 DEF Inv, ScriptSound, Sent, Won
  <2>2. Sound(m, fate)
    BY <2>1, SoundRecord
  <2> QED BY <1>1, <1>3, <2>2, QuietStep
<1> QED BY <1>2, <1>3 DEF Settle

LEMMA AwaitInv ==
  ASSUME Inv, NEW p \in Terminals, NEW k \in Kinds, Await(p, k, NoScript)
  PROVE  Inv'
<1>1. At(p, k, "waiting") /\ ScriptSound(script[p], fate)
  BY DEF Await, Inv
<1>2. /\ Aimed(script[p].mem, script[p].tx, fate) /\ ~Recorded(script[p].mem, script[p].tx.kind)
      /\ Built(script[p].mem, script[p].tx.kind)
  BY <1>1 DEF ScriptSound, Carrying, At
<1> QED BY <1>2, SettleInv, EmptySound DEF Await

LEMMA AwaitDecoderInv ==
  ASSUME Inv, NEW p \in Terminals, Await(p, "decoder-deploy", ThenGate(p))
  PROVE  Inv'
<1> DEFINE m == FinalizePending(script[p].mem, script[p].tx)
<1>1. At(p, "decoder-deploy", "waiting") /\ ScriptSound(script[p], fate)
  BY DEF Await, Inv
<1>2. /\ Aimed(script[p].mem, script[p].tx, fate) /\ ~Recorded(script[p].mem, script[p].tx.kind)
      /\ script[p].tx.kind = "decoder-deploy" /\ Sound(script[p].mem, fate)
      /\ Built(script[p].mem, script[p].tx.kind)
  BY <1>1 DEF ScriptSound, Carrying, At
<1>3. ASSUME Sound(m, fate) PROVE ScriptSound(ThenGate(p), fate)
  <2> DEFINE n == ScriptAt("ready", "gate-deploy", m, NoTx)
  <2>1. CASE ~Recorded(m, "source-open")
    BY <2>1, EmptySound DEF ThenGate
  <2>2. CASE Recorded(m, "source-open")
    <3>1. Built(m, "source-open")
      BY <1>3, <2>2, KindNames DEF Sound
    <3>2. Recorded(m, "source-deploy")
      BY <3>1, BeforeNames DEF Built
    <3>3. m.rec["decoder-deploy"] = script[p].tx
      BY <1>2, KindNames DEF FinalizePending, ClearPending, Sound, Shape
    <3>4. Recorded(m, "decoder-deploy")
      BY <1>2, <3>3 DEF Recorded, NoTx
    <3>5. ~Recorded(m, "gate-deploy")
      <4>1. ~Recorded(script[p].mem, "gate-deploy")
        BY <1>2, BeforeNames, KindNames DEF Sound, Built
      <4> QED BY <1>2, <1>3, <4>1, KindNames DEF FinalizePending, ClearPending, Sound, Shape, Recorded
    <3>6. Built(m, "gate-deploy")
      BY <2>2, <3>2, <3>4, BeforeNames DEF Built
    <3>10. Pending(m, "gate-deploy") = NoTx
      <4>1. ChainOf("gate-deploy") = ChainOf("decoder-deploy")
        BY DEF ChainOf, SourceKinds
      <4>2. ChainOf("decoder-deploy") \in Ends2
        BY ChainOfKind
      <4> QED BY <1>2, <4>1, <4>2 DEF Pending, FinalizePending, ClearPending, Sound, Shape
    <3>7. IsScript(n)
      BY ScriptFields DEF ScriptAt
    <3>8. n.at = "ready" /\ n.kind = "gate-deploy" /\ n.mem = m
      BY DEF ScriptAt
    <3>9. ThenGate(p) = n
      BY <2>2 DEF ThenGate
    <3> HIDE DEF m, n
    <3> QED BY <1>3, <3>5, <3>6, <3>7, <3>8, <3>9, <3>10, KindNames DEF ScriptSound, Carrying
  <2> QED BY <2>1, <2>2
<1> QED BY <1>2, <1>3, SettleInv DEF Await

LEMMA RecoverInv ==
  ASSUME Inv, NEW p \in Terminals, NEW k \in Kinds, Recover(p, k)
  PROVE  Inv'
<1> DEFINE t == Pending(script[p].mem, k)
<1>1. At(p, k, "recover") /\ ScriptSound(script[p], fate)
  BY DEF Recover, Inv
<1>2. /\ t.kind = k /\ Aimed(script[p].mem, t, fate)
      /\ Built(script[p].mem, k) /\ ~Recorded(script[p].mem, k)
  BY <1>1 DEF ScriptSound, Carrying, At
<1>3. ScriptSound(NoScript, fate) /\ Settle(p, t, NoScript)
  BY EmptySound DEF Recover
<1> HIDE DEF t
<1> QED BY <1>2, <1>3, SettleInv

LEMMA PreflightInv ==
  ASSUME Inv, NEW p \in Terminals, NEW k \in Kinds, Preflight(p, k)
  PROVE  Inv'
<1> DEFINE b == EnsureFreshProof(proofs[k])
           n == [at |-> "ready", kind |-> k, mem |-> script[p].mem, tx |-> NoTx,
                 bundle |-> b, seen |-> None]
<1>1. /\ At(p, k, "preflight") /\ ScriptSound(script[p], fate) /\ Sound(disk, fate)
      /\ UNCHANGED <<fate, disk>> /\ Becomes(p, n)
  BY DEF Preflight, chainVars, Inv
<1>2. IsScript(n) /\ n.at = "ready" /\ n.kind = k /\ n.mem = script[p].mem
  BY ScriptFields
<1> HIDE DEF n
<1>3. ScriptSound(n, fate)
  BY <1>1, <1>2 DEF ScriptSound, Carrying, At
<1> QED BY <1>1, <1>3, QuietStep

(* What a script does in one step. *)
Waits(p, k) == Await(p, k, NoScript) \/ (k = "decoder-deploy" /\ Await(p, k, ThenGate(p)))
Registers(p, k) == \E exclusive \in BOOLEAN : RecordSent(p, k, exclusive)

ScriptMove(p, k) ==
  \/ Begin(p, k, "ready") \/ Begin(p, k, "preflight")
  \/ k \in ProofKinds /\ Preflight(p, k)
  \/ Send(p, k) \/ Registers(p, k) \/ Waits(p, k) \/ Recover(p, k)

LEMMA ScriptMoves ==
  ASSUME NEW p \in Terminals, Script(p)
  PROVE  \E k \in Kinds : ScriptMove(p, k)
<1>1. CASE DeploySource(p)
  <2> DEFINE k == "source-deploy"
  <2>1. /\ k \in Kinds
        /\ \/ Begin(p, k, "ready") \/ Send(p, k) \/ RecordSent(p, k, TRUE)
           \/ Await(p, k, NoScript) \/ Recover(p, k)
    BY <1>1, KindNames DEF DeploySource
  <2> HIDE DEF k
  <2>2. ScriptMove(p, k)
    BY <2>1 DEF ScriptMove, Registers, Waits
  <2> QED BY <2>1, <2>2
<1>2. CASE SourceAction(p)
  <2> PICK k \in {"source-open", "source-repay"} :
        \/ Begin(p, k, "ready") \/ Send(p, k) \/ RecordSent(p, k, FALSE)
        \/ Await(p, k, NoScript) \/ Recover(p, k)
    BY <1>2 DEF SourceAction
  <2>1. k \in Kinds
    BY DEF Kinds, SourceKinds
  <2>2. ScriptMove(p, k)
    BY DEF ScriptMove, Registers, Waits
  <2> QED BY <2>1, <2>2
<1>3. CASE DeployDestination(p)
  <2> PICK k \in DeployKinds :
        \/ Begin(p, k, "ready") \/ Send(p, k) \/ RecordSent(p, k, FALSE)
        \/ Await(p, k, IF k = "decoder-deploy" THEN ThenGate(p) ELSE NoScript)
        \/ Recover(p, k)
    BY <1>3 DEF DeployDestination
  <2>1. k \in Kinds
    BY DEF Kinds
  <2> DEFINE next == IF k = "decoder-deploy" THEN ThenGate(p) ELSE NoScript
  <2>2. next = NoScript \/ (k = "decoder-deploy" /\ next = ThenGate(p))
    OBVIOUS
  <2>3. \/ Begin(p, k, "ready") \/ Send(p, k) \/ RecordSent(p, k, FALSE)
        \/ Await(p, k, next) \/ Recover(p, k)
    OBVIOUS
  <2> HIDE DEF next
  <2>4. Await(p, k, next) => Waits(p, k)
    BY <2>2 DEF Waits
  <2>5. ScriptMove(p, k)
    BY <2>3, <2>4 DEF ScriptMove, Registers
  <2> QED BY <2>1, <2>5
<1>4. CASE SubmitProof(p)
  <2> PICK k \in ProofKinds :
        \/ Begin(p, k, "preflight") \/ Preflight(p, k) \/ Send(p, k)
        \/ RecordSent(p, k, FALSE) \/ Await(p, k, NoScript) \/ Recover(p, k)
    BY <1>4 DEF SubmitProof
  <2>1. k \in Kinds
    BY DEF Kinds
  <2>2. ScriptMove(p, k)
    BY DEF ScriptMove, Registers, Waits
  <2> QED BY <2>1, <2>2
<1>5. CASE Demo(p)
  <2> DEFINE k == "commit-credit"
  <2>1. /\ k \in Kinds
        /\ \/ Begin(p, k, "ready") \/ Send(p, k) \/ RecordSent(p, k, FALSE)
           \/ Await(p, k, NoScript) \/ Recover(p, k)
    BY <1>5, KindNames DEF Demo, Kinds
  <2> HIDE DEF k
  <2>2. ScriptMove(p, k)
    BY <2>1 DEF ScriptMove, Registers, Waits
  <2> QED BY <2>1, <2>2
<1> QED BY <1>1, <1>2, <1>3, <1>4, <1>5 DEF Script

LEMMA ScriptInv ==
  ASSUME Inv, NEW p \in Terminals, Script(p)
  PROVE  Inv'
<1> PICK k \in Kinds : ScriptMove(p, k)
  BY ScriptMoves
<1> QED BY BeginInv, PreflightInv, SendInv, RecordSentInv, AwaitInv, AwaitDecoderInv,
           RecoverInv DEF ScriptMove, Registers, Waits

LEMMA NegativeInv ==
  ASSUME Inv, NEW p \in Terminals, DemoNegative(p)
  PROVE  Inv'
<1>1. CASE ObserveNegative(p)
  <2> PICK b, e : Becomes(p, [at |-> "observed", kind |-> "negative", mem |-> disk,
                              tx |-> NoTx, bundle |-> b, seen |-> e])
    BY <1>1 DEF ObserveNegative, Starts
  <2> DEFINE s == [at |-> "observed", kind |-> "negative", mem |-> disk,
                   tx |-> NoTx, bundle |-> b, seen |-> e]
  <2>1. UNCHANGED <<fate, disk>> /\ Sound(disk, fate)
    BY <1>1 DEF ObserveNegative, Starts, files, Inv
  <2>2. IsScript(s) /\ s.at = "observed" /\ s.mem = disk
    BY ScriptFields
  <2>3. Becomes(p, s)
    OBVIOUS
  <2> HIDE DEF s
  <2>4. ScriptSound(s, fate)
    BY <2>1, <2>2 DEF ScriptSound, Carrying
  <2> QED BY <2>1, <2>3, <2>4, QuietStep
<1>2. CASE WriteNegative(p)
  BY <1>2, EndsInv DEF WriteNegative, chainVars, Inv
<1> QED BY <1>1, <1>2 DEF DemoNegative

LEMMA ResumeInv ==
  ASSUME Inv, NEW p \in Terminals, Resume(p)
  PROVE  Inv'
<1>1. ASSUME NEW t \in Lost, Registrable(disk, t),
             Starts(p, ScriptAt("register", t.kind, disk, t))
      PROVE  Inv'
  <2> DEFINE s == ScriptAt("register", t.kind, disk, t)
  <2>1. UNCHANGED <<fate, disk>> /\ Sound(disk, fate) /\ Becomes(p, s)
    BY <1>1 DEF Starts, files, Inv
  <2>2. IsScript(s) /\ s.at = "register" /\ s.mem = disk /\ s.tx = t /\ s.kind = t.kind
    BY ScriptFields DEF ScriptAt
  <2>3. t \in DOMAIN fate /\ t.kind \in Kinds
    BY DEF Lost, Sent, Inv
  <2>4. /\ Aimed(disk, t, fate) /\ ~Recorded(disk, t.kind)
        /\ Pending(disk, t.kind) = NoTx
    BY <1>1, <2>3 DEF Registrable, Aimed, Asked
  <2> HIDE DEF s
  <2>5. ScriptSound(s, fate)
    BY <2>1, <2>2, <2>4 DEF ScriptSound, Carrying
  <2> QED BY <2>1, <2>5, QuietStep
<1>2. ASSUME script[p].at = "register", Ends(p), UNCHANGED chainVars,
             disk' \in {disk, RecordPending(script[p].mem, script[p].tx)}
      PROVE  Inv'
  <2>1. ScriptSound(script[p], fate) /\ Sound(disk, fate) /\ UNCHANGED fate
    BY <1>2 DEF Inv, chainVars
  <2>2. Sound(RecordPending(script[p].mem, script[p].tx), fate)
    BY <1>2, <2>1, SoundPending DEF ScriptSound, Carrying
  <2> QED BY <1>2, <2>1, <2>2, EndsInv
<1> QED BY <1>1, <1>2 DEF Resume

LEMMA NextInv == Inv /\ [Next]_vars => Inv'
<1> SUFFICES ASSUME Inv, [Next]_vars PROVE Inv'
  OBVIOUS
<1>1. ASSUME NEW p \in Terminals, Script(p) \/ DemoNegative(p) \/ Resume(p)
      PROVE  Inv'
  BY <1>1, ScriptInv, NegativeInv, ResumeInv
<1>2. ASSUME NEW p \in Terminals, Crash(p)
      PROVE  Inv'
  BY <1>2, EndsInv DEF Crash, files, Inv
<1>3. CASE FetchProof \/ UNCHANGED vars
  BY <1>3 DEF FetchProof, chainVars, files, vars, Inv
<1>4. CASE World
  <2>1. Later(fate, fate') /\ DOMAIN fate' = DOMAIN fate /\ UNCHANGED <<disk, script>>
    BY <1>4, ChainsLater DEF World, files
  <2>2. Sound(disk', fate') /\ \A p \in Terminals : ScriptSound(script'[p], fate')
    BY <2>1, SoundLater, ScriptLater DEF Inv
  <2> QED BY <2>1, <2>2 DEF Inv
<1> QED BY <1>1, <1>2, <1>3, <1>4 DEF Next

(* Whatever scripts run at once, crash or overwrite each other's manifest,  *)
(* the records on disk belong together: src/evidence.js writes manifests    *)
(* whole, and no script replaces a record of the manifest it read.          *)
THEOREM RecordsBelongTogether == Spec => []ManifestIsCoherent
<1>1. Inv => ManifestIsCoherent
  BY AgainstKinds DEF Inv, Sound, Aimed, Asked, Won, ManifestIsCoherent, Made, Succeeded, Sent
<1> QED BY InitInv, NextInv, <1>1, PTL DEF Spec

-----------------------------------------------------------------------------
(* What a manifest's record says of the manifest. *)
LEMMA RecordedBuilt ==
  ASSUME Inv, NEW k \in Kinds, Recorded(disk, k)
  PROVE  Built(disk, k)
BY DEF Inv, Sound

LEMMA AllKinds ==
  Kinds = {"source-deploy", "source-open", "source-repay", "debt-opened", "debt-repaid",
           "decoder-deploy", "gate-deploy", "commit-credit"}
BY DEF Kinds, SourceKinds, ProofKinds, DeployKinds

(* Nothing is recorded before the source contract. *)
LEMMA SourceFirst ==
  ASSUME Inv, NEW k \in Kinds, Recorded(disk, k)
  PROVE  Recorded(disk, "source-deploy")
<1>1. Recorded(disk, "gate-deploy") => Recorded(disk, "source-deploy")
  BY RecordedBuilt, KindNames, BeforeNames DEF Built
<1>2. k # "source-deploy" =>
        "source-deploy" \in Before(k) \/ "gate-deploy" \in Before(k)
  BY AllKinds, BeforeNames
<1> QED BY <1>1, <1>2, RecordedBuilt DEF Built

(* Proof files are there for every proof on its way. *)
ProofsInv ==
  /\ mishaps \in [Mishaps -> Nat]
  /\ proofs \in [ProofKinds -> Nat]
  /\ \A t \in DOMAIN fate : t.kind \in ProofKinds => HasProof(proofs, t.kind)
  /\ \A p \in Terminals :
       script[p].at \in {"preflight", "ready"} /\ script[p].kind \in ProofKinds
         => HasProof(proofs, script[p].kind)

LEMMA ProofsStep ==
  ASSUME Inv, ProofsInv, NEW p \in Terminals, NEW s, Becomes(p, s),
         s.at \in {"preflight", "ready"} /\ s.kind \in ProofKinds => HasProof(proofs', s.kind),
         mishaps' \in [Mishaps -> Nat], proofs' \in [ProofKinds -> Nat],
         \A k \in ProofKinds : HasProof(proofs, k) => HasProof(proofs', k),
         \A t \in DOMAIN fate' \ DOMAIN fate : t.kind \in ProofKinds => HasProof(proofs', t.kind)
  PROVE  ProofsInv'
<1>1. \A q \in Terminals : script'[q] = IF q = p THEN s ELSE script[q]
  BY DEF Inv, Becomes
<1> QED BY <1>1 DEF ProofsInv

LEMMA HappensType ==
  ASSUME mishaps \in [Mishaps -> Nat], NEW m \in Mishaps, Happens(m)
  PROVE  mishaps' \in [Mishaps -> Nat] /\ \A x \in Mishaps : mishaps'[x] >= mishaps[x]
BY DEF Happens

LEMMA EpochIs == ASSUME mishaps \in [Mishaps -> Nat] PROVE epoch \in Nat \ {0}
BY DEF epoch, Mishaps

LEMMA StartsType ==
  ASSUME mishaps \in [Mishaps -> Nat], NEW p, NEW s, Starts(p, s)
  PROVE  mishaps' \in [Mishaps -> Nat]
BY HappensType DEF Starts, Mishaps

LEMMA ProofsScript ==
  ASSUME Inv, ProofsInv, NEW p \in Terminals, Script(p)
  PROVE  ProofsInv'
<1> PICK k \in Kinds : ScriptMove(p, k)
  BY ScriptMoves
<1>0. mishaps \in [Mishaps -> Nat] /\ proofs \in [ProofKinds -> Nat]
  BY DEF ProofsInv
<1>1. ASSUME NEW place \in {"ready", "preflight"}, Begin(p, k, place) PROVE ProofsInv'
  <2> DEFINE s == ScriptAt(IF Pending(disk, k) = NoTx THEN place ELSE "recover", k, disk, NoTx)
  <2>1. Becomes(p, s) /\ UNCHANGED <<fate, proofs>> /\ mishaps' \in [Mishaps -> Nat]
    BY <1>0, <1>1, StartsType DEF Begin, Starts, files
  <2>2. s.kind = k /\ (k \in ProofKinds => HasProof(proofs, k))
    BY <1>1 DEF Begin, Admits, ScriptAt
  <2> HIDE DEF s
  <2> QED BY <1>0, <2>1, <2>2, ProofsStep
<1>2. CASE k \in ProofKinds /\ Preflight(p, k)
  <2> DEFINE b == EnsureFreshProof(proofs[k])
             s == [at |-> "ready", kind |-> k, mem |-> script[p].mem, tx |-> NoTx,
                   bundle |-> b, seen |-> None]
  <2>1. /\ Becomes(p, s) /\ UNCHANGED <<fate, mishaps>>
        /\ proofs' = [proofs EXCEPT ![k] = b]
    BY <1>2 DEF Preflight, chainVars
  <2>2. b = epoch /\ b \in Nat \ {0} /\ s.kind = k
    BY <1>0, EpochIs DEF EnsureFreshProof
  <2> HIDE DEF b, s
  <2> QED BY <1>0, <1>2, <2>1, <2>2, ProofsStep DEF HasProof
<1>3. ASSUME NEW s, Becomes(p, s), UNCHANGED <<mishaps, proofs>>,
             s.at \notin {"preflight", "ready"} \/ s.kind \notin ProofKinds,
             \A t \in DOMAIN fate' \ DOMAIN fate : t.kind \in ProofKinds => HasProof(proofs, t.kind)
      PROVE  ProofsInv'
  BY <1>0, <1>3, ProofsStep
<1>4. NoScript.at = "idle"
  BY DEF NoScript, ScriptAt
<1>5. CASE Send(p, k)
  <2> DEFINE t == [kind |-> k, nonce |-> NextNonce(ChainOf(k)),
                   on |-> Targets(script[p].mem, k), bundle |-> script[p].bundle]
             s == ScriptAt("sent", k, script[p].mem, t)
  <2>1. UNCHANGED <<mishaps, proofs>> /\ At(p, k, "ready")
    BY <1>5 DEF Send, files, Broadcast, chainVars
  <2>2. CASE Ends(p) /\ UNCHANGED chainVars
    BY <1>3, <1>4, <2>1, <2>2 DEF Ends, chainVars
  <2>3. CASE Broadcast(t) /\ Becomes(p, s)
    <3>1. DOMAIN fate' = DOMAIN fate \cup {t} /\ t.kind = k
      BY <2>3 DEF Broadcast, Sent
    <3>2. k \in ProofKinds => HasProof(proofs, k)
      BY <2>1 DEF ProofsInv, At
    <3>3. s.at = "sent"
      BY DEF ScriptAt
    <3> HIDE DEF t, s
    <3> QED BY <1>3, <2>1, <2>3, <3>1, <3>2, <3>3
  <2> QED BY <1>5, <2>2, <2>3 DEF Send
<1>6. ASSUME NEW e \in BOOLEAN, RecordSent(p, k, e) PROVE ProofsInv'
  <2> DEFINE m == RecordPending(script[p].mem, script[p].tx)
             s == ScriptAt("waiting", k, m, script[p].tx)
  <2>1. UNCHANGED <<fate, mishaps, proofs>> /\ (Ends(p) \/ Becomes(p, s))
    BY <1>6 DEF RecordSent, chainVars
  <2>2. s.at = "waiting"
    BY DEF ScriptAt
  <2> HIDE DEF s
  <2> QED BY <1>3, <1>4, <2>1, <2>2 DEF Ends
<1>7. ASSUME NEW t, NEW next, Settle(p, t, next), next.at # "preflight",
             next.at = "ready" => next.kind \notin ProofKinds
      PROVE  ProofsInv'
  <2>1. UNCHANGED <<fate, mishaps, proofs>> /\ (Ends(p) \/ Becomes(p, next))
    BY <1>7 DEF Settle, chainVars
  <2> QED BY <1>3, <1>4, <1>7, <2>1 DEF Ends
<1>8. CASE Await(p, k, NoScript)
  BY <1>4, <1>7, <1>8 DEF Await
<1>9. CASE Await(p, k, ThenGate(p))
  <2>1. /\ ThenGate(p).at # "preflight"
        /\ ThenGate(p).at = "ready" => ThenGate(p).kind \notin ProofKinds
    BY DEF ThenGate, NoScript, ScriptAt, ProofKinds
  <2> QED BY <1>7, <1>9, <2>1 DEF Await
<1>10. CASE Recover(p, k)
  BY <1>4, <1>7, <1>10 DEF Recover
<1> QED BY <1>1, <1>2, <1>5, <1>6, <1>8, <1>9, <1>10 DEF ScriptMove, Registers, Waits

LEMMA ChainsType ==
  ASSUME mishaps \in [Mishaps -> Nat], Chains
  PROVE  /\ mishaps' \in [Mishaps -> Nat]
         /\ mishaps'["overlap"] = mishaps["overlap"]
<1>1. CASE MineBlock
  BY <1>1, HappensType DEF MineBlock, MineAlone, MineBeforeRelay, MineBoth, Happens, Mishaps
<1>2. CASE Relay \/ Drop \/ Expire
  BY <1>2, HappensType DEF Relay, Drop, Expire, Happens, Mishaps
<1> QED BY <1>1, <1>2 DEF Chains

LEMMA ProofsNext == Inv /\ ProofsInv /\ [Next]_vars => ProofsInv'
<1> SUFFICES ASSUME Inv, ProofsInv, [Next]_vars PROVE ProofsInv'
  OBVIOUS
<1>0. mishaps \in [Mishaps -> Nat] /\ proofs \in [ProofKinds -> Nat]
  BY DEF ProofsInv
<1>1. NoScript.at = "idle"
  BY DEF NoScript, ScriptAt
<1>2. ASSUME NEW p \in Terminals, Script(p) PROVE ProofsInv'
  BY <1>2, ProofsScript
<1>3. ASSUME NEW p \in Terminals, NEW s, Becomes(p, s), s.at \notin {"preflight", "ready"},
             mishaps' \in [Mishaps -> Nat], UNCHANGED <<fate, proofs>>
      PROVE  ProofsInv'
  BY <1>0, <1>3, ProofsStep
<1>4. ASSUME NEW p \in Terminals, DemoNegative(p) PROVE ProofsInv'
  <2>1. CASE ObserveNegative(p)
    <3> PICK b, e : Starts(p, [at |-> "observed", kind |-> "negative", mem |-> disk,
                               tx |-> NoTx, bundle |-> b, seen |-> e])
      BY <2>1 DEF ObserveNegative
    <3> DEFINE s == [at |-> "observed", kind |-> "negative", mem |-> disk,
                     tx |-> NoTx, bundle |-> b, seen |-> e]
    <3>1. Starts(p, s) /\ s.at = "observed"
      OBVIOUS
    <3> HIDE DEF s
    <3>2. Becomes(p, s) /\ UNCHANGED <<fate, proofs>> /\ mishaps' \in [Mishaps -> Nat]
      BY <1>0, <3>1, StartsType DEF Starts, files
    <3> QED BY <1>3, <3>1, <3>2
  <2>2. CASE WriteNegative(p)
    BY <1>0, <1>1, <1>3, <2>2 DEF WriteNegative, Ends, chainVars
  <2> QED BY <1>4, <2>1, <2>2 DEF DemoNegative
<1>5. ASSUME NEW p \in Terminals, Resume(p) PROVE ProofsInv'
  <2>1. ASSUME NEW t, Starts(p, ScriptAt("register", t.kind, disk, t)) PROVE ProofsInv'
    <3> DEFINE s == ScriptAt("register", t.kind, disk, t)
    <3>1. Starts(p, s) /\ s.at = "register"
      BY <2>1 DEF ScriptAt
    <3> HIDE DEF s
    <3>2. Becomes(p, s) /\ UNCHANGED <<fate, proofs>> /\ mishaps' \in [Mishaps -> Nat]
      BY <1>0, <3>1, StartsType DEF Starts, files
    <3> QED BY <1>3, <3>1, <3>2
  <2>2. CASE Ends(p) /\ UNCHANGED <<chainVars, proofs>>
    BY <1>0, <1>1, <1>3, <2>2 DEF Ends, chainVars
  <2> QED BY <1>5, <2>1, <2>2 DEF Resume
<1>6. ASSUME NEW p \in Terminals, Crash(p) PROVE ProofsInv'
  BY <1>0, <1>1, <1>3, <1>6, HappensType DEF Crash, Ends, files, Mishaps
<1>7. CASE FetchProof
  <2> PICK k \in ProofKinds : proofs' = [proofs EXCEPT ![k] = epoch]
    BY <1>7 DEF FetchProof
  <2> QED BY <1>0, <1>7, EpochIs DEF FetchProof, ProofsInv, HasProof, chainVars
<1>8. CASE World
  BY <1>0, <1>8, ChainsLater, ChainsType DEF World, ProofsInv, files
<1>9. CASE UNCHANGED vars
  BY <1>9 DEF vars, chainVars, files, ProofsInv
<1> QED BY <1>2, <1>4, <1>5, <1>6, <1>7, <1>8, <1>9 DEF Next

LEMMA InitProofs == Init => ProofsInv
<1> SUFFICES ASSUME Init PROVE ProofsInv
  OBVIOUS
<1>1. mishaps \in [Mishaps -> Nat] /\ proofs \in [ProofKinds -> Nat] /\ DOMAIN fate = {}
  BY DEF Init, ChainInit, NoProofs
<1>2. \A p \in Terminals : script[p].at = "idle"
  BY DEF Init, NoScript, ScriptAt
<1> QED BY <1>1, <1>2 DEF ProofsInv

-----------------------------------------------------------------------------
(* A pending transaction with all that its step builds on can be taken up   *)
(* again: its step is not recorded.                                         *)
LEMMA PendingAdmitted ==
  ASSUME Inv, ProofsInv, NEW c \in Ends2, disk.pend[c] # NoTx,
         Built(disk, disk.pend[c].kind)
  PROVE  Admits(disk, proofs, disk.pend[c].kind)
<1> DEFINE t == disk.pend[c]
<1>1. /\ t \in DOMAIN fate /\ t.kind \in Kinds /\ Built(disk, t.kind)
      /\ ChainOf(t.kind) = c /\ ~Recorded(disk, t.kind)
  BY DEF Inv, Sound, Aimed
<1>2. Pending(disk, t.kind) = t
  BY <1>1 DEF Pending
<1>3. t.kind = "decoder-deploy" => ~Recorded(disk, "gate-deploy")
  BY <1>1, RecordedBuilt, BeforeNames, KindNames DEF Built
<1>4. t.kind \in ProofKinds => Recorded(disk, SourceOf(t.kind)) /\ HasProof(proofs, t.kind)
  BY <1>1 DEF ProofsInv, Built, Before, Asks, ProofKinds
<1>5. \A j \in Needs(t.kind) : Recorded(disk, j)
  BY <1>1 DEF Built, Before
<1> HIDE DEF t
<1>6. t # NoTx
  BY DEF t
<1>7. Admits(disk, proofs, t.kind)
  BY <1>1, <1>2, <1>3, <1>4, <1>5, <1>6 DEF Admits
<1> QED BY <1>7 DEF t

(* One without has been registered with an earlier record missing.          *)
LEMMA PendingOrphaned ==
  ASSUME Inv, NEW c \in Ends2, disk.pend[c] # NoTx, ~Built(disk, disk.pend[c].kind)
  PROVE  Orphaned(disk.pend[c].kind)
<1> DEFINE t == disk.pend[c]
<1>1. t.kind \in Kinds /\ ChainOf(t.kind) = c /\ Asked(disk, t.kind)
  BY DEF Inv, Sound, Aimed
<1>2. PICK j \in Before(t.kind) \ Asks(t.kind) : ~Recorded(disk, j)
  BY <1>1 DEF Built, Asked
<1>3. \/ t.kind = "source-repay" /\ j = "source-open"
      \/ t.kind = "commit-credit" /\ j = "debt-opened"
  BY <1>1, <1>2, AllKinds, BeforeNames DEF Before, Needs, Asks, Against, SourceOf, ProofKinds
<1>4. Pending(disk, t.kind) = t
  BY <1>1 DEF Pending
<1> HIDE DEF t
<1>5. ChainOf("source-repay") = "source" /\ ChainOf("commit-credit") = "destination"
  BY DEF ChainOf, SourceKinds
<1>6. Orphaned(t.kind)
  BY <1>2, <1>3, <1>4, <1>5 DEF Orphaned
<1> QED BY <1>6 DEF t

(* The first step that is left comes after steps that are done. *)
LEMMA FirstLeft ==
  ASSUME NEW m, NEW q, FirstUndone(m, q) # "complete"
  PROVE  \E n \in 1..9 : /\ FirstUndone(m, q) = RunOrder[n]
                         /\ ~Done(m, q, RunOrder[n])
                         /\ \A i \in 1..9 : i < n => Done(m, q, RunOrder[i])
<1> DEFINE left == {i \in DOMAIN RunOrder : ~Done(m, q, RunOrder[i])}
<1>1. DOMAIN RunOrder = 1..9
  BY DEF RunOrder
<1>2. left # {} /\ FirstUndone(m, q) = RunOrder[Min(left)]
  BY DEF FirstUndone
<1>3. left \in SUBSET Nat
  BY <1>1
<1>4. \E n \in left : \A i \in left : n =< i
  <2> HIDE DEF left
  <2> QED BY <1>2, <1>3, LeastNatural
<1>5. Min(left) \in left /\ \A i \in left : Min(left) =< i
  <2> HIDE DEF left
  <2> QED BY <1>4 DEF Min
<1> DEFINE n == Min(left)
<1>6. n \in 1..9 /\ ~Done(m, q, RunOrder[n])
  BY <1>1, <1>5
<1>7. \A i \in 1..9 : i < n => Done(m, q, RunOrder[i])
  BY <1>1, <1>5, <1>6
<1> HIDE DEF n
<1>8. FirstUndone(m, q) = RunOrder[n]
  BY <1>2 DEF n
<1> QED BY <1>6, <1>7, <1>8

LEMMA RunOrderIs ==
  /\ RunOrder[1] = "source-deploy" /\ RunOrder[2] = "source-open" /\ RunOrder[3] = "source-repay"
  /\ RunOrder[4] = "proof-open" /\ RunOrder[5] = "proof-repay" /\ RunOrder[6] = "gate-deploy"
  /\ RunOrder[7] = "debt-opened" /\ RunOrder[8] = "debt-repaid" /\ RunOrder[9] = "commit-credit"
BY DEF RunOrder

LEMMA NeedsNames ==
  /\ Needs("source-deploy") = {} /\ Needs("source-open") = {"source-deploy"}
  /\ Needs("source-repay") = {"source-deploy", "source-open"}
  /\ Needs("decoder-deploy") = {"source-deploy"}
  /\ Needs("gate-deploy") = {"decoder-deploy", "source-deploy", "source-open"}
  /\ Needs("debt-opened") = {"gate-deploy"} /\ Needs("debt-repaid") = {"gate-deploy"}
  /\ Needs("commit-credit") = {"gate-deploy", "debt-opened", "debt-repaid"}
BY DEF Needs, Against, ProofKinds

(* Without a pending transaction every step admits what it builds on. *)
LEMMA FreeAdmitted ==
  ASSUME NEW m, NEW q, NEW k \in Kinds \ {"source-deploy", "decoder-deploy"},
         Pending(m, k) = NoTx, ~Recorded(m, k), \A j \in Needs(k) : Recorded(m, j),
         k \in ProofKinds => Recorded(m, SourceOf(k)) /\ HasProof(q, k)
  PROVE  Admits(m, q, k)
BY DEF Admits

LEMMA FirstAdmitted ==
  ASSUME Inv, \A c \in Ends2 : disk.pend[c] = NoTx, FirstUndone(disk, proofs) \in Kinds
  PROVE  \E k \in Carries(FirstUndone(disk, proofs)) : Admits(disk, proofs, k)
<1> DEFINE step == FirstUndone(disk, proofs)
           D(i) == Done(disk, proofs, RunOrder[i])
           R(k) == Recorded(disk, k)
<1>1. step # "complete" /\ step # "proof-open" /\ step # "proof-repay"
  BY AllKinds
<1>2. PICK n \in 1..9 : step = RunOrder[n] /\ ~D(n) /\ \A i \in 1..9 : i < n => D(i)
  BY <1>1, FirstLeft
<1>3. /\ D(1) <=> R("source-deploy")
      /\ D(2) <=> R("source-open")
      /\ D(3) <=> R("source-repay")
      /\ D(4) <=> HasProof(proofs, "debt-opened")
      /\ D(5) <=> HasProof(proofs, "debt-repaid")
      /\ D(6) <=> R("gate-deploy")
      /\ D(7) <=> R("debt-opened")
      /\ D(8) <=> R("debt-repaid")
      /\ D(9) <=> R("commit-credit")
  BY RunOrderIs DEF Done
<1>4. \A k \in Kinds : Pending(disk, k) = NoTx
  BY ChainOfKind DEF Pending
<1> HIDE DEF step, D
<1>5. n # 4 /\ n # 5
  BY <1>1, <1>2, RunOrderIs
<1>6. step \notin DeployKinds => Carries(step) = {step}
  BY DEF Carries
<1>7. CASE n = 1
  <2>1. step = "source-deploy" /\ ~R("source-deploy")
    BY <1>2, <1>3, <1>7, RunOrderIs
  <2>2. \A k \in Kinds : ~R(k)
    BY <2>1, SourceFirst
  <2>3. /\ disk = [rec |-> disk.rec, pend |-> disk.pend]
        /\ disk.rec = [k \in Kinds |-> disk.rec[k]]
        /\ disk.pend = [c \in Ends2 |-> disk.pend[c]]
    BY DEF Inv, Sound, Shape
  <2>4. disk.rec = [k \in Kinds |-> NoTx]
    BY <2>2, <2>3 DEF Recorded
  <2>5. disk.pend = [c \in {"source", "destination"} |-> NoTx]
    BY <2>3 DEF Ends2
  <2>6. disk = NoManifest
    BY <2>3, <2>4, <2>5 DEF NoManifest
  <2>7. Admits(disk, proofs, "source-deploy")
    BY <1>4, <2>1, <2>6, NeedsNames, AllKinds DEF Admits, ProofKinds
  <2> QED BY <1>6, <2>1, <2>7 DEF DeployKinds, step
<1>8. CASE n \in {2, 3}
  <2>1. /\ R("source-deploy") /\ (n = 3 => R("source-open"))
        /\ step = (IF n = 2 THEN "source-open" ELSE "source-repay") /\ ~R(step)
    BY <1>2, <1>3, <1>8, RunOrderIs
  <2>2. Admits(disk, proofs, step)
    BY <1>4, <1>8, <2>1, NeedsNames, AllKinds, FreeAdmitted DEF ProofKinds
  <2> QED BY <1>6, <1>8, <2>1, <2>2 DEF DeployKinds, step
<1>9. CASE n = 6
  <2>1. R("source-deploy") /\ R("source-open") /\ step = "gate-deploy" /\ ~R("gate-deploy")
    BY <1>2, <1>3, <1>9, RunOrderIs
  <2>2. CASE R("decoder-deploy")
    <3>1. Admits(disk, proofs, "gate-deploy")
      BY <1>4, <2>1, <2>2, NeedsNames, AllKinds, FreeAdmitted DEF ProofKinds
    <3> QED BY <2>1, <3>1 DEF step, Carries, DeployKinds
  <2>3. CASE ~R("decoder-deploy")
    <3>1. Admits(disk, proofs, "decoder-deploy")
      BY <1>4, <2>1, <2>3, NeedsNames, AllKinds DEF Admits, ProofKinds
    <3> QED BY <2>1, <3>1 DEF step, Carries, DeployKinds
  <2> QED BY <2>2, <2>3
<1>10. CASE n \in {7, 8}
  <2>1. /\ R("gate-deploy") /\ R("source-open") /\ R("source-repay")
        /\ HasProof(proofs, "debt-opened") /\ HasProof(proofs, "debt-repaid")
        /\ step = (IF n = 7 THEN "debt-opened" ELSE "debt-repaid") /\ ~R(step)
    BY <1>2, <1>3, <1>10, RunOrderIs
  <2>2. Admits(disk, proofs, step)
    BY <1>4, <1>10, <2>1, NeedsNames, AllKinds, FreeAdmitted DEF SourceOf
  <2> QED BY <1>6, <1>10, <2>1, <2>2 DEF DeployKinds, step
<1>11. CASE n = 9
  <2>1. /\ R("gate-deploy") /\ R("debt-opened") /\ R("debt-repaid")
        /\ step = "commit-credit" /\ ~R("commit-credit")
    BY <1>2, <1>3, <1>11, RunOrderIs
  <2>2. Admits(disk, proofs, step)
    BY <1>4, <2>1, NeedsNames, AllKinds, FreeAdmitted DEF ProofKinds
  <2> QED BY <1>6, <2>1, <2>2 DEF DeployKinds, step
<1> QED BY <1>2, <1>5, <1>7, <1>8, <1>9, <1>10, <1>11

-----------------------------------------------------------------------------
(* As long as no script was started while another one ran, the one that     *)
(* runs knows the manifest on disk.                                         *)
Alone ==
  mishaps["overlap"] = 0 =>
    \A p \in Terminals : script[p] # NoScript =>
      script[p].mem = disk /\ \A q \in Terminals \ {p} : script[q] = NoScript

LEMMA AloneActs ==
  ASSUME Inv, Alone, NEW p \in Terminals, script[p] # NoScript, NEW s, Becomes(p, s),
         mishaps'["overlap"] = mishaps["overlap"], s = NoScript \/ s.mem = disk'
  PROVE  Alone'
<1>1. \A q \in Terminals : script'[q] = IF q = p THEN s ELSE script[q]
  BY DEF Inv, Becomes
<1>2. ASSUME mishaps["overlap"] = 0, NEW q \in Terminals, script'[q] # NoScript
      PROVE  script'[q].mem = disk' /\ \A r \in Terminals \ {q} : script'[r] = NoScript
  <2>1. \A r \in Terminals \ {p} : script[r] = NoScript
    BY <1>2 DEF Alone
  <2>2. q = p
    BY <1>1, <1>2, <2>1
  <2> QED BY <1>1, <1>2, <2>1, <2>2
<1>3. Alone' = (mishaps'["overlap"] = 0 =>
        \A q \in Terminals : script'[q] # NoScript =>
          script'[q].mem = disk' /\ \A r \in Terminals \ {q} : script'[r] = NoScript)
  BY DEF Alone, NoScript, ScriptAt, NoManifest, NoTx, None
<1> QED BY <1>2, <1>3

LEMMA AloneStarts ==
  ASSUME Inv, ProofsInv, Alone, NEW p \in Terminals, NEW s, Starts(p, s), s.mem = disk
  PROVE  Alone'
<1>1. \A q \in Terminals : script'[q] = IF q = p THEN s ELSE script[q]
  BY DEF Inv, Becomes, Starts
<1>2. ASSUME mishaps'["overlap"] = 0 PROVE \A q \in Terminals : script[q] = NoScript
  BY <1>2 DEF Starts, Happens, ProofsInv, Mishaps
<1>3. disk' = disk
  BY DEF Starts, files
<1> QED BY <1>1, <1>2, <1>3 DEF Alone, NoScript

(* A script that is somewhere is not the empty one. *)
LEMMA SomewhereNotIdle ==
  ASSUME NEW p, script[p].at # "idle"
  PROVE  script[p] # NoScript
BY DEF NoScript, ScriptAt

LEMMA AloneScript ==
  ASSUME Inv, ProofsInv, Alone, NEW p \in Terminals, Script(p)
  PROVE  Alone'
<1> PICK k \in Kinds : ScriptMove(p, k)
  BY ScriptMoves
<1>1. ASSUME NEW place, Begin(p, k, place) PROVE Alone'
  <2> DEFINE s == ScriptAt(IF Pending(disk, k) = NoTx THEN place ELSE "recover", k, disk, NoTx)
  <2>1. Starts(p, s) /\ s.mem = disk
    BY <1>1 DEF Begin, ScriptAt
  <2> HIDE DEF s
  <2> QED BY <2>1, AloneStarts
<1>2. ASSUME NEW place, At(p, k, place), place # "idle", NEW s, Becomes(p, s),
             UNCHANGED mishaps, s = NoScript \/ s.mem = disk'
      PROVE  Alone'
  BY <1>2, SomewhereNotIdle, AloneActs DEF At
<1>3. ASSUME NEW place, At(p, k, place), place # "idle", mishaps["overlap"] = 0
      PROVE  script[p].mem = disk
  BY <1>3, SomewhereNotIdle DEF At, Alone
<1>4. ASSUME mishaps["overlap"] # 0, UNCHANGED mishaps PROVE Alone'
  BY <1>4 DEF Alone
<1>5. CASE Preflight(p, k)
  <2> PICK b : Becomes(p, [at |-> "ready", kind |-> k, mem |-> script[p].mem, tx |-> NoTx,
                           bundle |-> b, seen |-> None])
    BY <1>5 DEF Preflight
  <2> DEFINE s == [at |-> "ready", kind |-> k, mem |-> script[p].mem, tx |-> NoTx,
                   bundle |-> b, seen |-> None]
  <2>1. Becomes(p, s) /\ s.mem = script[p].mem
    OBVIOUS
  <2> HIDE DEF s
  <2>2. At(p, k, "preflight") /\ UNCHANGED <<mishaps, disk>>
    BY <1>5 DEF Preflight, chainVars
  <2> QED BY <1>2, <1>3, <1>4, <2>1, <2>2
<1>6. CASE Send(p, k)
  <2> PICK t : \/ Becomes(p, ScriptAt("sent", k, script[p].mem, t))
               \/ Ends(p)
    BY <1>6 DEF Send
  <2> DEFINE s == ScriptAt("sent", k, script[p].mem, t)
  <2>1. (Becomes(p, s) \/ Becomes(p, NoScript)) /\ s.mem = script[p].mem
    BY DEF Ends, ScriptAt
  <2> HIDE DEF s
  <2>2. At(p, k, "ready") /\ UNCHANGED <<mishaps, disk>>
    BY <1>6 DEF Send, chainVars, Broadcast, files
  <2> QED BY <1>2, <1>3, <1>4, <2>1, <2>2
<1>7. CASE Registers(p, k)
  <2> DEFINE m == RecordPending(script[p].mem, script[p].tx)
             s == ScriptAt("waiting", k, m, script[p].tx)
  <2>1. At(p, k, "sent") /\ UNCHANGED mishaps
    BY <1>7 DEF Registers, RecordSent, chainVars
  <2>2. Ends(p) \/ (disk' = m /\ Becomes(p, s))
    BY <1>7 DEF Registers, RecordSent
  <2>3. s.mem = m
    BY DEF ScriptAt
  <2> HIDE DEF m, s
  <2> QED BY <1>2, <2>1, <2>2, <2>3 DEF Ends
<1>8. CASE Waits(p, k)
  <2>1. At(p, k, "waiting") /\ UNCHANGED mishaps
    BY <1>8 DEF Waits, Await, Settle, chainVars
  <2>2. Ends(p) \/ (Becomes(p, ThenGate(p)) /\ disk' = FinalizePending(script[p].mem, script[p].tx))
    BY <1>8 DEF Waits, Await, Settle, Ends
  <2>3. ThenGate(p) = NoScript \/ ThenGate(p).mem = FinalizePending(script[p].mem, script[p].tx)
    BY DEF ThenGate, ScriptAt
  <2> QED BY <1>2, <2>1, <2>2, <2>3 DEF Ends
<1>9. CASE Recover(p, k)
  <2>1. At(p, k, "recover") /\ UNCHANGED mishaps /\ Becomes(p, NoScript)
    BY <1>9 DEF Recover, Settle, chainVars, Ends
  <2> QED BY <1>2, <2>1
<1> QED BY <1>1, <1>5, <1>6, <1>7, <1>8, <1>9 DEF ScriptMove

LEMMA AloneNext == Inv /\ ProofsInv /\ Alone /\ [Next]_vars => Alone'
<1> SUFFICES ASSUME Inv, ProofsInv, Alone, [Next]_vars PROVE Alone'
  OBVIOUS
<1>1. ASSUME NEW p \in Terminals, Script(p) PROVE Alone'
  BY <1>1, AloneScript
<1>2. ASSUME NEW p \in Terminals, DemoNegative(p) PROVE Alone'
  <2>1. CASE ObserveNegative(p)
    <3> PICK b, e : Starts(p, [at |-> "observed", kind |-> "negative", mem |-> disk,
                               tx |-> NoTx, bundle |-> b, seen |-> e])
      BY <2>1 DEF ObserveNegative
    <3> DEFINE s == [at |-> "observed", kind |-> "negative", mem |-> disk,
                     tx |-> NoTx, bundle |-> b, seen |-> e]
    <3>1. Starts(p, s) /\ s.mem = disk
      OBVIOUS
    <3> HIDE DEF s
    <3> QED BY <3>1, AloneStarts
  <2>2. CASE WriteNegative(p)
    BY <2>2, SomewhereNotIdle, AloneActs DEF WriteNegative, At, Ends, chainVars
  <2> QED BY <1>2, <2>1, <2>2 DEF DemoNegative
<1>3. ASSUME NEW p \in Terminals, Resume(p) PROVE Alone'
  <2>1. ASSUME NEW t, Starts(p, ScriptAt("register", t.kind, disk, t)) PROVE Alone'
    <3> DEFINE s == ScriptAt("register", t.kind, disk, t)
    <3>1. Starts(p, s) /\ s.mem = disk
      BY <2>1 DEF ScriptAt
    <3> HIDE DEF s
    <3> QED BY <3>1, AloneStarts
  <2>2. CASE script[p].at = "register" /\ Ends(p) /\ UNCHANGED chainVars
    BY <2>2, SomewhereNotIdle, AloneActs DEF Ends, chainVars
  <2> QED BY <1>3, <2>1, <2>2 DEF Resume
<1>4. ASSUME NEW p \in Terminals, Crash(p) PROVE Alone'
  <2>1. mishaps'["overlap"] = mishaps["overlap"]
    BY <1>4 DEF Crash, Happens, ProofsInv, Mishaps
  <2> QED BY <1>4, <2>1, AloneActs DEF Crash, Ends
<1>5. CASE FetchProof \/ UNCHANGED vars
  <2>1. UNCHANGED <<script, disk, mishaps>>
    BY <1>5 DEF FetchProof, chainVars, vars, files
  <2> QED BY <2>1 DEF Alone, NoScript
<1>6. CASE World
  <2>1. UNCHANGED <<script, disk>> /\ mishaps'["overlap"] = mishaps["overlap"]
    BY <1>6, ChainsType DEF World, files, ProofsInv
  <2> QED BY <2>1 DEF Alone, NoScript
<1> QED BY <1>1, <1>2, <1>3, <1>4, <1>5, <1>6 DEF Next

LEMMA InitAlone == Init => Alone
BY DEF Init, Alone

-----------------------------------------------------------------------------
(* One script at a time loses no record: every transaction ever sent has    *)
(* what its step builds on in the manifest.                                 *)
Backed == mishaps["overlap"] = 0 => \A t \in DOMAIN fate : Built(disk, t.kind)

Stay == \A j \in Kinds : Recorded(disk, j) => Recorded(disk, j)'

LEMMA RecordsStay ==
  ASSUME Inv, NEW t, t.kind \in Kinds,
         \/ UNCHANGED disk \/ disk' = RecordPending(disk, t)
         \/ disk' = FinalizePending(disk, t) /\ ~Recorded(disk, t.kind)
  PROVE  Stay
<1>1. UNCHANGED disk => Stay
  BY DEF Stay, Recorded
<1>2. disk' = RecordPending(disk, t) => Stay
  BY DEF RecordPending, Stay, Recorded
<1>3. ASSUME disk' = FinalizePending(disk, t), ~Recorded(disk, t.kind) PROVE Stay
  <2>1. disk'.rec = [disk.rec EXCEPT ![t.kind] = t]
    BY <1>3 DEF FinalizePending, ClearPending
  <2>2. \A j \in Kinds : j # t.kind => disk'.rec[j] = disk.rec[j]
    BY <2>1 DEF Inv, Sound, Shape
  <2> QED BY <1>3, <2>2 DEF Stay, Recorded
<1> QED BY <1>1, <1>2, <1>3

LEMMA BackedStep ==
  ASSUME Inv, Backed, mishaps'["overlap"] = 0 => mishaps["overlap"] = 0,
         mishaps["overlap"] = 0 => Stay,
         \A t \in DOMAIN fate' \ DOMAIN fate : mishaps["overlap"] = 0 =>
           t.kind \in Kinds /\ Built(disk, t.kind)
  PROVE  Backed'
<1> SUFFICES ASSUME mishaps'["overlap"] = 0, NEW t \in DOMAIN fate' PROVE Built(disk', t.kind)
  BY DEF Backed, Built, Recorded
<1>1. t.kind \in Kinds /\ Built(disk, t.kind)
  BY DEF Backed, Inv
<1>2. \A j \in Kinds : Recorded(disk, j) => Recorded(disk', j)
  BY DEF Stay, Recorded
<1> QED BY <1>1, <1>2, BuiltKept

LEMMA BackedScript ==
  ASSUME Inv, ProofsInv, Alone, Backed, NEW p \in Terminals, Script(p)
  PROVE  Backed'
<1> PICK k \in Kinds : ScriptMove(p, k)
  BY ScriptMoves
<1>0. ASSUME mishaps["overlap"] = 0, NEW place, At(p, k, place), place # "idle"
      PROVE  script[p].mem = disk /\ Carrying(script[p], fate)
  BY <1>0, SomewhereNotIdle DEF At, Alone, Inv, ScriptSound
<1>1. ASSUME UNCHANGED <<mishaps, disk>>, DOMAIN fate' = DOMAIN fate PROVE Backed'
  BY <1>1, BackedStep DEF Stay, Recorded
<1>2. ASSUME NEW place, Begin(p, k, place) PROVE Backed'
  <2>1. UNCHANGED <<disk, fate>>
    BY <1>2 DEF Begin, Starts, files
  <2>2. mishaps'["overlap"] = 0 => mishaps["overlap"] = 0
    BY <1>2 DEF Begin, Starts, Happens, ProofsInv, Mishaps
  <2> QED BY <2>1, <2>2, BackedStep DEF Stay, Recorded
<1>3. CASE Preflight(p, k)
  BY <1>1, <1>3 DEF Preflight, chainVars
<1>4. CASE Send(p, k)
  <2> DEFINE t == [kind |-> k, nonce |-> NextNonce(ChainOf(k)),
                   on |-> Targets(script[p].mem, k), bundle |-> script[p].bundle]
  <2>1. At(p, k, "ready") /\ UNCHANGED <<disk, mishaps>>
    BY <1>4 DEF Send, files, Broadcast, chainVars
  <2>2. DOMAIN fate' \ DOMAIN fate \subseteq {t} /\ t.kind = k
    BY <1>4 DEF Send, Broadcast, Sent, chainVars
  <2> HIDE DEF t
  <2>3. mishaps["overlap"] = 0 => Built(disk, k)
    BY <1>0, <2>1 DEF Carrying, At
  <2>4. Stay
    BY <2>1 DEF Stay, Recorded
  <2> QED BY <2>1, <2>2, <2>3, <2>4, BackedStep
<1>5. ASSUME NEW place, At(p, k, place), place # "idle", UNCHANGED <<fate, mishaps>>,
             NEW t, mishaps["overlap"] = 0 =>
               /\ t.kind \in Kinds /\ ~Recorded(disk, t.kind)
               /\ disk' \in {disk, RecordPending(disk, t), FinalizePending(disk, t)}
      PROVE  Backed'
  <2>1. mishaps["overlap"] = 0 => Stay
    BY <1>5, RecordsStay
  <2> QED BY <1>5, <2>1, BackedStep
<1>6. CASE Registers(p, k)
  <2>1. /\ At(p, k, "sent") /\ UNCHANGED <<fate, mishaps>>
        /\ disk' \in {disk, RecordPending(script[p].mem, script[p].tx)}
    BY <1>6 DEF Registers, RecordSent, chainVars
  <2>2. mishaps["overlap"] = 0 =>
          /\ script[p].mem = disk /\ script[p].tx.kind \in Kinds
          /\ ~Recorded(disk, script[p].tx.kind)
    BY <1>0, <2>1 DEF Carrying, At
  <2> QED BY <1>5, <2>1, <2>2
<1>7. CASE Waits(p, k)
  <2>1. /\ At(p, k, "waiting") /\ UNCHANGED <<fate, mishaps>>
        /\ disk' \in {disk, FinalizePending(script[p].mem, script[p].tx)}
    BY <1>7 DEF Waits, Await, Settle, chainVars
  <2>2. mishaps["overlap"] = 0 =>
          /\ script[p].mem = disk /\ script[p].tx.kind \in Kinds
          /\ ~Recorded(disk, script[p].tx.kind)
    BY <1>0, <2>1 DEF Carrying, At
  <2> QED BY <1>5, <2>1, <2>2
<1>8. CASE Recover(p, k)
  <2> DEFINE t == Pending(script[p].mem, k)
  <2>1. /\ At(p, k, "recover") /\ UNCHANGED <<fate, mishaps>>
        /\ disk' \in {disk, FinalizePending(script[p].mem, t)}
    BY <1>8 DEF Recover, Settle, chainVars
  <2>2. mishaps["overlap"] = 0 =>
          script[p].mem = disk /\ t.kind \in Kinds /\ ~Recorded(disk, t.kind)
    BY <1>0, <2>1 DEF Carrying, At
  <2> HIDE DEF t
  <2> QED BY <1>5, <2>1, <2>2
<1> QED BY <1>2, <1>3, <1>4, <1>6, <1>7, <1>8 DEF ScriptMove

LEMMA BackedNext == Inv /\ ProofsInv /\ Alone /\ Backed /\ [Next]_vars => Backed'
<1> SUFFICES ASSUME Inv, ProofsInv, Alone, Backed, [Next]_vars PROVE Backed'
  OBVIOUS
<1>1. ASSUME NEW p \in Terminals, Script(p) PROVE Backed'
  BY <1>1, BackedScript
<1>2. ASSUME UNCHANGED disk, DOMAIN fate' = DOMAIN fate,
             mishaps'["overlap"] = 0 => mishaps["overlap"] = 0
      PROVE  Backed'
  BY <1>2, BackedStep DEF Stay, Recorded
<1>3. ASSUME NEW p, NEW s, Starts(p, s) PROVE Backed'
  BY <1>2, <1>3 DEF Starts, Happens, ProofsInv, Mishaps, files
<1>4. ASSUME NEW p \in Terminals, DemoNegative(p) PROVE Backed'
  BY <1>2, <1>3, <1>4 DEF DemoNegative, ObserveNegative, WriteNegative, chainVars
<1>5. ASSUME NEW p \in Terminals, Resume(p) PROVE Backed'
  <2>1. CASE \E t : Starts(p, ScriptAt("register", t.kind, disk, t))
    BY <1>3, <2>1
  <2>2. CASE /\ script[p].at = "register" /\ UNCHANGED chainVars
             /\ disk' \in {disk, RecordPending(script[p].mem, script[p].tx)}
    <3>1. mishaps["overlap"] = 0 => script[p].mem = disk /\ script[p].tx.kind \in Kinds
      BY <2>2, SomewhereNotIdle DEF Alone, Inv, ScriptSound, Carrying, Aimed
    <3>2. mishaps["overlap"] = 0 => Stay
      BY <2>2, <3>1, RecordsStay
    <3> QED BY <2>2, <3>2, BackedStep DEF chainVars
  <2> QED BY <1>5, <2>1, <2>2 DEF Resume
<1>6. ASSUME NEW p \in Terminals, Crash(p) PROVE Backed'
  BY <1>2, <1>6 DEF Crash, Happens, ProofsInv, Mishaps, files
<1>7. CASE FetchProof \/ UNCHANGED vars
  BY <1>2, <1>7 DEF FetchProof, chainVars, vars, files
<1>8. CASE World
  BY <1>2, <1>8, ChainsLater, ChainsType DEF World, files, ProofsInv
<1> QED BY <1>1, <1>4, <1>5, <1>6, <1>7, <1>8 DEF Next

LEMMA InitBacked == Init => Backed
BY DEF Init, ChainInit, Backed

(* The step resume.js names is one whose script begins it: the pending      *)
(* transaction's, or the first that is not done, because the steps done are *)
(* closed under what a step builds on.  A pending transaction can be taken  *)
(* up but for two cases, after scripts ran at once: what resume.js asks of  *)
(* a transaction it registers leaves out the opening of a repayment and the *)
(* opening's submission of a commitment.                                    *)
THEOREM PlannedStepBegins == Spec => []PlanIsAdmitted
<1>1. ASSUME Inv, ProofsInv, Backed PROVE PlanIsAdmitted
  <2> DEFINE step == NextRunStep(disk, proofs)
  <2> SUFFICES ASSUME step \in Kinds
               PROVE  \/ \E k \in Carries(step) : Admits(disk, proofs, k)
                      \/ mishaps["overlap"] > 0 /\ Orphaned(step)
    BY DEF PlanIsAdmitted
  <2>1. DOMAIN disk.pend = Ends2
    BY <1>1 DEF Inv, Sound, Shape
  <2>2. CASE \E c \in Ends2 : disk.pend[c] # NoTx
    <3>1. PICK c \in Ends2 : disk.pend[c] # NoTx /\ step = disk.pend[c].kind
      BY <2>1, <2>2 DEF NextRunStep, Ends2
    <3>2. CASE Built(disk, step)
      <4>1. Admits(disk, proofs, step)
        BY <1>1, <3>1, <3>2, PendingAdmitted
      <4>2. step \in Carries(step)
        BY DEF Carries
      <4> QED BY <4>1, <4>2
    <3>3. CASE ~Built(disk, step)
      <4>1. Orphaned(step)
        BY <1>1, <3>1, <3>3, PendingOrphaned
      <4>2. disk.pend[c] \in DOMAIN fate
        BY <1>1, <3>1 DEF Inv, Sound, Aimed
      <4>3. mishaps["overlap"] # 0
        BY <1>1, <3>1, <3>3, <4>2 DEF Backed
      <4>4. mishaps["overlap"] \in Nat
        BY <1>1 DEF ProofsInv, Mishaps
      <4> QED BY <4>1, <4>3, <4>4
    <3> QED BY <3>2, <3>3
  <2>3. CASE \A c \in Ends2 : disk.pend[c] = NoTx
    <3>1. step = FirstUndone(disk, proofs)
      BY <2>1, <2>3 DEF NextRunStep
    <3> QED BY <1>1, <2>3, <3>1, FirstAdmitted
  <2> QED BY <2>2, <2>3
<1> QED BY InitInv, NextInv, InitProofs, ProofsNext, InitAlone, AloneNext, InitBacked,
           BackedNext, <1>1, PTL DEF Spec

-----------------------------------------------------------------------------
(* What the writes of one script alone do to the pending transactions. *)
LEMMA PendingAfterRecord ==
  ASSUME NEW f, NEW t, t.kind \in Kinds, Sound(disk, f), Pending(disk, t.kind) = NoTx,
         disk' = RecordPending(disk, t)
  PROVE  \A c \in Ends2 : RemovedAsRecord(c)
<1>1. ChainOf(t.kind) \in Ends2
  BY ChainOfKind
<1>2. disk'.pend = [disk.pend EXCEPT ![ChainOf(t.kind)] = t]
  BY <1>1 DEF RecordPending, Sound, Shape
<1>3. \A c \in Ends2 : disk.pend[c] # NoTx => disk'.pend[c] = disk.pend[c]
  BY <1>1, <1>2 DEF Sound, Shape, Pending
<1> QED BY <1>3 DEF RemovedAsRecord

LEMMA PendingAfterSettle ==
  ASSUME NEW f, NEW t, t.kind \in Kinds, Sound(disk, f), Pending(disk, t.kind) = t,
         disk' = FinalizePending(disk, t)
  PROVE  \A c \in Ends2 : RemovedAsRecord(c)
<1>1. ChainOf(t.kind) \in Ends2
  BY ChainOfKind
<1>2. /\ disk'.pend = [disk.pend EXCEPT ![ChainOf(t.kind)] = NoTx]
      /\ disk'.rec = [disk.rec EXCEPT ![t.kind] = t]
  BY <1>1 DEF FinalizePending, ClearPending, Sound, Shape
<1>3. \A c \in Ends2 : c # ChainOf(t.kind) => disk'.pend[c] = disk.pend[c]
  BY <1>1, <1>2 DEF Sound, Shape
<1>4. disk'.pend[ChainOf(t.kind)] = NoTx /\ disk'.rec[t.kind] = t
  BY <1>1, <1>2 DEF Sound, Shape
<1> QED BY <1>3, <1>4 DEF RemovedAsRecord, Pending

LEMMA PendingSame ==
  ASSUME UNCHANGED disk
  PROVE  \A c : RemovedAsRecord(c)
BY DEF RemovedAsRecord

(* What a script does to disk and chain while it is the only one. *)
LEMMA ScriptKeeps ==
  ASSUME Inv, Alone, mishaps["overlap"] = 0, NEW p \in Terminals, Script(p)
  PROVE  /\ \A c \in Ends2 : RemovedAsRecord(c)
         /\ \A t \in Sent' \ Sent : NotReplaced(t)
<1> PICK k \in Kinds : ScriptMove(p, k)
  BY ScriptMoves
<1>0. ASSUME script[p].at # "idle"
      PROVE  /\ script[p].mem = disk /\ ScriptSound(script[p], fate) /\ Sound(disk, fate)
             /\ Carrying(script[p], fate)
  BY <1>0, SomewhereNotIdle DEF Alone, Inv, ScriptSound
<1>1. ASSUME NEW place, Begin(p, k, place) PROVE UNCHANGED <<disk, fate>>
  BY <1>1 DEF Begin, Starts, files
<1>2. CASE Preflight(p, k)
  BY <1>2, PendingSame DEF Preflight, chainVars, Sent
<1>3. CASE Send(p, k)
  <2> DEFINE t == [kind |-> k, nonce |-> NextNonce(ChainOf(k)),
                   on |-> Targets(script[p].mem, k), bundle |-> script[p].bundle]
  <2>1. At(p, k, "ready") /\ UNCHANGED disk
    BY <1>3 DEF Send, files
  <2>2. ~Recorded(disk, k) /\ Pending(disk, k) = NoTx
    BY <1>0, <2>1 DEF Carrying, At
  <2>3. t.kind = k
    OBVIOUS
  <2>4. Sent' \ Sent \subseteq {t}
    BY <1>3 DEF Send, Broadcast, Sent, chainVars
  <2> HIDE DEF t
  <2> QED BY <2>1, <2>2, <2>3, <2>4, PendingSame DEF NotReplaced
<1>4. CASE Registers(p, k)
  <2>1. At(p, k, "sent") /\ UNCHANGED fate
    BY <1>4 DEF Registers, RecordSent, chainVars
  <2>2. disk' \in {disk, RecordPending(script[p].mem, script[p].tx)}
    BY <1>4 DEF Registers, RecordSent
  <2>3. script[p].tx.kind = k /\ Pending(disk, k) = NoTx /\ script[p].mem = disk /\ Sound(disk, fate)
    BY <1>0, <2>1 DEF Carrying, At
  <2> QED BY <2>1, <2>2, <2>3, PendingSame, PendingAfterRecord DEF Sent
<1>5. CASE Waits(p, k)
  <2>1. At(p, k, "waiting") /\ UNCHANGED fate
    BY <1>5 DEF Waits, Await, Settle, chainVars
  <2>2. disk' \in {disk, FinalizePending(script[p].mem, script[p].tx)}
    BY <1>5 DEF Waits, Await, Settle
  <2>3. /\ script[p].tx.kind = k /\ Pending(disk, k) = script[p].tx
        /\ script[p].mem = disk /\ Sound(disk, fate)
    BY <1>0, <2>1 DEF Carrying, At
  <2> QED BY <2>1, <2>2, <2>3, PendingSame, PendingAfterSettle DEF Sent
<1>6. CASE Recover(p, k)
  <2>1. At(p, k, "recover") /\ UNCHANGED fate
    BY <1>6 DEF Recover, Settle, chainVars
  <2>2. disk' \in {disk, FinalizePending(script[p].mem, Pending(script[p].mem, k))}
    BY <1>6 DEF Recover, Settle
  <2>3. /\ Pending(script[p].mem, k).kind = k
        /\ script[p].mem = disk /\ Sound(disk, fate)
    BY <1>0, <2>1 DEF Carrying, At
  <2> QED BY <2>1, <2>2, <2>3, PendingSame, PendingAfterSettle DEF Sent
<1> QED BY <1>1, <1>2, <1>3, <1>4, <1>5, <1>6, PendingSame DEF ScriptMove, Sent

(* One script at a time, no step removes a pending transaction but by       *)
(* recording it, and none sends a transaction for a step that has one: what *)
(* a script decides on from the manifest it read is still so when it acts.  *)
THEOREM EvidenceKept == Spec => EvidenceIsKept
<1> DEFINE Kept == /\ \A c \in DOMAIN disk.pend : RemovedAsRecord(c)
                   /\ \A t \in Sent' \ Sent : NotReplaced(t)
<1>1. ASSUME Inv, ProofsInv, Alone, Next, mishaps["overlap"] = 0
      PROVE  Kept
  <2>1. DOMAIN disk.pend = Ends2
    BY <1>1 DEF Inv, Sound, Shape
  <2>2. ASSUME NEW p \in Terminals, Script(p) PROVE Kept
    BY <1>1, <2>1, <2>2, ScriptKeeps
  <2>3. ASSUME UNCHANGED disk, DOMAIN fate' = DOMAIN fate PROVE Kept
    BY <2>3, PendingSame DEF Sent
  <2>4. ASSUME NEW p \in Terminals, DemoNegative(p) PROVE Kept
    BY <2>3, <2>4 DEF DemoNegative, ObserveNegative, WriteNegative, Starts, files, chainVars
  <2>5. ASSUME NEW p \in Terminals, Resume(p) PROVE Kept
    <3>1. CASE \E t : Starts(p, ScriptAt("register", t.kind, disk, t))
      BY <2>3, <3>1 DEF Starts, files
    <3>2. CASE /\ script[p].at = "register" /\ UNCHANGED fate
               /\ disk' \in {disk, RecordPending(script[p].mem, script[p].tx)}
      <4>1. /\ script[p].mem = disk /\ Sound(disk, fate) /\ script[p].tx.kind \in Kinds
            /\ Pending(disk, script[p].tx.kind) = NoTx
        BY <1>1, <3>2, SomewhereNotIdle DEF Alone, Inv, ScriptSound, Carrying, Aimed
      <4>2. \A c \in Ends2 : RemovedAsRecord(c)
        BY <3>2, <4>1, PendingSame, PendingAfterRecord
      <4> QED BY <2>1, <3>2, <4>2 DEF Sent
    <3> QED BY <2>5, <3>1, <3>2 DEF Resume, chainVars
  <2>6. ASSUME NEW p \in Terminals, Crash(p) PROVE Kept
    BY <2>3, <2>6 DEF Crash, files
  <2>7. CASE FetchProof
    BY <2>3, <2>7 DEF FetchProof, chainVars
  <2>8. CASE World
    BY <2>3, <2>8, ChainsLater DEF World, files
  <2> QED BY <1>1, <2>2, <2>4, <2>5, <2>6, <2>7, <2>8 DEF Next
<1>2. Inv /\ ProofsInv /\ Alone /\ [Next]_vars => [mishaps["overlap"] = 0 => Kept]_vars
  <2> HIDE DEF Kept
  <2> QED BY <1>1
<1> QED BY InitInv, NextInv, InitProofs, ProofsNext, InitAlone, AloneNext, <1>2, PTL
       DEF Spec, EvidenceIsKept

-----------------------------------------------------------------------------
(* Nothing was overlooked so far: no transaction is lost on the chain of    *)
(* a script at work, but for the one it has sent and not recorded yet.      *)
Clean == mishaps["overlap"] = 0 /\ ~overlooked

Attended(s, lost) ==
  /\ s.at \in {"ready", "preflight", "waiting", "recover"} =>
       \A t \in lost : ChainOf(t.kind) # ChainOf(s.kind)
  /\ s.at = "sent" => \A t \in lost : ChainOf(t.kind) = ChainOf(s.kind) => t = s.tx

OnceInv == Clean => AtMostOneTransaction /\ \A p \in Terminals : Attended(script[p], Lost)

LEMMA OnceActs ==
  ASSUME Inv, Alone, OnceInv, NEW p \in Terminals, script[p] # NoScript, NEW s, Becomes(p, s),
         Clean' => Clean, Clean => Attended(s, Lost') /\ AtMostOneTransaction'
  PROVE  OnceInv'
<1>1. \A q \in Terminals : script'[q] = IF q = p THEN s ELSE script[q]
  BY DEF Inv, Becomes
<1>2. ASSUME Clean', NEW q \in Terminals PROVE Attended(script'[q], Lost')
  <2>1. q # p => script'[q] = NoScript
    BY <1>1, <1>2 DEF Alone, Clean
  <2>2. NoScript.at = "idle"
    BY DEF NoScript, ScriptAt
  <2> QED BY <1>1, <1>2, <2>1, <2>2 DEF Attended
<1> QED BY <1>2 DEF OnceInv

LEMMA LostSame ==
  ASSUME UNCHANGED <<fate, disk>>
  PROVE  Lost' = Lost /\ AtMostOneTransaction' = AtMostOneTransaction
BY DEF Lost, Live, Succeeded, Sent, Recorded, Pending, AtMostOneTransaction

LEMMA SameFate ==
  ASSUME UNCHANGED fate
  PROVE  AtMostOneTransaction' = AtMostOneTransaction
BY DEF Live, Succeeded, Sent, AtMostOneTransaction

(* A script that starts without overlooking anything attends to its chain. *)
LEMMA OnceStarts ==
  ASSUME Inv, ProofsInv, OnceInv, NEW p \in Terminals, NEW s, Starts(p, s),
         ~overlooked' => ~overlooked,
         ~overlooked' => \/ s.at \notin {"ready", "preflight", "waiting", "recover", "sent"}
                         \/ \A t \in Lost : ChainOf(t.kind) # ChainOf(s.kind)
  PROVE  OnceInv'
<1>1. \A q \in Terminals : script'[q] = IF q = p THEN s ELSE script[q]
  BY DEF Inv, Becomes, Starts
<1>2. Lost' = Lost /\ AtMostOneTransaction' = AtMostOneTransaction
  BY LostSame DEF Starts, files
<1>3. Clean' => Clean
  BY DEF Starts, Happens, Clean, ProofsInv, Mishaps
<1>4. ASSUME Clean', NEW q \in Terminals PROVE Attended(script'[q], Lost')
  <2>1. Clean => Attended(script[q], Lost)
    BY DEF OnceInv
  <2> QED BY <1>1, <1>2, <1>3, <1>4, <2>1 DEF Attended, Clean
<1> QED BY <1>2, <1>3, <1>4 DEF OnceInv

(* No transaction comes to life in a block. *)
LEMMA EndsInLive ==
  ASSUME NEW s, NEW o, EndsIn(s, o), \A t \in DOMAIN o : t \in Sent => fate[t] = "pool"
  PROVE  \A t : Live(t)' => Live(t)
BY DEF EndsIn, Sent, Live, Succeeded

LEMMA ChainsLive ==
  ASSUME Chains
  PROVE  \A t : Live(t)' => Live(t)
<1>1. CASE MineBlock
  <2> PICK c \in {"source", "destination"} : \E t \in First(c) :
        MineAlone(t) \/ MineBeforeRelay(t) \/ \E u \in Pool(c) : MineBoth(t, u)
    BY <1>1 DEF MineBlock
  <2> PICK t \in First(c) :
        MineAlone(t) \/ MineBeforeRelay(t) \/ \E u \in Pool(c) : MineBoth(t, u)
    OBVIOUS
  <2>1. fate[t] = "pool"
    BY DEF First, Pool
  <2>2. CASE MineAlone(t)
    BY <2>1, <2>2, EndsInLive DEF MineAlone
  <2>3. CASE MineBeforeRelay(t)
    BY <2>1, <2>3, EndsInLive DEF MineBeforeRelay
  <2>4. ASSUME NEW u \in Pool(c), MineBoth(t, u)
        PROVE  \A x : Live(x)' => Live(x)
    <3>1. fate[u] = "pool"
      BY DEF Pool
    <3> QED BY <2>1, <2>4, <3>1, EndsInLive DEF MineBoth
  <2> QED BY <2>2, <2>3, <2>4
<1>2. CASE Relay
  BY <1>2, EndsInLive DEF Relay
<1>3. CASE Drop
  BY <1>3 DEF Drop, Sent, Live, Succeeded
<1>4. CASE Expire
  BY <1>4 DEF Expire, Live, Succeeded, Sent
<1> QED BY <1>1, <1>2, <1>3, <1>4 DEF Chains

LEMMA FewerLive ==
  ASSUME \A t : Live(t)' => Live(t), DOMAIN fate' = DOMAIN fate, UNCHANGED disk
  PROVE  Lost' \subseteq Lost /\ (AtMostOneTransaction => AtMostOneTransaction')
BY DEF Lost, AtMostOneTransaction, Sent, Pending

(* Nothing else is lost and alive when a script sends. *)
LEMMA OnceSend ==
  ASSUME Inv, NEW t, t.kind \in Kinds, Broadcast(t), UNCHANGED disk,
         ~Recorded(disk, t.kind), Pending(disk, t.kind) = NoTx,
         AtMostOneTransaction, \A u \in Lost : ChainOf(u.kind) # ChainOf(t.kind)
  PROVE  /\ AtMostOneTransaction'
         /\ \A u \in Lost' : ChainOf(u.kind) = ChainOf(t.kind) => u = t
<1>1. \A u : u # t /\ Live(u)' => Live(u)
  BY DEF Broadcast, Live, Succeeded, Sent
<1>2. \A u \in Sent' : u # t => u \in Sent
  BY DEF Broadcast, Sent
<1>3. \A u \in Sent : u # NoTx
  BY AllKinds DEF Inv, NoTx, Sent
<1>4. \A u \in Sent : Live(u) => u.kind # t.kind
  BY <1>3 DEF Lost, Recorded, Pending
<1>5. AtMostOneTransaction'
  BY <1>1, <1>2, <1>4 DEF AtMostOneTransaction
<1>6. \A u \in Lost' : u = t \/ u \in Lost
  BY <1>1, <1>2 DEF Lost, Pending
<1> QED BY <1>5, <1>6

(* Once the transaction is pending, nothing is lost on its chain. *)
LEMMA OnceRegistered ==
  ASSUME NEW t, t.kind \in Kinds, UNCHANGED fate, Sound(disk, fate),
         disk' = RecordPending(disk, t), Pending(disk, t.kind) = NoTx, Inv,
         \A u \in Lost : ChainOf(u.kind) = ChainOf(t.kind) => u = t
  PROVE  \A u \in Lost' : ChainOf(u.kind) # ChainOf(t.kind)
<1>1. ChainOf(t.kind) \in Ends2
  BY ChainOfKind
<1>2. disk'.rec = disk.rec /\ disk'.pend[ChainOf(t.kind)] = t
  BY <1>1 DEF RecordPending, Sound, Shape
<1>3. \A u \in Sent : u # NoTx
  BY AllKinds DEF Inv, NoTx, Sent
<1>4. ASSUME NEW u \in Lost', ChainOf(u.kind) = ChainOf(t.kind) PROVE FALSE
  <2>1. u \in Sent /\ Live(u) /\ disk.rec[u.kind] = NoTx /\ u # t
    BY <1>2, <1>4 DEF Lost, Live, Succeeded, Sent, Pending
  <2>2. u \in Lost
    BY <1>3, <1>4, <2>1 DEF Lost, Pending
  <2> QED BY <1>4, <2>1, <2>2
<1> QED BY <1>4

(* The same once it is recorded. *)
LEMMA OnceSettled ==
  ASSUME NEW t, t.kind \in Kinds, t # NoTx, UNCHANGED fate, Sound(disk, fate),
         disk' = FinalizePending(disk, t), Pending(disk, t.kind) = t, Inv,
         \A u \in Lost : ChainOf(u.kind) # ChainOf(t.kind)
  PROVE  \A u \in Lost' : ChainOf(u.kind) # ChainOf(t.kind)
<1>1. ChainOf(t.kind) \in Ends2
  BY ChainOfKind
<1>2. disk'.rec = [disk.rec EXCEPT ![t.kind] = t]
  BY <1>1 DEF FinalizePending, ClearPending, Sound, Shape
<1>3. ASSUME NEW u \in Lost', ChainOf(u.kind) = ChainOf(t.kind) PROVE FALSE
  <2>1. u \in Sent /\ Live(u) /\ disk'.rec[u.kind] = NoTx
    BY DEF Lost, Live, Succeeded, Sent
  <2>2. u.kind \in Kinds
    BY <2>1 DEF Inv, Sent
  <2>3. u.kind # t.kind /\ disk.rec[u.kind] = NoTx
    BY <1>2, <2>1, <2>2 DEF Sound, Shape
  <2>4. u \in Lost
    BY <1>3, <2>1, <2>3 DEF Lost, Pending
  <2> QED BY <1>3, <2>4
<1> QED BY <1>3

LEMMA OnceScript ==
  ASSUME Inv, ProofsInv, Alone, OnceInv, NEW p \in Terminals, Script(p)
  PROVE  OnceInv'
<1> PICK k \in Kinds : ScriptMove(p, k)
  BY ScriptMoves
<1>0. ASSUME script[p].at # "idle", Clean
      PROVE  /\ script[p] # NoScript /\ script[p].mem = disk /\ Sound(disk, fate)
             /\ Carrying(script[p], fate) /\ Attended(script[p], Lost) /\ AtMostOneTransaction
  BY <1>0, SomewhereNotIdle DEF Alone, Inv, ScriptSound, OnceInv, Clean
<1>1. ASSUME NEW place, Begin(p, k, place) PROVE OnceInv'
  <2> DEFINE s == ScriptAt(IF Pending(disk, k) = NoTx THEN place ELSE "recover", k, disk, NoTx)
  <2>1. Starts(p, s) /\ s.kind = k
    BY <1>1 DEF Begin, ScriptAt
  <2>2. /\ ~overlooked' => ~overlooked
        /\ ~overlooked' => \A t \in Lost : ChainOf(t.kind) # ChainOf(k)
    BY <1>1 DEF Begin, Overlooks
  <2> HIDE DEF s
  <2> QED BY <2>1, <2>2, OnceStarts
<1>2. ASSUME NEW place, At(p, k, place), place # "idle", NEW s, Becomes(p, s),
             UNCHANGED <<mishaps, overlooked>>,
             Clean => Attended(s, Lost') /\ AtMostOneTransaction'
      PROVE  OnceInv'
  <2>1. Clean' = Clean
    BY <1>2 DEF Clean
  <2> QED BY <1>2, <2>1, SomewhereNotIdle, OnceActs DEF At
<1>3. Attended(NoScript, Lost')
  BY DEF Attended, NoScript, ScriptAt
<1>4. ASSUME NEW place, At(p, k, place), place # "idle", Ends(p),
             UNCHANGED <<mishaps, overlooked, fate>>
      PROVE  OnceInv'
  <2>1. Clean => AtMostOneTransaction'
    BY <1>4, SameFate DEF OnceInv
  <2> QED BY <1>2, <1>3, <1>4, <2>1 DEF Ends
<1>5. CASE Preflight(p, k)
  <2> PICK b : Becomes(p, [at |-> "ready", kind |-> k, mem |-> script[p].mem, tx |-> NoTx,
                           bundle |-> b, seen |-> None])
    BY <1>5 DEF Preflight
  <2> DEFINE s == [at |-> "ready", kind |-> k, mem |-> script[p].mem, tx |-> NoTx,
                   bundle |-> b, seen |-> None]
  <2>1. Becomes(p, s) /\ s.at = "ready" /\ s.kind = k
    OBVIOUS
  <2> HIDE DEF s
  <2>2. At(p, k, "preflight") /\ UNCHANGED <<mishaps, overlooked, fate, disk>>
    BY <1>5 DEF Preflight, chainVars
  <2>3. Lost' = Lost /\ AtMostOneTransaction' = AtMostOneTransaction
    BY <2>2, LostSame
  <2>4. Clean => Attended(s, Lost') /\ AtMostOneTransaction'
    BY <1>0, <2>1, <2>2, <2>3 DEF Attended, At
  <2> QED BY <1>2, <2>1, <2>2, <2>4
<1>6. CASE Send(p, k)
  <2> DEFINE t == [kind |-> k, nonce |-> NextNonce(ChainOf(k)),
                   on |-> Targets(script[p].mem, k), bundle |-> script[p].bundle]
             s == ScriptAt("sent", k, script[p].mem, t)
  <2>1. At(p, k, "ready") /\ UNCHANGED <<mishaps, disk, overlooked>> /\ t.kind = k
    BY <1>6 DEF Send, chainVars, Broadcast, files
  <2>2. s.at = "sent" /\ s.kind = k /\ s.tx = t
    BY DEF ScriptAt
  <2>3. CASE Ends(p) /\ UNCHANGED chainVars
    BY <1>4, <2>1, <2>3 DEF chainVars
  <2>4. CASE Broadcast(t) /\ Becomes(p, s)
    <3> HIDE DEF t, s
    <3>1. Clean => Attended(s, Lost') /\ AtMostOneTransaction'
      <4> SUFFICES ASSUME Clean PROVE Attended(s, Lost') /\ AtMostOneTransaction'
        OBVIOUS
      <4>1. /\ ~Recorded(disk, k) /\ Pending(disk, k) = NoTx /\ AtMostOneTransaction
            /\ \A u \in Lost : ChainOf(u.kind) # ChainOf(k)
        BY <1>0, <2>1 DEF Carrying, At, Attended
      <4>2. AtMostOneTransaction' /\ \A u \in Lost' : ChainOf(u.kind) = ChainOf(k) => u = t
        BY <2>1, <2>4, <4>1, OnceSend
      <4> QED BY <2>2, <4>2 DEF Attended
    <3> QED BY <1>2, <2>1, <2>4, <3>1
  <2> QED BY <1>6, <2>3, <2>4 DEF Send
<1>7. CASE Registers(p, k)
  <2> DEFINE t == script[p].tx
             m == RecordPending(script[p].mem, t)
             s == ScriptAt("waiting", k, m, t)
  <2>1. At(p, k, "sent") /\ UNCHANGED <<mishaps, overlooked, fate>>
    BY <1>7 DEF Registers, RecordSent, chainVars
  <2>2. Ends(p) \/ (disk' = m /\ Becomes(p, s))
    BY <1>7 DEF Registers, RecordSent
  <2>3. s.at = "waiting" /\ s.kind = k
    BY DEF ScriptAt
  <2> HIDE DEF s
  <2>4. CASE disk' = m /\ Becomes(p, s)
    <3>1. Clean => Attended(s, Lost') /\ AtMostOneTransaction'
      <4> SUFFICES ASSUME Clean PROVE Attended(s, Lost') /\ AtMostOneTransaction'
        OBVIOUS
      <4>1. /\ t.kind = k /\ Pending(disk, k) = NoTx /\ script[p].mem = disk
            /\ Sound(disk, fate) /\ AtMostOneTransaction
            /\ \A u \in Lost : ChainOf(u.kind) = ChainOf(k) => u = t
        BY <1>0, <2>1 DEF Carrying, At, Attended
      <4> HIDE DEF t
      <4>2. \A u \in Lost' : ChainOf(u.kind) # ChainOf(k)
        BY <2>1, <2>4, <4>1, OnceRegistered
      <4>3. AtMostOneTransaction'
        BY <2>1, <4>1, SameFate
      <4> QED BY <2>3, <4>2, <4>3 DEF Attended
    <3> QED BY <1>2, <2>1, <2>4, <3>1
  <2> QED BY <1>4, <2>1, <2>2, <2>4
<1>8. CASE Waits(p, k)
  <2> DEFINE t == script[p].tx
             n == FinalizePending(script[p].mem, t)
             s == ScriptAt("ready", "gate-deploy", n, NoTx)
  <2>1. At(p, k, "waiting") /\ UNCHANGED <<mishaps, overlooked, fate>>
    BY <1>8 DEF Waits, Await, Settle, chainVars
  <2>2. Ends(p) \/ (Becomes(p, s) /\ disk' = n /\ k = "decoder-deploy")
    BY <1>8 DEF Waits, Await, Settle, Ends, ThenGate
  <2>3. s.at = "ready" /\ s.kind = "gate-deploy"
    BY DEF ScriptAt
  <2> HIDE DEF s
  <2>4. CASE Becomes(p, s) /\ disk' = n /\ k = "decoder-deploy"
    <3>1. Clean => Attended(s, Lost') /\ AtMostOneTransaction'
      <4> SUFFICES ASSUME Clean PROVE Attended(s, Lost') /\ AtMostOneTransaction'
        OBVIOUS
      <4>1. /\ t.kind = k /\ Pending(disk, k) = t /\ script[p].mem = disk
            /\ Sound(disk, fate) /\ AtMostOneTransaction
            /\ \A u \in Lost : ChainOf(u.kind) # ChainOf(k)
        BY <1>0, <2>1 DEF Carrying, At, Attended
      <4>2. t # NoTx
        BY <4>1, AllKinds DEF NoTx
      <4> HIDE DEF t
      <4>3. \A u \in Lost' : ChainOf(u.kind) # ChainOf(k)
        BY <2>1, <2>4, <4>1, <4>2, OnceSettled
      <4>4. AtMostOneTransaction'
        BY <2>1, <4>1, SameFate
      <4>5. ChainOf("gate-deploy") = ChainOf("decoder-deploy")
        BY DEF ChainOf, SourceKinds
      <4> QED BY <2>3, <2>4, <4>3, <4>4, <4>5 DEF Attended
    <3> QED BY <1>2, <2>1, <2>4, <3>1
  <2> QED BY <1>4, <2>1, <2>2, <2>4
<1>9. CASE Recover(p, k)
  BY <1>4, <1>9 DEF Recover, Settle, chainVars, Ends
<1> QED BY <1>1, <1>5, <1>6, <1>7, <1>8, <1>9 DEF ScriptMove

LEMMA OnceNext == Inv /\ ProofsInv /\ Alone /\ OnceInv /\ [Next]_vars => OnceInv'
<1> SUFFICES ASSUME Inv, ProofsInv, Alone, OnceInv, [Next]_vars PROVE OnceInv'
  OBVIOUS
<1>1. ASSUME NEW p \in Terminals, Script(p) PROVE OnceInv'
  BY <1>1, OnceScript
<1>2. ASSUME NEW p \in Terminals, script[p] # NoScript, Ends(p), Clean' => Clean, UNCHANGED fate
      PROVE  OnceInv'
  <2>1. Attended(NoScript, Lost')
    BY DEF Attended, NoScript, ScriptAt
  <2>2. Clean => AtMostOneTransaction'
    BY <1>2, SameFate DEF OnceInv
  <2> QED BY <1>2, <2>1, <2>2, OnceActs DEF Ends
<1>3. ASSUME NEW p \in Terminals, DemoNegative(p) PROVE OnceInv'
  <2>1. CASE ObserveNegative(p)
    <3> PICK b, e : Starts(p, [at |-> "observed", kind |-> "negative", mem |-> disk,
                               tx |-> NoTx, bundle |-> b, seen |-> e])
      BY <2>1 DEF ObserveNegative
    <3> DEFINE s == [at |-> "observed", kind |-> "negative", mem |-> disk,
                     tx |-> NoTx, bundle |-> b, seen |-> e]
    <3>1. Starts(p, s) /\ s.at = "observed"
      OBVIOUS
    <3> HIDE DEF s
    <3> QED BY <2>1, <3>1, OnceStarts DEF ObserveNegative
  <2>2. CASE WriteNegative(p)
    BY <1>2, <2>2, SomewhereNotIdle DEF WriteNegative, At, chainVars, Clean
  <2> QED BY <1>3, <2>1, <2>2 DEF DemoNegative
<1>4. ASSUME NEW p \in Terminals, Resume(p) PROVE OnceInv'
  <2>1. ASSUME NEW t, Starts(p, ScriptAt("register", t.kind, disk, t)), UNCHANGED overlooked
        PROVE  OnceInv'
    <3> DEFINE s == ScriptAt("register", t.kind, disk, t)
    <3>1. Starts(p, s) /\ s.at = "register"
      BY <2>1 DEF ScriptAt
    <3> HIDE DEF s
    <3> QED BY <2>1, <3>1, OnceStarts
  <2>2. CASE script[p].at = "register" /\ Ends(p) /\ UNCHANGED <<chainVars, overlooked>>
    BY <1>2, <2>2, SomewhereNotIdle DEF chainVars, Clean
  <2> QED BY <1>4, <2>1, <2>2 DEF Resume
<1>5. ASSUME NEW p \in Terminals, Crash(p) PROVE OnceInv'
  <2>1. mishaps'["overlap"] = mishaps["overlap"]
    BY <1>5 DEF Crash, Happens, ProofsInv, Mishaps
  <2> QED BY <1>2, <1>5, <2>1 DEF Crash, Clean
<1>6. ASSUME Clean' => Clean, Lost' \subseteq Lost, UNCHANGED script,
             AtMostOneTransaction => AtMostOneTransaction'
      PROVE  OnceInv'
  BY <1>6 DEF OnceInv, Attended
<1>7. CASE FetchProof \/ UNCHANGED vars
  BY <1>6, <1>7, LostSame DEF FetchProof, chainVars, vars, files, Clean
<1>8. CASE World
  <2>1. mishaps'["overlap"] = mishaps["overlap"]
    BY <1>8, ChainsType DEF World, ProofsInv
  <2> QED BY <1>6, <1>8, <2>1, ChainsLive, ChainsLater, FewerLive DEF World, files, Clean
<1> QED BY <1>1, <1>3, <1>4, <1>5, <1>7, <1>8 DEF Next

LEMMA InitOnce == Init => OnceInv
BY DEF Init, ChainInit, OnceInv, AtMostOneTransaction, Attended, NoScript, ScriptAt, Sent

(* As long as one script runs at a time and none was started past a lost    *)
(* transaction, a step has at most one transaction that is mined or may be. *)
THEOREM OneTransactionPerStep == Spec => []OneUnlessOverlooked
<1>1. OnceInv => OneUnlessOverlooked
  BY DEF OnceInv, OneUnlessOverlooked, Clean
<1> QED BY InitInv, NextInv, InitProofs, ProofsNext, InitAlone, AloneNext, InitOnce, OnceNext,
           <1>1, PTL DEF Spec

-----------------------------------------------------------------------------
(* What the gates show of the credit commits that succeeded. *)
GatesOK(g) == g \in [1..MaxDestNonce -> [events : Nat, committed : BOOLEAN]]

Grows(g, h) ==
  \A n \in 1..MaxDestNonce :
    g[n].events <= h[n].events /\ (g[n].committed = TRUE => h[n].committed = TRUE)

Credited(g, n) == n \in 1..MaxDestNonce /\ g[n].events >= 2 /\ g[n].committed = TRUE

ChainsInv ==
  /\ GatesOK(gate)
  /\ \A t \in DOMAIN fate : t.nonce \in 1..MaxNonce(ChainOf(t.kind))
  /\ \A t \in DOMAIN fate : t.kind = "commit-credit" =>
       t.on[1] \in 1..MaxDestNonce /\ (Won(t, fate) => Credited(gate, t.on[1]))

LEMMA StillCredited ==
  ASSUME NEW g, NEW h, GatesOK(g), GatesOK(h), Grows(g, h), NEW n, Credited(g, n)
  PROVE  Credited(h, n)
BY DEF GatesOK, Grows, Credited

Applied(g, n) == [g EXCEPT ![n].events = @ + 1]
Committed(g, n) == [g EXCEPT ![n].committed = TRUE]

Moved(g, n, h) == h = g \/ h = Applied(g, n) \/ h = Committed(g, n)

LEMMA GateStates ==
  ASSUME NEW r \in [events : Nat, committed : BOOLEAN]
  PROVE  /\ [r EXCEPT !.events = @ + 1] \in [events : Nat, committed : BOOLEAN]
         /\ [r EXCEPT !.events = @ + 1].events = r.events + 1
         /\ [r EXCEPT !.events = @ + 1].committed = r.committed
         /\ [r EXCEPT !.committed = TRUE] \in [events : Nat, committed : BOOLEAN]
         /\ [r EXCEPT !.committed = TRUE].events = r.events
         /\ [r EXCEPT !.committed = TRUE].committed = TRUE
<1>1. [r EXCEPT !.events = @ + 1] \in [events : Nat, committed : BOOLEAN]
  OBVIOUS
<1>2. [r EXCEPT !.events = @ + 1].events = r.events + 1
  OBVIOUS
<1>3. [r EXCEPT !.events = @ + 1].committed = r.committed
  OBVIOUS
<1>4. [r EXCEPT !.committed = TRUE] \in [events : Nat, committed : BOOLEAN]
  OBVIOUS
<1>5. [r EXCEPT !.committed = TRUE].events = r.events
  OBVIOUS
<1>6. [r EXCEPT !.committed = TRUE].committed = TRUE
  OBVIOUS
<1> QED BY <1>1, <1>2, <1>3, <1>4, <1>5, <1>6

LEMMA GateMoves ==
  ASSUME NEW g, GatesOK(g), NEW n, NEW h, Moved(g, n, h)
  PROVE  GatesOK(h) /\ Grows(g, h)
<1> DEFINE R == [events : Nat, committed : BOOLEAN]
<1>1. g \in [1..MaxDestNonce -> R]
  BY DEF GatesOK
<1>2. CASE h = g
  BY <1>1, <1>2, GateStates DEF GatesOK, Grows
<1>3. CASE h = Applied(g, n)
  <2>1. /\ h = [m \in 1..MaxDestNonce |-> h[m]]
        /\ \A m \in 1..MaxDestNonce : h[m] = IF m = n THEN [g[m] EXCEPT !.events = @ + 1] ELSE g[m]
    BY <1>1, <1>3 DEF Applied
  <2>2. ASSUME NEW m \in 1..MaxDestNonce
        PROVE  h[m] \in R /\ g[m].events <= h[m].events /\ h[m].committed = g[m].committed
    <3>1. g[m] \in R /\ g[m].events \in Nat
      BY <1>1
    <3>2. CASE m = n
      <4>1. h[m] = [g[m] EXCEPT !.events = @ + 1]
        BY <2>1, <3>2
      <4> QED BY <3>1, <4>1, GateStates
    <3>3. CASE m # n
      BY <2>1, <3>1, <3>3
    <3> QED BY <3>2, <3>3
  <2> QED BY <2>1, <2>2 DEF GatesOK, Grows
<1>4. CASE h = Committed(g, n)
  <2>1. /\ h = [m \in 1..MaxDestNonce |-> h[m]]
        /\ \A m \in 1..MaxDestNonce : h[m] = IF m = n THEN [g[m] EXCEPT !.committed = TRUE] ELSE g[m]
    BY <1>1, <1>4 DEF Committed
  <2>2. ASSUME NEW m \in 1..MaxDestNonce
        PROVE  /\ h[m] \in R /\ g[m].events <= h[m].events
               /\ g[m].committed = TRUE => h[m].committed = TRUE
    <3>1. g[m] \in R /\ g[m].events \in Nat
      BY <1>1
    <3>2. CASE m = n
      <4>1. h[m] = [g[m] EXCEPT !.committed = TRUE]
        BY <2>1, <3>2
      <4>2. h[m] \in R
        BY <3>1, <4>1, GateStates
      <4>3. h[m].events = g[m].events
        BY <3>1, <4>1, GateStates
      <4>4. h[m].committed = TRUE
        BY <3>1, <4>1, GateStates
      <4> QED BY <3>1, <4>2, <4>3, <4>4
    <3>3. CASE m # n
      BY <2>1, <3>1, <3>3
    <3> QED BY <3>2, <3>3
  <2> QED BY <2>1, <2>2 DEF GatesOK, Grows
<1> QED BY <1>2, <1>3, <1>4 DEF Moved

LEMMA GrowsOn ==
  ASSUME NEW g, NEW h, NEW i, GatesOK(g), GatesOK(h), GatesOK(i), Grows(g, h), Grows(h, i)
  PROVE  Grows(g, i)
<1>1. \A n \in 1..MaxDestNonce : g[n].events \in Nat /\ h[n].events \in Nat /\ i[n].events \in Nat
  BY DEF GatesOK
<1> QED BY <1>1 DEF Grows

Pair(s) == s = [loan |-> s.loan, gate |-> s.gate]

LEMMA AfterGate ==
  ASSUME NEW s, Pair(s), NEW t
  PROVE  /\ Pair(After(s, t))
         /\ Moved(s.gate, t.on[1], After(s, t).gate)
         /\ Accepts(s, t) /\ t.kind = "commit-credit" =>
              After(s, t).gate = Committed(s.gate, t.on[1])
<1>1. CASE After(s, t) = s /\ (~Accepts(s, t) \/ t.kind # "commit-credit")
  BY <1>1 DEF Moved
<1>2. CASE /\ t.kind \in {"source-open", "source-repay"}
           /\ After(s, t) = [s EXCEPT !.loan[t.on[1]] = @ + 1]
  BY <1>2 DEF Pair, Moved
<1>3. CASE t.kind \in ProofKinds /\ After(s, t) = [s EXCEPT !.gate[t.on[1]].events = @ + 1]
  BY <1>3 DEF Pair, ProofKinds, Moved, Applied
<1>4. CASE After(s, t) = [s EXCEPT !.gate[t.on[1]].committed = TRUE]
  BY <1>4 DEF Pair, Moved, Committed
<1>5. \/ ~Accepts(s, t) \/ t.kind \in {"source-open", "source-repay"}
      \/ t.kind \in ProofKinds \/ t.kind = "commit-credit"
      \/ t.kind \notin {"source-open", "source-repay", "commit-credit"} \cup ProofKinds
  OBVIOUS
<1> QED BY <1>1, <1>2, <1>3, <1>4, <1>5 DEF After, ProofKinds

LEMMA AfterGrows ==
  ASSUME NEW s, Pair(s), GatesOK(s.gate), NEW t
  PROVE  /\ Pair(After(s, t)) /\ GatesOK(After(s, t).gate) /\ Grows(s.gate, After(s, t).gate)
         /\ Accepts(s, t) /\ t.kind = "commit-credit" /\ t.on[1] \in 1..MaxDestNonce =>
              Credited(After(s, t).gate, t.on[1])
<1>1. Pair(After(s, t)) /\ GatesOK(After(s, t).gate) /\ Grows(s.gate, After(s, t).gate)
  BY AfterGate, GateMoves
<1>2. ASSUME Accepts(s, t), t.kind = "commit-credit", t.on[1] \in 1..MaxDestNonce
      PROVE  Credited(After(s, t).gate, t.on[1])
  <2>1. s.gate[t.on[1]].events = 2
    BY <1>2 DEF Accepts, ProofKinds
  <2>2. After(s, t).gate = Committed(s.gate, t.on[1])
    BY <1>2, AfterGate
  <2>3. After(s, t).gate[t.on[1]] = [s.gate[t.on[1]] EXCEPT !.committed = TRUE]
    BY <1>2, <2>2 DEF Committed, GatesOK
  <2>4. s.gate[t.on[1]] \in [events : Nat, committed : BOOLEAN]
    BY <1>2 DEF GatesOK
  <2>5. After(s, t).gate[t.on[1]].events = 2 /\ After(s, t).gate[t.on[1]].committed = TRUE
    BY <2>1, <2>3, <2>4, GateStates
  <2> QED BY <1>2, <2>5 DEF Credited
<1> QED BY <1>1, <1>2

LEMMA RelayedGrows ==
  ASSUME NEW s, Pair(s), GatesOK(s.gate), NEW e \in Relayed(s)
  PROVE  Pair(e) /\ GatesOK(e.gate) /\ Grows(s.gate, e.gate)
<1> PICK n : e = [s EXCEPT !.gate[n].events = @ + 1]
  BY DEF Relayed
<1>1. Pair(e) /\ Moved(s.gate, n, e.gate)
  BY DEF Pair, Moved, Applied
<1> QED BY <1>1, GateMoves

LEMMA ChainsInvStep ==
  ASSUME ChainsInv, GatesOK(gate'), Grows(gate, gate'), DOMAIN fate' = DOMAIN fate,
         \A t \in DOMAIN fate : t.kind = "commit-credit" /\ Won(t, fate') /\ ~Won(t, fate) =>
           Credited(gate', t.on[1])
  PROVE  ChainsInv'
<1>1. \A t \in DOMAIN fate' : t.kind = "commit-credit" =>
        t.on[1] \in 1..MaxDestNonce /\ (Won(t, fate') => Credited(gate', t.on[1]))
  BY StillCredited DEF ChainsInv
<1> QED BY <1>1 DEF ChainsInv

LEMMA AcceptedUnlessReverted ==
  ASSUME NEW s, NEW t, NEW e, Outcome(s, t, e) \in {"matched", "succeeded"}
  PROVE  Accepts(s, t)
BY DEF Outcome

LEMMA ContractsPair == ChainsInv => Pair(Contracts) /\ GatesOK(Contracts.gate) /\ Contracts.gate = gate
BY DEF Pair, Contracts, ChainsInv

LEMMA ChainsKeep ==
  ASSUME ChainsInv, Chains
  PROVE  ChainsInv'
<1>1. CASE MineBlock
  <2> PICK c \in {"source", "destination"} : \E t \in First(c) :
        MineAlone(t) \/ MineBeforeRelay(t) \/ \E u \in Pool(c) : MineBoth(t, u)
    BY <1>1 DEF MineBlock
  <2> PICK t \in First(c) :
        MineAlone(t) \/ MineBeforeRelay(t) \/ \E u \in Pool(c) : MineBoth(t, u)
    OBVIOUS
  <2> DEFINE s == After(Contracts, t)
  <2>1. t \in DOMAIN fate
    BY DEF First, Pool, Sent
  <2>2. /\ Pair(s) /\ GatesOK(s.gate) /\ Grows(gate, s.gate)
        /\ Accepts(Contracts, t) /\ t.kind = "commit-credit" => Credited(s.gate, t.on[1])
    BY <2>1, ContractsPair, AfterGrows DEF ChainsInv
  <2>3. CASE MineAlone(t)
    <3>1. gate' = s.gate /\ fate' = [x \in DOMAIN fate |->
            IF x \in {t} THEN [y \in {t} |-> Outcome(Contracts, t, s)][x] ELSE fate[x]]
      BY <2>3 DEF MineAlone, EndsIn, Sent
    <3>2. \A x \in DOMAIN fate : Won(x, fate') /\ ~Won(x, fate) =>
            x = t /\ Outcome(Contracts, t, s) \in {"matched", "succeeded"}
      BY <3>1 DEF Won
    <3>3. \A x \in DOMAIN fate : Won(x, fate') /\ ~Won(x, fate) => x = t /\ Accepts(Contracts, t)
      BY <3>2, AcceptedUnlessReverted
    <3> HIDE DEF s
    <3> QED BY <2>2, <3>1, <3>3, ChainsInvStep
  <2>4. CASE MineBeforeRelay(t)
    <3> PICK end \in Relayed(s) : EndsIn(end, [x \in {t} |-> Outcome(Contracts, t, end)])
      BY <2>4 DEF MineBeforeRelay
    <3>1. gate' = end.gate /\ fate' = [x \in DOMAIN fate |->
            IF x \in {t} THEN [y \in {t} |-> Outcome(Contracts, t, end)][x] ELSE fate[x]]
      BY DEF EndsIn, Sent
    <3>2. \A x \in DOMAIN fate : Won(x, fate') /\ ~Won(x, fate) =>
            x = t /\ Outcome(Contracts, t, end) \in {"matched", "succeeded"}
      BY <3>1 DEF Won
    <3>3. \A x \in DOMAIN fate : Won(x, fate') /\ ~Won(x, fate) => x = t /\ Accepts(Contracts, t)
      BY <3>2, AcceptedUnlessReverted
    <3> HIDE DEF s
    <3>4. GatesOK(end.gate) /\ Grows(s.gate, end.gate)
      BY <2>2, RelayedGrows
    <3>5. Grows(gate, end.gate)
      BY <2>2, <3>4, GrowsOn DEF ChainsInv
    <3>6. Accepts(Contracts, t) /\ t.kind = "commit-credit" => Credited(end.gate, t.on[1])
      BY <2>2, <3>4, StillCredited
    <3> QED BY <3>1, <3>3, <3>4, <3>5, <3>6, ChainsInvStep
  <2>5. ASSUME NEW u \in Pool(c), MineBoth(t, u)
        PROVE  ChainsInv'
    <3> DEFINE end == After(s, u)
               O(x) == Outcome(IF x = t THEN Contracts ELSE s, x, end)
    <3>0. u \in DOMAIN fate
      BY DEF Pool, Sent
    <3>1. gate' = end.gate /\ fate' = [x \in DOMAIN fate |->
            IF x \in {t, u} THEN [y \in {t, u} |-> O(y)][x] ELSE fate[x]]
      BY <2>5 DEF MineBoth, EndsIn, Sent
    <3>2. \A x \in DOMAIN fate : Won(x, fate') /\ ~Won(x, fate) =>
            x \in {t, u} /\ O(x) \in {"matched", "succeeded"}
      <4> HIDE DEF O, end
      <4> QED BY <3>1 DEF Won
    <3>3. \A x \in DOMAIN fate : Won(x, fate') /\ ~Won(x, fate) =>
            (x = t /\ Accepts(Contracts, t)) \/ (x = u /\ Accepts(s, u))
      <4> HIDE DEF s, end
      <4> QED BY <3>2, AcceptedUnlessReverted
    <3>4. /\ GatesOK(end.gate) /\ Grows(s.gate, end.gate)
          /\ Accepts(s, u) /\ u.kind = "commit-credit" => Credited(end.gate, u.on[1])
      <4> HIDE DEF s
      <4> QED BY <2>2, <3>0, AfterGrows DEF ChainsInv
    <3> HIDE DEF s, end
    <3>5. Grows(gate, end.gate)
      BY <2>2, <3>4, GrowsOn DEF ChainsInv
    <3>6. Accepts(Contracts, t) /\ t.kind = "commit-credit" => Credited(end.gate, t.on[1])
      BY <2>2, <3>4, StillCredited
    <3> QED BY <3>1, <3>3, <3>4, <3>5, <3>6, ChainsInvStep
  <2> QED BY <2>3, <2>4, <2>5
<1>2. CASE Relay
  <2> PICK s \in Relayed(Contracts) : EndsIn(s, << >>)
    BY <1>2 DEF Relay
  <2>1. fate' = [t \in DOMAIN fate |-> fate[t]] /\ gate' = s.gate
    BY DEF EndsIn, Sent
  <2>2. GatesOK(gate') /\ Grows(gate, gate')
    BY <2>1, ContractsPair, RelayedGrows
  <2> QED BY <2>1, <2>2, ChainsInvStep DEF Won
<1>3. CASE Drop
  <2>1. Grows(gate, gate') /\ GatesOK(gate')
    BY <1>3 DEF Drop, ChainsInv, Grows, GatesOK
  <2> QED BY <1>3, <2>1, ChainsInvStep DEF Drop, Won, Sent
<1>4. CASE Expire
  BY <1>4 DEF Expire, ChainsInv
<1> QED BY <1>1, <1>2, <1>3, <1>4 DEF Chains

LEMMA ChainsInvSend ==
  ASSUME Inv, ChainsInv, NEW p \in Terminals, NEW k \in Kinds, Send(p, k)
  PROVE  ChainsInv'
<1> DEFINE t == [kind |-> k, nonce |-> NextNonce(ChainOf(k)),
                 on |-> Targets(script[p].mem, k), bundle |-> script[p].bundle]
<1>1. CASE UNCHANGED chainVars
  BY <1>1 DEF ChainsInv, chainVars
<1>2. CASE Broadcast(t)
  <2>1. /\ t.nonce \in 1..MaxNonce(ChainOf(t.kind)) /\ UNCHANGED gate
        /\ fate' = [u \in DOMAIN fate \cup {t} |-> IF u = t THEN "pool" ELSE fate[u]]
    BY <1>2 DEF Broadcast, Sent
  <2>2. ASSUME k = "commit-credit" PROVE t.on[1] \in 1..MaxDestNonce
    <3> DEFINE g == script[p].mem.rec["gate-deploy"]
    <3>1. Built(script[p].mem, k) /\ Sound(script[p].mem, fate)
      BY DEF Send, At, Inv, ScriptSound, Carrying
    <3>2. Recorded(script[p].mem, "gate-deploy")
      BY <2>2, <3>1, BeforeNames DEF Built
    <3>3. g \in DOMAIN fate /\ g.kind = "gate-deploy"
      BY <3>1, <3>2, KindNames DEF Sound, Won
    <3>4. g.nonce \in 1..MaxDestNonce
      BY <3>3 DEF ChainsInv, ChainOf, MaxNonce, SourceKinds
    <3>5. Against(k) = <<"gate-deploy">>
      BY <2>2 DEF Against, ProofKinds
    <3>6. t.on[1] = g.nonce
      BY <3>5 DEF Targets
    <3> QED BY <3>4, <3>6
  <2>3. t.kind = k
    OBVIOUS
  <2> HIDE DEF t
  <2>4. \A u \in DOMAIN fate' : Won(u, fate') => u # t /\ Won(u, fate)
    BY <2>1 DEF Won
  <2> QED BY <2>1, <2>2, <2>3, <2>4 DEF ChainsInv
<1> QED BY <1>1, <1>2 DEF Send

LEMMA ChainsInvNext == Inv /\ ChainsInv /\ [Next]_vars => ChainsInv'
<1> SUFFICES ASSUME Inv, ChainsInv, [Next]_vars PROVE ChainsInv'
  OBVIOUS
<1>1. CASE UNCHANGED <<fate, gate>>
  BY <1>1 DEF ChainsInv
<1>2. ASSUME NEW p \in Terminals, Script(p) PROVE ChainsInv'
  <2> PICK k \in Kinds : ScriptMove(p, k)
    BY <1>2, ScriptMoves
  <2>1. CASE Send(p, k)
    BY <2>1, ChainsInvSend
  <2>2. CASE Begin(p, k, "ready") \/ Begin(p, k, "preflight")
    BY <1>1, <2>2 DEF Begin, Starts
  <2>3. CASE Preflight(p, k) \/ Registers(p, k)
    BY <1>1, <2>3 DEF Preflight, Registers, RecordSent, chainVars
  <2>4. CASE Waits(p, k) \/ Recover(p, k)
    BY <1>1, <2>4 DEF Waits, Await, Recover, Settle, chainVars
  <2> QED BY <2>1, <2>2, <2>3, <2>4 DEF ScriptMove
<1>3. ASSUME NEW p \in Terminals, DemoNegative(p) \/ Resume(p) \/ Crash(p) PROVE ChainsInv'
  BY <1>1, <1>3 DEF DemoNegative, ObserveNegative, WriteNegative, Resume, Crash, Starts, chainVars
<1>4. CASE FetchProof \/ UNCHANGED vars
  BY <1>1, <1>4 DEF FetchProof, vars, chainVars
<1>5. CASE World
  BY <1>5, ChainsKeep DEF World
<1> QED BY <1>2, <1>3, <1>4, <1>5 DEF Next

LEMMA InitChains == Init => ChainsInv
BY DEF Init, ChainInit, ChainsInv, GatesOK

(* A complete manifest passes the audit of resume.js whatever ran at once:  *)
(* its credit commit succeeded at the gate recorded beside it, and a gate's *)
(* events and commitment are never taken back.                              *)
THEOREM CompleteRunsPass == Spec => []CompleteRunPassesAudit
<1>1. ASSUME Inv, ChainsInv PROVE CompleteRunPassesAudit
  <2> DEFINE g == disk.rec["gate-deploy"]
             t == disk.rec["commit-credit"]
  <2> SUFFICES ASSUME Complete, ~(gate[g.nonce].events > 2) PROVE Audit(disk)
    BY DEF CompleteRunPassesAudit
  <2>1. DOMAIN disk.pend = Ends2 /\ Sound(disk, fate)
    BY <1>1 DEF Inv, Sound, Shape
  <2>2. \A c \in Ends2 : disk.pend[c] = NoTx
    <3>1. ASSUME NEW c \in Ends2, disk.pend[c] # NoTx PROVE FALSE
      <4>1. PICK d \in Ends2 : disk.pend[d] # NoTx /\ disk.pend[d].kind = "complete"
        BY <2>1, <3>1 DEF Complete, NextRunStep, Ends2
      <4> QED BY <2>1, <4>1, AllKinds DEF Sound, Aimed
    <3> QED BY <3>1
  <2>3. FirstUndone(disk, proofs) = "complete"
    BY <2>1, <2>2 DEF Complete, NextRunStep
  <2>4. \A i \in 1..9 : Done(disk, proofs, RunOrder[i])
    <3> DEFINE left == {i \in DOMAIN RunOrder : ~Done(disk, proofs, RunOrder[i])}
    <3>1. left = {}
      <4>1. ASSUME left # {} PROVE FALSE
        <5>1. Min(left) \in left
          <6>1. left \in SUBSET Nat
            BY DEF RunOrder
          <6> HIDE DEF left
          <6>2. \E n \in left : \A i \in left : n =< i
            BY <4>1, <6>1, LeastNatural
          <6> QED BY <6>2 DEF Min
        <5>2. Min(left) \in 1..9
          BY <5>1 DEF RunOrder
        <5>3. RunOrder[Min(left)] = "complete"
          BY <2>3, <4>1 DEF FirstUndone
        <5> HIDE DEF left
        <5>4. \A n \in 1..9 : RunOrder[n] # "complete"
          BY RunOrderIs
        <5> QED BY <5>2, <5>3, <5>4
      <4> QED BY <4>1
    <3> QED BY <3>1 DEF RunOrder
  <2>5. /\ Recorded(disk, "source-deploy") /\ Recorded(disk, "source-open")
        /\ Recorded(disk, "source-repay") /\ Recorded(disk, "gate-deploy")
        /\ Recorded(disk, "debt-opened") /\ Recorded(disk, "debt-repaid")
        /\ Recorded(disk, "commit-credit")
    BY <2>4, RunOrderIs DEF Done
  <2>6. Recorded(disk, "decoder-deploy")
    BY <1>1, <2>5, RecordedBuilt, KindNames, BeforeNames DEF Built
  <2>7. \A k \in Kinds : Recorded(disk, k)
    BY <2>5, <2>6, AllKinds
  <2>8. \A k \in Kinds : Made(disk, k)
    BY <2>1, <2>7, AgainstKinds DEF Sound, Aimed, Asked, Won, Made, Succeeded, Sent
  <2>9. /\ Won(t, fate) /\ t.kind = "commit-credit" /\ t \in DOMAIN fate
        /\ t.on = Targets(disk, "commit-credit")
    BY <2>1, <2>7, AllKinds DEF Sound, Aimed
  <2>10. t.on[1] = g.nonce
    <3>1. Against("commit-credit") = <<"gate-deploy">>
      BY DEF Against, ProofKinds
    <3> QED BY <2>9, <3>1 DEF Targets
  <2>11. Credited(gate, g.nonce)
    BY <1>1, <2>9, <2>10 DEF ChainsInv
  <2>12. gate[g.nonce] = Final
    <3>1. gate[g.nonce] \in [events : Nat, committed : BOOLEAN]
      BY <1>1, <2>11 DEF Credited, ChainsInv, GatesOK
    <3>2. gate[g.nonce].events = 2 /\ gate[g.nonce].committed = TRUE
      BY <2>11, <3>1 DEF Credited
    <3> HIDE DEF g
    <3> QED BY <3>1, <3>2 DEF Final
  <2> QED BY <2>8, <2>12 DEF Audit
<1> QED BY InitInv, NextInv, InitChains, ChainsInvNext, <1>1, PTL DEF Spec
=============================================================================
