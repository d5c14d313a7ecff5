----------------------------- MODULE Phase2Run -----------------------------
(***************************************************************************)
(* A Phase 2 run: processes of scripts/phase2-demo.js that are started,    *)
(* fail, are killed and started again with the same run ID, each behind    *)
(* the execution lock, and the chain their transactions go to.             *)
(***************************************************************************)
EXTENDS PreparedJournal

CONSTANTS
  MaxMishaps,       \* bound: calls that throw and processes that are killed
  KilledWhileLocking  \* whether one may be killed before its lock is filled

ASSUME RunConstants == MaxMishaps \in Nat /\ KilledWhileLocking \in BOOLEAN

VARIABLE mishaps

vars == <<chainVars, lockVars, journalVars, mishaps>>

Init == ChainInit /\ LockInit /\ JournalInit /\ mishaps = 0

Locking(p) ==
  /\ Lock(p)
  /\ UNCHANGED <<chainVars, journalVars, mishaps>>

Working(p) ==
  /\ phase[p] = "in"
  /\ Load(p) \/ Transact(p)
  /\ UNCHANGED <<lockVars, mishaps>>

(* finally{ unlock() } *)
Leaving(p) ==
  /\ at[p] = "done"
  /\ Unlock(p) /\ Forget(p)
  /\ UNCHANGED <<chainVars, mishaps>>

Failing(p) ==
  /\ Throw(p)
  /\ mishaps < MaxMishaps /\ mishaps' = mishaps + 1
  /\ UNCHANGED lockVars

Dying(p) ==
  /\ KilledWhileLocking \/ phase[p] # "created"
  /\ Killed(p) /\ Forget(p)
  /\ mishaps < MaxMishaps /\ mishaps' = mishaps + 1
  /\ UNCHANGED chainVars

Process(p) == Locking(p) \/ Working(p) \/ Leaving(p)

Chain == ChainNext /\ UNCHANGED <<lockVars, journalVars, mishaps>>

Next ==
  \/ \E p \in Processes : Process(p) \/ Failing(p) \/ Dying(p)
  \/ Chain

Spec == Init /\ [][Next]_vars

(* The run is repeated until it is complete, a process that is not killed  *)
(* goes on, and a transaction that waits is mined.                         *)
FairSpec ==
  /\ Spec
  /\ \A p \in Processes : WF_vars(Process(p))
  /\ WF_vars(MineSome /\ UNCHANGED <<lockVars, journalVars, mishaps>>)

-----------------------------------------------------------------------------
(* Types of the chain, the lock and the journal. *)
TypeOK ==
  /\ ChainTypeOK /\ LockTypeOK /\ JournalTypeOK
  /\ mishaps \in 0..MaxMishaps

(* However often the run is interrupted and repeated, at most one           *)
(* transaction is ever broadcast for a step: "It never creates a            *)
(* replacement transaction with a new nonce" (docs/PHASE2_PUBLIC_RUN.md).   *)
AtMostOneTransaction == \A t, u \in sent : t.step = u.step => t = u

(* The journal on disk knows every transaction the network may have seen:  *)
(* "intent must be durable before network write"                           *)
(* (test/phase2-journal.test.js).                                          *)
IntentBeforeBroadcast ==
  \A t \in sent : file[t.step] # Unprepared /\ file[t.step].tx = t

(* A step is only broadcast once every earlier step has succeeded on chain. *)
StepsInOrder ==
  \A t \in sent : \A k \in 1..(t.step - 1) :
    \E u \in sent : u.step = k /\ receipt[u] = "SUCCESS"

(* What the journal confirmed it never takes back, also when a process that *)
(* read an older manifest saves all of it.                                  *)
ConfirmedIsFinal ==
  [][\A k \in Steps : file[k].status = "CONFIRMED" => file'[k] = file[k]]_vars

(* A run that is repeated after every interruption completes: "For          *)
(* interruption recovery repeat `run` with the same ID"                     *)
(* (docs/PHASE2_PUBLIC_RUN.md).  Three things end it for good: a step that  *)
(* reverts, a nonce another transaction of the account took, and a lock     *)
(* whose process died before it was filled, which lock() cannot parse.      *)
Reverted == \E t \in sent : receipt[t] = "REVERTED"
NonceTaken == \E k \in Steps :
  file[k].status = "PREPARED" /\ file[k].tx.nonce < used
    /\ receipt[file[k].tx] = "NONE"
LockTorn == lockFile = [owner |-> Gone, written |-> FALSE]

RunCompletes ==
  <>( \/ \A k \in Steps : file[k].status = "CONFIRMED"
      \/ Reverted \/ NonceTaken \/ LockTorn )

-----------------------------------------------------------------------------
(* The inductive invariant of the proofs, without concurrent starts. *)

(* Only the starter may be inside lock(); what it found there is still so,  *)
(* and the lock names the process that runs.                                *)
Starting(p) == phase[p] \notin {"out", "in"}

LockInv ==
  /\ LockTypeOK
  /\ \A p, q \in Processes : Starting(p) /\ Starting(q) => p = q
  /\ \A p \in Processes :
       /\ phase[p] = "in" => lockFile = [owner |-> p, written |-> TRUE]
       /\ phase[p] = "created" => lockFile = [owner |-> p, written |-> FALSE]
       /\ phase[p] = "absent" => lockFile = Absent
       /\ phase[p] = "read" => \A q \in Processes : phase[q] = "in" => old[p] = q
       /\ phase[p] = "stale" => \A q \in Processes : phase[q] # "in"

(* Spent nonces are below the next one. *)
ReceiptsSpent ==
  /\ pool \subseteq sent
  /\ \A t \in Tx : receipt[t] # "NONE" => t \in sent /\ t.nonce < used

(* A manifest f fits what was sent and mined. *)
ManifestFits(f, s, r) ==
  /\ \A k \in Steps : f[k] # Unprepared =>
       /\ f[k].tx.step = k
       /\ \A j \in 1..(k - 1) : f[j].status = "CONFIRMED"
  /\ \A k \in Steps : f[k].status = "CONFIRMED" => r[f[k].tx] = "SUCCESS"
  /\ \A t \in s : f[t.step] # Unprepared /\ f[t.step].tx = t

(* What a place in transact knows of the manifest f and the receipts r. *)
PlaceFits(place, f, r) ==
  /\ place = "populated" =>
       PendingIn(f) # {} /\ f[Min(PendingIn(f))] = Unprepared
  /\ place \in {"prepared", "unconfirmed", "send", "waiting", "confirm"} =>
       PendingIn(f) # {} /\ f[Min(PendingIn(f))].status = "PREPARED"
  /\ place = "confirm" => r[f[Min(PendingIn(f))].tx] = "SUCCESS"

(* A process at work holds the lock and has the manifest as it is on disk. *)
JournalInv ==
  /\ ManifestFits(file, sent, receipt)
  /\ \A p \in Processes : at[p] # "idle" =>
       phase[p] = "in" /\ memory[p] = file /\ PlaceFits(at[p], file, receipt)

IInv == TypeOK /\ LockInv /\ ReceiptsSpent /\ JournalInv
=============================================================================
