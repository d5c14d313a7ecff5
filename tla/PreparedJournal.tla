-------------------------- MODULE PreparedJournal --------------------------
(***************************************************************************)
(* src/phase2-journal.js: a process of scripts/phase2-demo.js carries out  *)
(* the transactions of a run in order.  Each is signed and its intent,     *)
(* with the hash, saved before the first broadcast; a later process looks  *)
(* the hash up and broadcasts the identical transaction if it is unknown.  *)
(* A process works on the manifest it read when it started and always      *)
(* saves all of it (save in phase2-demo.js).                               *)
(***************************************************************************)
EXTENDS SignerChain, ExecutionLock

Unprepared == [status |-> "UNPREPARED"]
Entry == {Unprepared} \cup [status : {"PREPARED", "CONFIRMED"}, tx : Tx]
Blank == [k \in Steps |-> Unprepared]

VARIABLES
  file,       \* the manifest on disk: the entry of every step
  memory,     \* the manifest in each process
  at,         \* where each process is in transact
  populated   \* the nonce it populated its transaction with

journalVars == <<file, memory, at, populated>>

Places == {"idle", "next", "populated", "prepared", "unconfirmed", "send",
           "waiting", "confirm", "done"}

JournalTypeOK ==
  /\ file \in [Steps -> Entry]
  /\ memory \in [Processes -> [Steps -> Entry]]
  /\ at \in [Processes -> Places]
  /\ populated \in [Processes -> 0..MaxNonce]

JournalInit ==
  /\ file = Blank
  /\ memory = [p \in Processes |-> Blank]
  /\ at = [p \in Processes |-> "idle"]
  /\ populated = [p \in Processes |-> 0]

Goes(p, place) == at' = [at EXCEPT ![p] = place]

-----------------------------------------------------------------------------
(* Steps already confirmed are only verified again. *)
PendingIn(manifest) == {k \in Steps : manifest[k].status # "CONFIRMED"}
Pending(p) == PendingIn(memory[p])
Current(p) == Min(Pending(p))
Intent(p) == memory[p][Current(p)].tx

(* manifest = JSON.parse(readFileSync(file)) *)
Load(p) ==
  /\ at[p] = "idle"
  /\ memory' = [memory EXCEPT ![p] = file]
  /\ Goes(p, "next")
  /\ UNCHANGED <<file, populated, chainVars>>

(* manifest.steps[key] = entry; save(): the file becomes the memory. *)
Save(p, entry) ==
  /\ memory' = [memory EXCEPT ![p][Current(p)] = entry]
  /\ file' = memory'[p]

Finish(p) ==
  /\ at[p] = "next" /\ Pending(p) = {}
  /\ Goes(p, "done")
  /\ UNCHANGED <<file, memory, populated, chainVars>>

Populate(p) ==
  /\ at[p] = "next" /\ Pending(p) # {}
  /\ memory[p][Current(p)] = Unprepared
  /\ NextNonce \in 0..MaxNonce
  /\ populated' = [populated EXCEPT ![p] = NextNonce]
  /\ Goes(p, "populated")
  /\ UNCHANGED <<file, memory, chainVars>>

Resume(p) ==
  /\ at[p] = "next" /\ Pending(p) # {}
  /\ memory[p][Current(p)] # Unprepared
  /\ Goes(p, "prepared")
  /\ UNCHANGED <<file, memory, populated, chainVars>>

Prepared(p) == [status |-> "PREPARED",
                tx |-> [step |-> Current(p), nonce |-> populated[p]]]

(* Mutated form: the intent is kept in memory and saved with the receipt. *)
PrepareUnsaved(p) ==
  /\ at[p] = "populated"
  /\ memory' = [memory EXCEPT ![p][Current(p)] = Prepared(p)]
  /\ Goes(p, "prepared")
  /\ UNCHANGED <<file, populated, chainVars>>

Prepare(p) ==
  /\ at[p] = "populated"
  /\ Save(p, Prepared(p))
  /\ Goes(p, "prepared")
  /\ UNCHANGED <<populated, chainVars>>

(* Mutated form: any receipt counts, also one of a reverted transaction. *)
CheckReceiptOfAny(p) ==
  /\ at[p] = "prepared"
  /\ Goes(p, IF receipt[Intent(p)] # "NONE" THEN "confirm" ELSE "unconfirmed")
  /\ UNCHANGED <<file, memory, populated, chainVars>>

(* getTransactionReceipt(hash) *)
CheckReceipt(p) ==
  /\ at[p] = "prepared"
  /\ Goes(p, CASE receipt[Intent(p)] = "SUCCESS"  -> "confirm"
               [] receipt[Intent(p)] = "REVERTED" -> "done"
               [] OTHER                           -> "unconfirmed")
  /\ UNCHANGED <<file, memory, populated, chainVars>>

(* Mutated form: a transaction that is not found is prepared again. *)
CheckKnownReplacing(p) ==
  /\ at[p] = "unconfirmed"
  /\ NextNonce <= MaxNonce
  /\ IF Intent(p) \in pool
     THEN Goes(p, "done") /\ UNCHANGED <<file, memory>>
     ELSE /\ Save(p, [Prepared(p) EXCEPT !.tx.nonce = NextNonce])
          /\ Goes(p, "send")
  /\ UNCHANGED <<populated, chainVars>>

(* Mutated form: a recorded transaction is never broadcast again. *)
CheckKnownOnly(p) ==
  /\ at[p] = "unconfirmed"
  /\ Goes(p, "done")
  /\ UNCHANGED <<file, memory, populated, chainVars>>

(* getTransaction(hash): one that waits is left alone; the node that is *)
(* asked may not know a transaction that waits in another node's pool.  *)
CheckKnown(p) ==
  /\ at[p] = "unconfirmed"
  /\ \/ /\ Intent(p) \in pool \/ receipt[Intent(p)] # "NONE"
        /\ Goes(p, "done")
     \/ receipt[Intent(p)] = "NONE" /\ Goes(p, "send")
  /\ UNCHANGED <<file, memory, populated, chainVars>>

Send(p) ==
  /\ at[p] = "send"
  /\ IF PoolAccepts(Intent(p))
     THEN Broadcast(Intent(p)) /\ Goes(p, "waiting")
     ELSE Goes(p, "done") /\ UNCHANGED chainVars
  /\ UNCHANGED <<file, memory, populated>>

(* sent.wait(1, 180000) throws when the time is up, the transaction was *)
(* reverted or its nonce went to another one.                           *)
Wait(p) ==
  /\ at[p] = "waiting"
  /\ \/ receipt[Intent(p)] = "SUCCESS" /\ Goes(p, "confirm")
     \/ receipt[Intent(p)] # "SUCCESS" /\ Goes(p, "done")
  /\ UNCHANGED <<file, memory, populated, chainVars>>

(* Mutated form: the entry is replaced, not completed. *)
ConfirmReplacing(p) ==
  /\ at[p] = "confirm"
  /\ Save(p, [status |-> "CONFIRMED"])
  /\ Goes(p, "next")
  /\ UNCHANGED <<populated, chainVars>>

Confirm(p) ==
  /\ at[p] = "confirm"
  /\ Save(p, [memory[p][Current(p)] EXCEPT !.status = "CONFIRMED"])
  /\ Goes(p, "next")
  /\ UNCHANGED <<populated, chainVars>>

(* A call of the process throws: the answer of a broadcast that arrived is *)
(* lost, a node does not answer, --stop-after asks for it.                  *)
Throw(p) ==
  /\ at[p] \notin {"idle", "done"}
  /\ Goes(p, "done")
  /\ UNCHANGED <<file, memory, populated, chainVars>>

(* The process is gone, and its memory with it. *)
Forget(p) ==
  /\ Goes(p, "idle")
  /\ memory' = [memory EXCEPT ![p] = Blank]
  /\ populated' = [populated EXCEPT ![p] = 0]
  /\ UNCHANGED file

Transact(p) ==
  \/ Populate(p) \/ Resume(p) \/ Prepare(p) \/ CheckReceipt(p)
  \/ CheckKnown(p) \/ Send(p) \/ Wait(p) \/ Confirm(p) \/ Finish(p)
=============================================================================
