--------------------------- MODULE ExecutionLock ---------------------------
(***************************************************************************)
(* lock() of scripts/phase2-demo.js: the file .execution-lock names the    *)
(* process that executes a run; the lock of a process that no longer runs  *)
(* is removed.  Every file system call is a step of its own, and a process *)
(* may be killed between any two.  Processes run on one host; the process  *)
(* identifier of a dead process is not used again.                         *)
(***************************************************************************)
EXTENDS Integers, FiniteSets

CONSTANTS
  Processes,         \* slots a process runs in, one after the other
  ConcurrentStarts   \* whether two processes may be inside lock() at once

(* A process is known by a slot; Gone stands for every dead process. *)
Gone == "gone"
Absent == [owner |-> "nobody", written |-> FALSE]

ASSUME LockConstants ==
  /\ ConcurrentStarts \in BOOLEAN
  /\ Gone \notin Processes /\ "nobody" \notin Processes

VARIABLES
  lockFile,  \* who created the file, and whether its text is written
  phase,     \* where each process is in lock()
  old        \* the owner it read

lockVars == <<lockFile, phase, old>>

Phases == {"out", "exists", "read", "stale", "absent", "created", "in"}

LockTypeOK ==
  /\ \/ lockFile = Absent
     \/ lockFile \in [owner : Processes \cup {Gone}, written : BOOLEAN]
  /\ phase \in [Processes -> Phases]
  /\ old \in [Processes -> Processes \cup {Gone}]

LockInit ==
  /\ lockFile = Absent
  /\ phase = [p \in Processes |-> "out"]
  /\ old = [p \in Processes |-> Gone]

Enters(p, next) == phase' = [phase EXCEPT ![p] = next]

(* p no longer runs. *)
Ends(p, file) ==
  /\ Enters(p, "out")
  /\ lockFile' = IF file.owner = p THEN [file EXCEPT !.owner = Gone] ELSE file
  /\ old' = [q \in Processes |-> IF q = p \/ old[q] = p THEN Gone ELSE old[q]]

-----------------------------------------------------------------------------
(* existsSync(file) *)
Look(p) ==
  /\ phase[p] = "out"
  /\ ConcurrentStarts \/ \A q \in Processes : phase[q] \in {"out", "in"}
  /\ Enters(p, IF lockFile = Absent THEN "absent" ELSE "exists")
  /\ UNCHANGED <<lockFile, old>>

(* JSON.parse(readFileSync(file)) throws on a file that is empty or gone. *)
ReadOwner(p) ==
  /\ phase[p] = "exists"
  /\ IF lockFile.written
     THEN /\ Enters(p, "read")
          /\ old' = [old EXCEPT ![p] = lockFile.owner]
          /\ UNCHANGED lockFile
     ELSE Ends(p, lockFile)

(* Mutated form: a process is never found dead or alive, just replaced. *)
ProbeNobody(p) ==
  /\ phase[p] = "read"
  /\ Enters(p, "stale")
  /\ UNCHANGED <<lockFile, old>>

(* process.kill(old.pid, 0) *)
Probe(p) ==
  /\ phase[p] = "read"
  /\ IF old[p] = Gone
     THEN Enters(p, "stale") /\ UNCHANGED <<lockFile, old>>
     ELSE Ends(p, lockFile)

(* unlinkSync(file): of whatever file is there by now. *)
Remove(p) ==
  /\ phase[p] = "stale"
  /\ IF lockFile # Absent
     THEN Enters(p, "absent") /\ lockFile' = Absent /\ UNCHANGED old
     ELSE Ends(p, lockFile)

(* writeFileSync(file, ..., {flag: 'wx'}) creates the file, then fills it. *)
Create(p) ==
  /\ phase[p] = "absent"
  /\ IF lockFile = Absent
     THEN /\ Enters(p, "created")
          /\ lockFile' = [owner |-> p, written |-> FALSE]
          /\ UNCHANGED old
     ELSE Ends(p, lockFile)

Fill(p) ==
  /\ phase[p] = "created"
  /\ Enters(p, "in")
  /\ lockFile' = IF lockFile.owner = p THEN [lockFile EXCEPT !.written = TRUE]
                 ELSE lockFile
  /\ UNCHANGED old

Lock(p) ==
  \/ Look(p) \/ ReadOwner(p) \/ Probe(p) \/ Remove(p) \/ Create(p) \/ Fill(p)

(* The process ends and removes the lock, or is killed and leaves it. *)
Unlock(p) ==
  /\ phase[p] = "in"
  /\ Ends(p, Absent)

Killed(p) ==
  /\ phase[p] # "out"
  /\ Ends(p, lockFile)

-----------------------------------------------------------------------------
(* "One process per run is enforced with a local execution lock."           *)
(* (docs/PHASE2_PUBLIC_RUN.md)                                              *)
OneProcess == Cardinality({p \in Processes : phase[p] = "in"}) <= 1
=============================================================================
