-------------------------- MODULE Phase2RunProofs --------------------------
(***************************************************************************)
(* Theorems about Phase2Run for every number of steps, processes, nonces   *)
(* and mishaps, when no two processes are inside lock() at once.           *)
(***************************************************************************)
EXTENDS Phase2Run, DataLemmas

USE ChainConstants, LockConstants, RunConstants

(* The current step is the least one that is not confirmed. *)
LEMMA CurrentLeast ==
  ASSUME NEW f, PendingIn(f) # {}
  PROVE  /\ Min(PendingIn(f)) \in PendingIn(f)
         /\ \A k \in PendingIn(f) : Min(PendingIn(f)) <= k
<1> DEFINE T == PendingIn(f)
<1>1. T \in SUBSET Nat
  BY DEF PendingIn, Steps
<1> HIDE DEF T
<1>2. PICK m \in T : \A k \in T : m <= k
  BY <1>1, LeastNatural DEF T
<1> QED BY <1>2 DEF Min, T

-----------------------------------------------------------------------------
(* lock(): one process at a time. *)
LEMMA LockStart == LockInit => LockInv
BY DEF LockInit, LockInv, LockTypeOK, Phases, Starting, Absent

(* A process that ends, leaving its lock or removing it. *)
LEMMA EndStep ==
  ASSUME LockInv, NEW p \in Processes, NEW f,
         f = lockFile \/ (f = Absent /\ phase[p] = "in"),
         Ends(p, f)
  PROVE  LockInv'
<1>0. Absent.owner # p /\ lockFile' \in {f, [f EXCEPT !.owner = Gone]}
      /\ (f.owner # p => lockFile' = f)
  BY DEF Ends, Absent
<1>1. LockTypeOK'
  <2>1. \/ lockFile' = Absent
        \/ lockFile' \in [owner : Processes \cup {Gone}, written : BOOLEAN]
    BY <1>0 DEF LockInv, LockTypeOK
  <2>2. /\ phase' \in [Processes -> Phases]
        /\ old' \in [Processes -> Processes \cup {Gone}]
    BY DEF LockInv, LockTypeOK, Ends, Enters, Phases
  <2> QED BY <2>1, <2>2 DEF LockTypeOK
<1>2. \A q \in Processes : phase'[q] = IF q = p THEN "out" ELSE phase[q]
  BY DEF LockInv, LockTypeOK, Ends, Enters
<1>3. \A q, r \in Processes : Starting(q)' /\ Starting(r)' => q = r
  BY <1>2 DEF LockInv, Starting
<1>4. ASSUME NEW q \in Processes, q # p, phase[q] \in {"in", "created"}
      PROVE  lockFile' = lockFile
  BY <1>4 DEF LockInv, Ends
<1>5. ASSUME NEW q \in Processes, phase'[q] = "absent" PROVE lockFile' = Absent
  <2>1. q # p /\ phase[q] = "absent"
    BY <1>2, <1>5
  <2>2. lockFile = Absent
    BY <2>1 DEF LockInv
  <2> QED BY <1>0, <2>2
<1>6. ASSUME NEW q \in Processes, phase'[q] = "read",
             NEW r \in Processes, phase'[r] = "in"
      PROVE  old'[q] = r
  BY <1>2, <1>6 DEF LockInv, Ends
<1> QED BY <1>1, <1>2, <1>3, <1>4, <1>5, <1>6 DEF LockInv

(* Every call of lock() keeps the invariant. *)
LEMMA LockStep ==
  ASSUME LockInv, ~ConcurrentStarts, NEW p \in Processes, Lock(p)
  PROVE  LockInv'
<1>1. CASE Look(p)
  BY <1>1 DEF Look, Enters, LockInv, LockTypeOK, Phases, Starting
<1>2. CASE ReadOwner(p)
  <2>1. CASE lockFile.written
    BY <1>2, <2>1 DEF ReadOwner, Enters, LockInv, LockTypeOK, Phases, Starting, Absent
  <2>2. CASE ~lockFile.written
    BY <1>2, <2>2, EndStep DEF ReadOwner
  <2> QED BY <2>1, <2>2
<1>3. CASE Probe(p)
  <2>1. CASE old[p] = Gone
    BY <1>3, <2>1 DEF Probe, Enters, LockInv, LockTypeOK, Phases, Starting
  <2>2. CASE old[p] # Gone
    BY <1>3, <2>2, EndStep DEF Probe
  <2> QED BY <2>1, <2>2
<1>4. CASE Remove(p)
  <2>1. CASE lockFile # Absent
    BY <1>4, <2>1 DEF Remove, Enters, LockInv, LockTypeOK, Phases, Starting
  <2>2. CASE lockFile = Absent
    BY <1>4, <2>2, EndStep DEF Remove
  <2> QED BY <2>1, <2>2
<1>5. CASE Create(p)
  <2>1. CASE lockFile = Absent
    <3>1. /\ phase[p] = "absent" /\ old' = old
          /\ phase' = [phase EXCEPT ![p] = "created"]
          /\ lockFile' = [owner |-> p, written |-> FALSE]
      BY <1>5, <2>1 DEF Create, Enters
    <3>2. \A q \in Processes : phase[q] # "in" /\ (q # p => ~Starting(q))
      BY <2>1, <3>1 DEF LockInv, Starting, Absent
    <3>3. LockTypeOK'
      BY <3>1 DEF LockInv, LockTypeOK, Phases
    <3>4. \A q \in Processes :
            phase'[q] = IF q = p THEN "created" ELSE phase[q]
      BY <3>1 DEF LockInv, LockTypeOK
    <3>5. \A q, r \in Processes : Starting(q)' /\ Starting(r)' => q = r
      BY <3>2, <3>4 DEF Starting
    <3>6. \A q \in Processes : phase'[q] = "created" => q = p
      BY <3>2, <3>4 DEF Starting
    <3>7. \A q \in Processes : phase'[q] \notin {"in", "absent", "read", "stale"}
      BY <3>2, <3>4 DEF Starting
    <3> QED BY <3>1, <3>3, <3>5, <3>6, <3>7 DEF LockInv
  <2>2. CASE lockFile # Absent
    BY <1>5, <2>2, EndStep DEF Create
  <2> QED BY <2>1, <2>2
<1>6. CASE Fill(p)
  <2>0. phase[p] = "created" /\ lockFile = [owner |-> p, written |-> FALSE]
    BY <1>6 DEF Fill, LockInv
  <2>1. /\ old' = old
        /\ phase' = [phase EXCEPT ![p] = "in"]
        /\ lockFile' = [owner |-> p, written |-> TRUE]
    BY <1>6, <2>0 DEF Fill, Enters
  <2>2. \A q \in Processes : phase[q] # "in" /\ (q # p => ~Starting(q))
    BY <2>0 DEF LockInv, Starting
  <2>3. LockTypeOK'
    BY <2>1 DEF LockInv, LockTypeOK, Phases
  <2>4. \A q \in Processes :
          phase'[q] = IF q = p THEN "in" ELSE phase[q]
    BY <2>1 DEF LockInv, LockTypeOK
  <2>5. \A q, r \in Processes : Starting(q)' /\ Starting(r)' => q = r
    BY <2>2, <2>4 DEF Starting
  <2>6. \A q \in Processes : phase'[q] = "in" => q = p
    BY <2>2, <2>4
  <2>7. \A q \in Processes :
          phase'[q] \notin {"created", "absent", "read", "stale"}
    BY <2>2, <2>4 DEF Starting
  <2> QED BY <2>1, <2>3, <2>5, <2>6, <2>7 DEF LockInv
<1> QED BY <1>1, <1>2, <1>3, <1>4, <1>5, <1>6 DEF Lock

-----------------------------------------------------------------------------
(* transact(): the process that is in works alone, on the file itself. *)
LEMMA Alone ==
  ASSUME LockInv, JournalInv, NEW p \in Processes, NEW q \in Processes,
         at[p] # "idle", phase[q] = "in"
  PROVE  p = q
BY DEF LockInv, JournalInv

LEMMA OneWorks ==
  ASSUME IInv, NEW p \in Processes, phase[p] = "in", phase' = phase,
         NEW place, Goes(p, place), memory'[p] = file',
         ManifestFits(file', sent', receipt'),
         PlaceFits(place, file', receipt')
  PROVE  JournalInv'
<1>1. \A q \in Processes : at'[q] = IF q = p THEN place ELSE at[q]
  BY DEF IInv, TypeOK, JournalTypeOK, Goes
<1>2. \A q \in Processes : q # p => at[q] = "idle"
  BY Alone DEF IInv
<1> QED BY <1>1, <1>2 DEF JournalInv

(* A step that moves p and changes neither manifest nor chain. *)
LEMMA MoveStep ==
  ASSUME IInv, NEW p \in Processes, at[p] # "idle",
         NEW place \in Places, Goes(p, place),
         UNCHANGED <<lockVars, mishaps, file, memory, chainVars>>,
         populated' \in [Processes -> 0..MaxNonce],
         PlaceFits(place, file, receipt)
  PROVE  IInv'
<1>1. phase[p] = "in" /\ memory[p] = file
  BY DEF IInv, JournalInv
<1>2. JournalInv'
  BY <1>1, OneWorks DEF IInv, JournalInv, lockVars, chainVars
<1>3. JournalTypeOK'
  BY DEF IInv, TypeOK, JournalTypeOK, Goes
<1>4. LockInv' /\ LockTypeOK'
  BY DEF IInv, TypeOK, LockInv, LockTypeOK, Starting, lockVars
<1>5. ChainTypeOK' /\ ReceiptsSpent' /\ (mishaps \in 0..MaxMishaps)'
  BY DEF IInv, TypeOK, ChainTypeOK, ReceiptsSpent, chainVars
<1> QED BY <1>2, <1>3, <1>4, <1>5 DEF IInv, TypeOK

(* A step that saves an entry of the current step. *)
LEMMA SaveStep ==
  ASSUME IInv, NEW p \in Processes, at[p] # "idle",
         NEW place \in Places, Goes(p, place),
         UNCHANGED <<lockVars, mishaps, populated, chainVars>>,
         NEW entry \in Entry, Save(p, entry),
         ManifestFits(file', sent, receipt), PlaceFits(place, file', receipt)
  PROVE  IInv'
<1>1. /\ phase[p] = "in" /\ memory[p] = file
      /\ memory' = [memory EXCEPT ![p][Current(p)] = entry]
      /\ file' = memory'[p]
  BY DEF IInv, JournalInv, Save
<1>2. JournalInv'
  BY <1>1, OneWorks DEF lockVars, chainVars
<1>3. JournalTypeOK'
  <2>1. /\ memory \in [Processes -> [Steps -> Entry]]
        /\ at' \in [Processes -> Places]
        /\ populated' \in [Processes -> 0..MaxNonce]
    BY DEF IInv, TypeOK, JournalTypeOK, Goes
  <2>2. memory' \in [Processes -> [Steps -> Entry]]
    BY <1>1, <2>1
  <2> QED BY <1>1, <2>1, <2>2 DEF JournalTypeOK
<1>4. LockInv' /\ LockTypeOK'
  BY DEF IInv, TypeOK, LockInv, LockTypeOK, Starting, lockVars
<1>5. ChainTypeOK' /\ ReceiptsSpent' /\ (mishaps \in 0..MaxMishaps)'
  BY DEF IInv, TypeOK, ChainTypeOK, ReceiptsSpent, chainVars
<1> QED BY <1>2, <1>3, <1>4, <1>5 DEF IInv, TypeOK

(* What the current step's entry is, and what saving another does. *)
LEMMA SavedFits ==
  ASSUME NEW f \in [Steps -> Entry], NEW s \in SUBSET Tx, NEW r,
         ManifestFits(f, s, r), PendingIn(f) # {}, NEW k, k = Min(PendingIn(f)),
         NEW entry \in Entry, entry # Unprepared, entry.tx.step = k,
         entry.status = "CONFIRMED" => r[entry.tx] = "SUCCESS",
         f[k] = Unprepared \/ entry.tx = f[k].tx
  PROVE  LET g == [f EXCEPT ![k] = entry]
         IN  /\ ManifestFits(g, s, r)
             /\ entry.status = "PREPARED" => PendingIn(g) = PendingIn(f)
<1> DEFINE g == [f EXCEPT ![k] = entry]
<1>1. k \in Steps /\ f[k].status # "CONFIRMED"
  BY CurrentLeast DEF PendingIn
<1>2. \A j \in 1..(k - 1) : f[j].status = "CONFIRMED"
  <2>1. \A j \in PendingIn(f) : k <= j
    BY CurrentLeast
  <2> QED BY <2>1, <1>1 DEF PendingIn, Steps
<1>3. \A j \in Steps : g[j] = IF j = k THEN entry ELSE f[j]
  BY <1>1
<1> HIDE DEF g
<1>4. ASSUME NEW i \in Steps, g[i] # Unprepared
      PROVE  g[i].tx.step = i /\ \A j \in 1..(i - 1) : g[j].status = "CONFIRMED"
  <2>1. CASE i = k
    BY <2>1, <1>1, <1>2, <1>3 DEF Steps
  <2>2. CASE i # k
    <3>1. f[i].tx.step = i /\ \A j \in 1..(i - 1) : f[j].status = "CONFIRMED"
      BY <2>2, <1>3, <1>4 DEF ManifestFits
    <3>2. k \notin 1..(i - 1)
      BY <3>1, <1>1
    <3> QED BY <2>2, <1>3, <3>1, <3>2 DEF Steps
  <2> QED BY <2>1, <2>2
<1>5. \A i \in Steps : g[i].status = "CONFIRMED" => r[g[i].tx] = "SUCCESS"
  BY <1>3 DEF ManifestFits
<1>6. ASSUME NEW t \in s PROVE g[t.step] # Unprepared /\ g[t.step].tx = t
  <2>1. t.step \in Steps /\ f[t.step] # Unprepared /\ f[t.step].tx = t
    BY DEF ManifestFits, Tx
  <2> QED BY <2>1, <1>3
<1>7. entry.status = "PREPARED" => PendingIn(g) = PendingIn(f)
  BY <1>1, <1>3 DEF PendingIn
<1> QED BY <1>4, <1>5, <1>6, <1>7 DEF ManifestFits, g

(* The entry of the current step while p works on it. *)
LEMMA CurrentEntry ==
  ASSUME IInv, NEW p \in Processes, at[p] # "idle", Pending(p) # {}
  PROVE  /\ memory[p] = file /\ Current(p) = Min(PendingIn(file))
         /\ PendingIn(file) # {} /\ Current(p) \in Steps
         /\ file[Current(p)] \in Entry
         /\ file[Current(p)] # Unprepared =>
              Intent(p) = file[Current(p)].tx /\ Intent(p) \in Tx
                /\ Intent(p).step = Current(p)
<1>1. memory[p] = file /\ Pending(p) = PendingIn(file)
  BY DEF IInv, JournalInv, Pending
<1>2. Current(p) = Min(PendingIn(file)) /\ Current(p) \in Steps
  BY <1>1, CurrentLeast DEF Current, PendingIn
<1>3. file[Current(p)] \in Entry
  BY <1>2 DEF IInv, TypeOK, JournalTypeOK
<1>4. ASSUME file[Current(p)] # Unprepared
      PROVE  Intent(p) \in Tx /\ Intent(p).step = Current(p)
  BY <1>1, <1>2, <1>3, <1>4 DEF Intent, Entry, IInv, JournalInv, ManifestFits
<1> QED BY <1>1, <1>2, <1>3, <1>4 DEF Intent

(* Every stretch of transact() keeps the invariant. *)
LEMMA TransactStep ==
  ASSUME IInv, NEW p \in Processes, Transact(p), UNCHANGED <<lockVars, mishaps>>
  PROVE  IInv'
<1>0. /\ at[p] # "idle" => /\ memory[p] = file /\ Pending(p) = PendingIn(file)
                           /\ PlaceFits(at[p], file, receipt)
      /\ ManifestFits(file, sent, receipt)
      /\ populated \in [Processes -> 0..MaxNonce]
  BY DEF IInv, TypeOK, JournalTypeOK, JournalInv, Pending
<1>1. CASE Populate(p)
  <2>1. PlaceFits("populated", file, receipt)
    BY <1>0, <1>1, CurrentEntry DEF Populate, PlaceFits
  <2>2. populated' \in [Processes -> 0..MaxNonce]
    BY <1>0, <1>1 DEF Populate
  <2> QED BY <1>1, <2>1, <2>2, MoveStep DEF Populate, Places
<1>2. CASE Resume(p)
  <2>1. file[Current(p)].status = "PREPARED" /\ Current(p) = Min(PendingIn(file))
    <3>1. /\ at[p] # "idle" /\ Pending(p) # {} /\ PendingIn(file) # {}
          /\ memory[p][Current(p)] # Unprepared
      BY <1>0, <1>2 DEF Resume
    <3>2. /\ Current(p) = Min(PendingIn(file)) /\ file[Current(p)] \in Entry
          /\ file[Current(p)] # Unprepared
      BY <1>0, <3>1, CurrentEntry
    <3>3. file[Current(p)].status # "CONFIRMED"
      BY <3>1, <3>2, CurrentLeast DEF PendingIn
    <3> QED BY <3>2, <3>3 DEF Entry
  <2>2. PlaceFits("prepared", file, receipt)
    BY <1>0, <1>2, <2>1 DEF Resume, PlaceFits
  <2> QED BY <1>0, <1>2, <2>2, MoveStep DEF Resume, Places
<1>3. CASE Prepare(p)
  <2>1. /\ at[p] = "populated" /\ PendingIn(file) # {} /\ Pending(p) # {}
        /\ Current(p) = Min(PendingIn(file)) /\ Current(p) \in Steps
        /\ file[Current(p)] = Unprepared
    BY <1>0, <1>3, CurrentEntry DEF Prepare, PlaceFits
  <2>2. Prepared(p) \in Entry /\ Prepared(p) # Unprepared
        /\ Prepared(p).status = "PREPARED" /\ Prepared(p).tx.step = Current(p)
    BY <1>0, <2>1 DEF Prepared, Entry, Tx, Unprepared
  <2>3. file' = [file EXCEPT ![Current(p)] = Prepared(p)]
    BY <1>0, <1>3, <2>1 DEF Prepare, Save, IInv, TypeOK, JournalTypeOK
  <2>4. ManifestFits(file', sent, receipt) /\ PendingIn(file') = PendingIn(file)
    BY <1>0, <2>1, <2>2, <2>3, SavedFits DEF IInv, TypeOK, ChainTypeOK, JournalTypeOK
  <2>5. file'[Current(p)] = Prepared(p)
    BY <2>1, <2>3 DEF IInv, TypeOK, JournalTypeOK
  <2>6. PlaceFits("prepared", file', receipt)
    BY <2>1, <2>2, <2>4, <2>5 DEF PlaceFits
  <2> QED BY <1>3, <2>1, <2>2, <2>4, <2>6, SaveStep DEF Prepare, Places
<1>4. CASE CheckReceipt(p)
  <2>1. CASE receipt[Intent(p)] = "SUCCESS"
    <3>1. Goes(p, "confirm") /\ at[p] = "prepared"
      BY <1>4, <2>1 DEF CheckReceipt
    <3>2. PlaceFits("confirm", file, receipt)
      BY <1>0, <2>1, <3>1 DEF PlaceFits, Intent, Current
    <3> QED BY <1>0, <1>4, <3>1, <3>2, MoveStep DEF CheckReceipt, Places
  <2>2. CASE receipt[Intent(p)] = "REVERTED"
    BY <1>0, <1>4, <2>2, MoveStep DEF CheckReceipt, Places, PlaceFits
  <2>3. CASE receipt[Intent(p)] \notin {"SUCCESS", "REVERTED"}
    BY <1>0, <1>4, <2>3, MoveStep DEF CheckReceipt, Places, PlaceFits
  <2> QED BY <2>1, <2>2, <2>3
<1>5. CASE CheckKnown(p)
  BY <1>0, <1>5, MoveStep DEF CheckKnown, Places, PlaceFits
<1>6. CASE Send(p)
  <2>1. CASE ~PoolAccepts(Intent(p))
    BY <1>0, <1>6, <2>1, MoveStep DEF Send, Places, PlaceFits
  <2>2. CASE PoolAccepts(Intent(p))
    <3> DEFINE tx == Intent(p)
    <3>1. /\ at[p] = "send" /\ Goes(p, "waiting")
          /\ UNCHANGED <<file, memory, populated, used, receipt, drops, foreign>>
          /\ pool' = pool \cup {tx} /\ sent' = sent \cup {tx}
      BY <1>6, <2>2 DEF Send, Broadcast
    <3>2. /\ PendingIn(file) # {} /\ Pending(p) # {}
          /\ file[Current(p)] # Unprepared /\ phase[p] = "in"
      BY <1>0, <3>1 DEF PlaceFits, Current, Unprepared, IInv, JournalInv
    <3>3. tx \in Tx /\ tx = file[tx.step].tx /\ file[tx.step] # Unprepared
      BY <3>1, <3>2, CurrentEntry
    <3> HIDE DEF tx
    <3>4. ManifestFits(file, sent', receipt)
      BY <1>0, <3>1, <3>3 DEF ManifestFits
    <3>5. PlaceFits("waiting", file, receipt)
      BY <1>0, <3>1 DEF PlaceFits
    <3>6. JournalInv'
      BY <1>0, <3>1, <3>2, <3>4, <3>5, OneWorks DEF lockVars
    <3>7. ChainTypeOK' /\ ReceiptsSpent' /\ (mishaps \in 0..MaxMishaps)'
      BY <3>1, <3>3 DEF IInv, TypeOK, ChainTypeOK, ReceiptsSpent
    <3>8. JournalTypeOK'
      BY <3>1 DEF IInv, TypeOK, JournalTypeOK, Goes, Places
    <3>9. LockInv' /\ LockTypeOK'
      BY DEF IInv, TypeOK, LockInv, LockTypeOK, Starting, lockVars
    <3> QED BY <3>6, <3>7, <3>8, <3>9 DEF IInv, TypeOK
  <2> QED BY <2>1, <2>2
<1>7. CASE Wait(p)
  <2>1. CASE Goes(p, "done")
    BY <1>0, <1>7, <2>1, MoveStep DEF Wait, Places, PlaceFits
  <2>2. CASE receipt[Intent(p)] = "SUCCESS" /\ Goes(p, "confirm")
    <3>1. PlaceFits("confirm", file, receipt)
      BY <1>0, <1>7, <2>2 DEF Wait, PlaceFits, Intent, Current
    <3> QED BY <1>0, <1>7, <2>2, <3>1, MoveStep DEF Wait, Places
  <2> QED BY <1>7, <2>1, <2>2 DEF Wait
<1>8. CASE Confirm(p)
  <2> DEFINE entry == [file[Current(p)] EXCEPT !.status = "CONFIRMED"]
  <2>1. /\ at[p] = "confirm" /\ PendingIn(file) # {} /\ Pending(p) # {}
        /\ Current(p) = Min(PendingIn(file)) /\ Current(p) \in Steps
        /\ file[Current(p)].status = "PREPARED"
        /\ receipt[file[Current(p)].tx] = "SUCCESS"
    BY <1>0, <1>8, CurrentEntry DEF Confirm, PlaceFits
  <2>2. file[Current(p)] \in [status : {"PREPARED", "CONFIRMED"}, tx : Tx]
    BY <2>1, CurrentEntry DEF Entry, Unprepared
  <2>3. /\ entry \in Entry /\ entry # Unprepared /\ entry.status = "CONFIRMED"
        /\ entry.tx = file[Current(p)].tx
    BY <2>2 DEF Entry, Unprepared
  <2>4. entry.tx.step = Current(p)
    BY <1>0, <2>1, <2>3 DEF ManifestFits, Unprepared
  <2>5. Save(p, entry)
    BY <1>0, <1>8, <2>1 DEF Confirm
  <2> HIDE DEF entry
  <2>6. file' = [file EXCEPT ![Current(p)] = entry]
    BY <1>0, <2>1, <2>5 DEF Save, IInv, TypeOK, JournalTypeOK
  <2>7. ManifestFits(file', sent, receipt)
    BY <1>0, <2>1, <2>3, <2>4, <2>6, SavedFits DEF IInv, TypeOK, ChainTypeOK, JournalTypeOK
  <2>8. PlaceFits("next", file', receipt)
    BY DEF PlaceFits
  <2> QED BY <1>8, <2>1, <2>3, <2>5, <2>7, <2>8, SaveStep DEF Confirm, Places
<1>9. CASE Finish(p)
  BY <1>0, <1>9, MoveStep DEF Finish, Places, PlaceFits
<1> QED BY <1>1, <1>2, <1>3, <1>4, <1>5, <1>6, <1>7, <1>8, <1>9 DEF Transact

-----------------------------------------------------------------------------
(* The other steps of a run. *)

(* The process that is in reads the manifest. *)
LEMMA StartLoad ==
  ASSUME IInv, NEW p \in Processes, phase[p] = "in", Load(p),
         UNCHANGED <<lockVars, mishaps>>
  PROVE  IInv'
<1>1. /\ memory' = [memory EXCEPT ![p] = file] /\ Goes(p, "next")
      /\ UNCHANGED <<file, populated, chainVars>>
  BY DEF Load
<1>2. JournalTypeOK' /\ memory'[p] = file'
  BY <1>1 DEF IInv, TypeOK, JournalTypeOK, Goes, Places
<1>3. ManifestFits(file', sent', receipt') /\ PlaceFits("next", file', receipt')
  BY <1>1 DEF IInv, JournalInv, chainVars, PlaceFits
<1>4. JournalInv'
  BY <1>1, <1>2, <1>3, OneWorks DEF lockVars
<1>5. LockInv' /\ LockTypeOK'
  BY DEF IInv, TypeOK, LockInv, LockTypeOK, Starting, lockVars
<1>6. ChainTypeOK' /\ ReceiptsSpent' /\ (mishaps \in 0..MaxMishaps)'
  BY <1>1 DEF IInv, TypeOK, ChainTypeOK, ReceiptsSpent, chainVars
<1> QED BY <1>2, <1>4, <1>5, <1>6 DEF IInv, TypeOK

LEMMA LockingStep ==
  ASSUME IInv, ~ConcurrentStarts, NEW p \in Processes, Locking(p)
  PROVE  IInv'
<1>1. Lock(p) /\ UNCHANGED <<chainVars, journalVars, mishaps>>
  BY DEF Locking
<1>2. LockInv'
  BY <1>1, LockStep DEF IInv
<1>3. phase[p] # "in" /\ \A q \in Processes : q # p => phase'[q] = phase[q]
  BY <1>1 DEF Lock, Look, ReadOwner, Probe, Remove, Create, Fill, Enters, Ends,
              IInv, LockInv, LockTypeOK
<1>4. JournalInv'
  BY <1>1, <1>3 DEF IInv, JournalInv, journalVars, chainVars
<1>5. ChainTypeOK' /\ ReceiptsSpent' /\ JournalTypeOK' /\ (mishaps \in 0..MaxMishaps)'
  BY <1>1 DEF IInv, TypeOK, ChainTypeOK, ReceiptsSpent, JournalTypeOK, journalVars, chainVars
<1> QED BY <1>2, <1>4, <1>5 DEF IInv, TypeOK, LockInv

(* A process that ends in order or is killed. *)
LEMMA LeaveStep ==
  ASSUME IInv, NEW p \in Processes, phase[p] # "out",
         Unlock(p) \/ Killed(p), Forget(p), UNCHANGED chainVars,
         mishaps' \in 0..MaxMishaps
  PROVE  IInv'
<1>1. LockInv'
  <2>1. CASE Unlock(p)
    BY <2>1, EndStep DEF Unlock, IInv
  <2>2. CASE Killed(p)
    BY <2>2, EndStep DEF Killed, IInv
  <2> QED BY <2>1, <2>2
<1>2. \A q \in Processes : q # p => phase'[q] = phase[q]
  BY DEF Unlock, Killed, Ends, Enters, IInv, LockInv, LockTypeOK
<1>3. JournalTypeOK'
  <2>1. Blank \in [Steps -> Entry] /\ "idle" \in Places /\ 0 \in 0..MaxNonce
    BY DEF Blank, Entry, Places
  <2> QED BY <2>1 DEF Forget, Goes, IInv, TypeOK, JournalTypeOK
<1>4. \A q \in Processes :
        at'[q] # "idle" => q # p /\ at'[q] = at[q] /\ memory'[q] = memory[q]
  BY DEF Forget, Goes, IInv, TypeOK, JournalTypeOK
<1>5. JournalInv'
  BY <1>2, <1>4 DEF Forget, IInv, JournalInv, chainVars
<1>6. ChainTypeOK' /\ ReceiptsSpent'
  BY DEF IInv, TypeOK, ChainTypeOK, ReceiptsSpent, chainVars
<1> QED BY <1>1, <1>3, <1>5, <1>6 DEF IInv, TypeOK, LockInv

LEMMA FailStep ==
  ASSUME IInv, NEW p \in Processes, Failing(p)
  PROVE  IInv'
<1>1. /\ at[p] # "idle" /\ Goes(p, "done") /\ mishaps' \in 0..MaxMishaps
      /\ UNCHANGED <<lockVars, file, memory, populated, chainVars>>
  BY DEF Failing, Throw, IInv, TypeOK
<1>2. phase[p] = "in" /\ memory[p] = file
  BY <1>1 DEF IInv, JournalInv
<1>3. PlaceFits("done", file', receipt')
  BY DEF PlaceFits
<1>4. JournalInv'
  BY <1>1, <1>2, <1>3, OneWorks DEF IInv, JournalInv, lockVars, chainVars
<1>5. JournalTypeOK'
  BY <1>1 DEF IInv, TypeOK, JournalTypeOK, Goes, Places
<1>6. LockInv' /\ LockTypeOK'
  BY <1>1 DEF IInv, TypeOK, LockInv, LockTypeOK, Starting, lockVars
<1>7. ChainTypeOK' /\ ReceiptsSpent'
  BY <1>1 DEF IInv, TypeOK, ChainTypeOK, ReceiptsSpent, chainVars
<1> QED BY <1>1, <1>4, <1>5, <1>6, <1>7 DEF IInv, TypeOK

(* A mined transaction had no receipt: its nonce was the next one. *)
LEMMA MineStep ==
  ASSUME IInv, NEW t \in pool, NEW outcome \in {"SUCCESS", "REVERTED"},
         Mine(t, outcome), UNCHANGED <<file, at, memory, phase>>
  PROVE  ChainTypeOK' /\ ReceiptsSpent' /\ JournalInv'
<1>1. /\ t \in Tx /\ t \in sent /\ t.nonce = used /\ t.nonce \in 0..MaxNonce
      /\ receipt[t] = "NONE"
  BY DEF IInv, TypeOK, ChainTypeOK, ReceiptsSpent, Mine, Tx
<1>2. /\ receipt' = [receipt EXCEPT ![t] = outcome] /\ used' = used + 1
      /\ pool' = pool \ {t} /\ UNCHANGED <<sent, drops, foreign>>
  BY DEF Mine
<1>3. ChainTypeOK'
  BY <1>1, <1>2 DEF IInv, TypeOK, ChainTypeOK
<1>4. \A u \in Tx : receipt'[u] = IF u = t THEN outcome ELSE receipt[u]
  BY <1>1, <1>2 DEF IInv, TypeOK, ChainTypeOK
<1>5. ReceiptsSpent'
  BY <1>1, <1>2, <1>4 DEF IInv, TypeOK, ChainTypeOK, ReceiptsSpent, Tx
<1>6. \A u : receipt[u] = "SUCCESS" => receipt'[u] = "SUCCESS"
  BY <1>1, <1>2 DEF IInv, TypeOK, ChainTypeOK
<1>7. JournalInv'
  BY <1>2, <1>6 DEF IInv, JournalInv, ManifestFits, PlaceFits
<1> QED BY <1>3, <1>5, <1>7

LEMMA ChainStep == IInv /\ Chain => IInv'
<1> SUFFICES ASSUME IInv, Chain PROVE IInv'
  OBVIOUS
<1>1. ChainNext /\ UNCHANGED <<lockVars, journalVars, mishaps>>
  BY DEF Chain
<1>2. LockInv' /\ LockTypeOK' /\ JournalTypeOK' /\ (mishaps \in 0..MaxMishaps)'
  BY <1>1 DEF IInv, TypeOK, LockInv, LockTypeOK, Starting, JournalTypeOK,
              lockVars, journalVars
<1>3. UNCHANGED <<file, at, memory, phase>>
  BY <1>1 DEF lockVars, journalVars
<1>4. ASSUME UNCHANGED <<receipt, sent>>, used' >= used, pool' \subseteq pool,
             used' \in 0..(MaxNonce + 1), drops' \in 0..MaxDrops,
             foreign' \in 0..MaxForeign
      PROVE  ChainTypeOK' /\ ReceiptsSpent' /\ JournalInv'
  <2>1. JournalInv'
    BY <1>3, <1>4 DEF IInv, JournalInv
  <2>2. ChainTypeOK' /\ ReceiptsSpent'
    BY <1>4 DEF IInv, TypeOK, ChainTypeOK, ReceiptsSpent, Tx
  <2> QED BY <2>1, <2>2
<1>5. ChainTypeOK' /\ ReceiptsSpent' /\ JournalInv'
  <2>1. CASE MineSome
    BY <2>1, <1>3, MineStep DEF MineSome
  <2>2. ASSUME NEW t \in pool, Drop(t) PROVE ChainTypeOK' /\ ReceiptsSpent' /\ JournalInv'
    BY <2>2, <1>4 DEF Drop, IInv, TypeOK, ChainTypeOK
  <2>3. CASE Foreign
    BY <2>3, <1>4 DEF Foreign, IInv, TypeOK, ChainTypeOK
  <2> QED BY <1>1, <2>1, <2>2, <2>3 DEF ChainNext
<1> QED BY <1>2, <1>5 DEF IInv, TypeOK

-----------------------------------------------------------------------------
(* The invariant. *)
LEMMA Start == Init => IInv
<1> SUFFICES ASSUME Init PROVE IInv
  OBVIOUS
<1>1. ChainTypeOK /\ ReceiptsSpent
  BY DEF Init, ChainInit, ChainTypeOK, ReceiptsSpent
<1>2. LockInv
  BY LockStart DEF Init
<1>3. JournalTypeOK
  BY DEF Init, JournalInit, JournalTypeOK, Blank, Entry, Places
<1>4. JournalInv
  BY DEF Init, ChainInit, JournalInit, JournalInv, ManifestFits, Blank, Unprepared
<1> QED BY <1>1, <1>2, <1>3, <1>4 DEF IInv, TypeOK, LockInv, Init

LEMMA Step ==
  ASSUME ~ConcurrentStarts
  PROVE  IInv /\ [Next]_vars => IInv'
<1> SUFFICES ASSUME IInv, [Next]_vars PROVE IInv'
  OBVIOUS
<1>1. ASSUME NEW p \in Processes, Process(p) PROVE IInv'
  <2>1. CASE Locking(p)
    BY <2>1, LockingStep
  <2>2. CASE Working(p)
    BY <2>2, StartLoad, TransactStep DEF Working
  <2>3. CASE Leaving(p)
    BY <2>3, LeaveStep DEF Leaving, Unlock, IInv, TypeOK
  <2> QED BY <1>1, <2>1, <2>2, <2>3 DEF Process
<1>2. ASSUME NEW p \in Processes, Failing(p) PROVE IInv'
  BY <1>2, FailStep
<1>3. ASSUME NEW p \in Processes, Dying(p) PROVE IInv'
  BY <1>3, LeaveStep DEF Dying, Killed, IInv, TypeOK
<1>4. CASE Chain
  BY <1>4, ChainStep
<1>5. CASE UNCHANGED vars
  BY <1>5 DEF vars, chainVars, lockVars, journalVars, IInv, TypeOK, ChainTypeOK,
    LockTypeOK, JournalTypeOK, LockInv, Starting, ReceiptsSpent, JournalInv
<1> QED BY <1>1, <1>2, <1>3, <1>4, <1>5 DEF Next

THEOREM Invariance ==
  ASSUME ~ConcurrentStarts
  PROVE  Spec => []IInv
BY Start, Step, PTL DEF Spec

(* The chain, the lock, the manifest and every process keep their types. *)
THEOREM TypeCorrect ==
  ASSUME ~ConcurrentStarts
  PROVE  Spec => []TypeOK
<1>1. IInv => TypeOK
  BY DEF IInv
<1> QED BY <1>1, Invariance, PTL

(* lock() lets one process in at a time, however many are started, fail and *)
(* are killed, if no two are inside lock() at once.                         *)
THEOREM OneAtATime ==
  ASSUME ~ConcurrentStarts
  PROVE  Spec => []OneProcess
<1>1. IInv => OneProcess
  <2> SUFFICES ASSUME IInv PROVE OneProcess
    OBVIOUS
  <2> DEFINE S == {p \in Processes : phase[p] = "in"}
  <2>1. \A p, q \in S : p = q
    BY DEF IInv, LockInv
  <2>2. CASE S = {}
    BY <2>2, FS_EmptySet DEF OneProcess
  <2>3. CASE S # {}
    <3>1. PICK p \in S : TRUE
      BY <2>3
    <3>2. S = {p}
      BY <2>1, <3>1
    <3>3. Cardinality({p}) = 1
      BY FS_Singleton
    <3> QED BY <3>2, <3>3 DEF OneProcess
  <2> QED BY <2>2, <2>3
<1> QED BY <1>1, Invariance, PTL

(* At most one transaction is broadcast for a step, however often the run is *)
(* interrupted and repeated (transact in src/phase2-journal.js).             *)
THEOREM OneTransaction ==
  ASSUME ~ConcurrentStarts
  PROVE  Spec => []AtMostOneTransaction
<1>1. IInv => AtMostOneTransaction
  BY DEF IInv, JournalInv, ManifestFits, AtMostOneTransaction
<1> QED BY <1>1, Invariance, PTL

(* The intent of every broadcast transaction is on disk. *)
THEOREM IntentDurable ==
  ASSUME ~ConcurrentStarts
  PROVE  Spec => []IntentBeforeBroadcast
<1>1. IInv => IntentBeforeBroadcast
  BY DEF IInv, JournalInv, ManifestFits, IntentBeforeBroadcast
<1> QED BY <1>1, Invariance, PTL

(* A step is broadcast after every earlier one has succeeded. *)
THEOREM InOrder ==
  ASSUME ~ConcurrentStarts
  PROVE  Spec => []StepsInOrder
<1>1. ASSUME IInv, NEW t \in sent, NEW k \in 1..(t.step - 1)
      PROVE  \E u \in sent : u.step = k /\ receipt[u] = "SUCCESS"
  <2>1. t.step \in Steps /\ k \in Steps
    BY <1>1 DEF IInv, TypeOK, ChainTypeOK, Tx, Steps
  <2>2. file[k].status = "CONFIRMED" /\ receipt[file[k].tx] = "SUCCESS"
    BY <1>1, <2>1 DEF IInv, JournalInv, ManifestFits
  <2>3. file[k] # Unprepared /\ file[k].tx \in Tx /\ file[k].tx.step = k
    BY <1>1, <2>1, <2>2 DEF IInv, TypeOK, JournalTypeOK, Entry, Unprepared,
                            JournalInv, ManifestFits
  <2>4. file[k].tx \in sent
    BY <1>1, <2>2, <2>3 DEF IInv, ReceiptsSpent
  <2> QED BY <2>2, <2>3, <2>4
<1>2. IInv => StepsInOrder
  BY <1>1 DEF StepsInOrder
<1> QED BY <1>2, Invariance, PTL

(* No step takes back what the journal has confirmed: save() writes the      *)
(* whole manifest, and only a process that read the last one gets to save.   *)
LEMMA KeepsConfirmed ==
  ASSUME IInv, [Next]_vars, NEW k \in Steps, file[k].status = "CONFIRMED"
  PROVE  file'[k] = file[k]
<1>1. CASE file' = file
  BY <1>1
<1>2. ASSUME NEW p \in Processes, at[p] # "idle", NEW entry, Save(p, entry),
             Pending(p) # {}
      PROVE  file'[k] = file[k]
  <2>1. /\ memory[p] = file /\ Current(p) \in PendingIn(file)
        /\ memory \in [Processes -> [Steps -> Entry]]
    BY <1>2, CurrentLeast DEF IInv, TypeOK, JournalTypeOK, JournalInv, Pending, Current
  <2>2. k # Current(p)
    BY <2>1 DEF PendingIn
  <2> QED BY <1>2, <2>1, <2>2 DEF Save
<1>3. ASSUME NEW p \in Processes, Prepare(p) \/ Confirm(p) PROVE file'[k] = file[k]
  <2>1. at[p] # "idle" /\ Pending(p) # {}
    BY <1>3 DEF Prepare, Confirm, IInv, JournalInv, PlaceFits, Pending
  <2> QED BY <1>2, <1>3, <2>1 DEF Prepare, Confirm
<1>4. ASSUME NEW p \in Processes, Transact(p) PROVE file' = file \/ Prepare(p) \/ Confirm(p)
  BY <1>4 DEF Transact, Populate, Resume, CheckReceipt, CheckKnown, Send, Wait, Finish
<1>5. file' = file \/ \E p \in Processes : Prepare(p) \/ Confirm(p)
  BY <1>4 DEF Next, vars, journalVars, Process, Locking, Working, Leaving, Failing,
              Dying, Load, Forget, Throw, Chain
<1> QED BY <1>1, <1>3, <1>5

THEOREM ConfirmedStays ==
  ASSUME ~ConcurrentStarts
  PROVE  Spec => ConfirmedIsFinal
<1>1. IInv /\ [Next]_vars =>
        [\A k \in Steps : file[k].status = "CONFIRMED" => file'[k] = file[k]]_vars
  BY KeepsConfirmed
<1> QED BY <1>1, Invariance, PTL DEF Spec, ConfirmedIsFinal
=============================================================================
