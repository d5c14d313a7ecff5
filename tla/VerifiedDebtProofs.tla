------------------------- MODULE VerifiedDebtProofs -------------------------
(***************************************************************************)
(* Proofs about the v1 pipeline, for every value of the constants.         *)
(***************************************************************************)
EXTENDS VerifiedDebtProps, DataLemmas

(* The loop over a receipt's logs runs turn by turn: its recursive           *)
(* definition has a solution, built one index at a time.                     *)
LEMMA AdmissionTurns ==
  ASSUME NEW m, NEW tx, Len(tx.logs) \in Nat
  PROVE  Admission(m, tx) =
           [i \in 0..Len(tx.logs) |->
              IF i = 0 THEN [ok |-> TRUE, mirror |-> m, count |-> 0]
                       ELSE AdmitLog(Admission(m, tx)[i - 1], tx, i)]
<1> DEFINE n == Len(tx.logs)
           a == [ok |-> TRUE, mirror |-> m, count |-> 0]
           Solves(h, k) == h = [i \in 0..k |-> IF i = 0 THEN a
                                      ELSE AdmitLog(h[i - 1], tx, i)]
           T == {k \in 0..n : \E h : Solves(h, k)}
<1> HIDE DEF a
<1>1. 0 \in T
  <2> DEFINE h == [i \in 0..0 |-> a]
  <2>1. Solves(h, 0)
    OBVIOUS
  <2> HIDE DEF h, Solves
  <2> QED BY <2>1
<1>2. ASSUME NEW k \in 1..n, k - 1 \in T PROVE k \in T
  <2>1. PICK g : Solves(g, k - 1)
    BY <1>2
  <2> DEFINE h == [i \in 0..k |-> IF i = k THEN AdmitLog(g[k - 1], tx, k) ELSE g[i]]
  <2>2. ASSUME NEW i \in 0..k
        PROVE  h[i] = IF i = 0 THEN a ELSE AdmitLog(h[i - 1], tx, i)
    <3>1. CASE i = k
      BY <3>1
    <3>2. CASE i # k
      <4>1. i \in 0..(k - 1) /\ (i # 0 => i - 1 \in 0..(k - 1) /\ i - 1 # k)
        BY <3>2
      <4>2. g[i] = IF i = 0 THEN a ELSE AdmitLog(g[i - 1], tx, i)
        BY <2>1, <4>1
      <4> QED BY <4>1, <4>2, <3>2
    <3> QED BY <3>1, <3>2
  <2>3. Solves(h, k)
    BY <2>2
  <2> HIDE DEF h, Solves
  <2> QED BY <2>3
<1>3. n \in T
  <2>1. n \in Nat
    OBVIOUS
  <2> HIDE DEF T, n
  <2> QED BY <2>1, <1>1, <1>2, IndexInduction
<1>4. PICK h : Solves(h, n)
  BY <1>3
<1> DEFINE g == Admission(m, tx)
<1>5. g = CHOOSE h1 : Solves(h1, n)
  BY DEF Admission, a
<1> HIDE DEF g
<1>6. Solves(g, n)
  BY <1>4, <1>5
<1> QED BY <1>6 DEF g, a

-----------------------------------------------------------------------------
(* Steps of the source chain. *)

(* Appending a debt log keeps every earlier log genuine. *)
LEMMA GenuineAfterEmit ==
  ASSUME LoanTypeOK, HistoryInv, NEW e \in DebtLog, Emit(e)
  PROVE  /\ \A j \in 1..Len(txLogs') : Genuine(txLogs'[j], emitted')
         /\ \A i \in 1..Len(receipts') : \A j \in 1..Len(receipts'[i].logs) :
              Genuine(receipts'[i].logs[j], emitted')
<1>1. emitted \in Seq(DebtLog) /\ txLogs \in Seq(DebtLog \cup {ForeignLog})
  BY DEF LoanTypeOK
<1>2. /\ Len(emitted') = Len(emitted) + 1 /\ Len(emitted) \in Nat
      /\ \A s \in 1..Len(emitted) : emitted'[s] = emitted[s]
      /\ emitted'[Len(emitted')] = e
  BY <1>1 DEF Emit
<1>3. ASSUME NEW log, Genuine(log, emitted) PROVE Genuine(log, emitted')
  BY <1>2, <1>3 DEF Genuine
<1>4. ASSUME NEW j \in 1..Len(txLogs') PROVE Genuine(txLogs'[j], emitted')
  <2>1. CASE j \in 1..Len(txLogs)
    <3>1. txLogs'[j] = txLogs[j]
      BY <1>1, <2>1 DEF Emit
    <3> QED BY <2>1, <3>1, <1>3 DEF HistoryInv
  <2>2. CASE j \notin 1..Len(txLogs)
    <3>1. txLogs'[j] = e
      BY <1>1, <2>2 DEF Emit
    <3>2. Len(emitted') \in 1..Len(emitted')
      BY <1>2
    <3> QED BY <3>1, <3>2, <1>2 DEF Genuine
  <2> QED BY <2>1, <2>2
<1>5. receipts' = receipts
  BY DEF Emit
<1>6. ASSUME NEW i \in 1..Len(receipts'), NEW j \in 1..Len(receipts'[i].logs)
      PROVE  Genuine(receipts'[i].logs[j], emitted')
  BY <1>3, <1>5 DEF HistoryInv
<1> QED BY <1>4, <1>6

(* Emitting keeps the types of the chain's history. *)
LEMMA TypesAfterEmit ==
  ASSUME LoanTypeOK, NEW e \in DebtLog, Emit(e)
  PROVE  /\ emitted' \in Seq(DebtLog)
         /\ head' \in [block : Nat, tx : Nat]
         /\ txLogs' \in Seq(DebtLog \cup {ForeignLog})
         /\ receipts' \in Seq(Receipt)
<1> USE DEF LoanTypeOK, Emit
<1>1. emitted' \in Seq(DebtLog)
  OBVIOUS
<1>2. txLogs' \in Seq(DebtLog \cup {ForeignLog})
  OBVIOUS
<1> QED BY <1>1, <1>2

(* A mirror that agrees with the history still does when the history grows. *)
LEMMA MirrorAfterEmit ==
  ASSUME LoanTypeOK, NEW e \in DebtLog, Emit(e), NEW m, MirrorOK(m, emitted)
  PROVE  MirrorOK(m, emitted')
<1>1. emitted \in Seq(DebtLog) /\ emitted' = Append(emitted, e)
  BY DEF LoanTypeOK, Emit
<1>2. /\ Len(emitted') = Len(emitted) + 1 /\ Len(emitted) \in Nat
      /\ \A s \in 1..Len(emitted) : emitted'[s] = emitted[s]
  BY <1>1
<1>3. m \in Mirror
  BY DEF MirrorOK
<1>4. CASE m.initialized
  BY <1>2, <1>3, <1>4 DEF MirrorOK
<1>5. CASE ~m.initialized
  BY <1>3, <1>5 DEF MirrorOK
<1> QED BY <1>4, <1>5

LEMMA OpenDebtStep ==
  ASSUME CoreInv, NEW principal \in Uint, OpenDebt(principal), UNCHANGED gateVars
  PROVE  CoreInv'
<1> DEFINE e == [type |-> "DebtOpened", sequence |-> 1, amount |-> principal,
                 cumulativeRepaid |-> 0, outstanding |-> principal,
                 timestamp |-> head.block]
<1>1. /\ LoanTypeOK /\ HistoryInv /\ emitted = <<>>
      /\ head \in [block : Nat, tx : Nat] /\ Emit(e)
  BY DEF CoreInv, OpenDebt, HistoryInv, LoanTypeOK
<1>2. e \in DebtLog
  BY <1>1, MaxUintAssumption DEF DebtLog, Uint
<1>3. emitted' = <<e>>
  BY <1>1 DEF Emit
<1>4. loan' = [opened |-> TRUE, principalOpened |-> principal, totalRepaid |-> 0,
               outstanding |-> principal, sequence |-> 1]
  BY DEF OpenDebt
<1> HIDE DEF e
<1>5. LoanTypeOK'
  BY <1>1, <1>2, <1>4, TypesAfterEmit, MaxUintAssumption DEF LoanTypeOK, Uint
<1>6. HistoryInv'
  <2>1. Len(emitted') = 1 /\ emitted'[1] = e
    BY <1>3
  <2>2. \A s \in 1..Len(emitted') : s = 1
    BY <2>1
  <2>3. /\ e.sequence = 1 /\ e.type = "DebtOpened" /\ e.amount = principal
        /\ e.cumulativeRepaid = 0 /\ e.outstanding = principal
    BY DEF e
  <2>4. emitted' # <<>> /\ principal \in Nat
    BY <1>3, MaxUintAssumption DEF Uint
  <2>5. /\ \A j \in 1..Len(txLogs') : Genuine(txLogs'[j], emitted')
        /\ \A i \in 1..Len(receipts') : \A j \in 1..Len(receipts'[i].logs) :
             Genuine(receipts'[i].logs[j], emitted')
    BY <1>1, <1>2, GenuineAfterEmit
  <2> QED BY <1>4, <2>1, <2>2, <2>3, <2>4, <2>5 DEF HistoryInv
<1>7. MirrorOK(mirror', emitted')
  BY <1>1, <1>2, MirrorAfterEmit DEF CoreInv, gateVars
<1> QED BY <1>5, <1>6, <1>7 DEF CoreInv, gateVars, GateTypeOK, UtilizationFits, Utilization

LEMMA RepayDebtStep ==
  ASSUME CoreInv, NEW amount \in Uint, RepayDebt(amount), UNCHANGED gateVars
  PROVE  CoreInv'
<1> DEFINE repaid == loan.totalRepaid + amount
           owed == loan.principalOpened - repaid
           n == loan.sequence + 1
           e == [type |-> "DebtRepaid", sequence |-> n, amount |-> amount,
                 cumulativeRepaid |-> repaid, outstanding |-> owed,
                 timestamp |-> head.block]
<1>1. /\ LoanTypeOK /\ HistoryInv /\ loan.opened /\ amount # 0
      /\ amount <= loan.outstanding /\ Emit(e)
      /\ loan' = [loan EXCEPT !.totalRepaid = repaid, !.outstanding = owed,
                              !.sequence = @ + 1]
  BY DEF CoreInv, RepayDebt
<1>2. /\ loan.totalRepaid \in Nat /\ loan.outstanding \in Nat
      /\ loan.principalOpened \in Nat /\ loan.principalOpened <= MaxUint
      /\ loan.sequence \in Nat /\ amount \in Nat /\ head.block \in Nat
      /\ loan.totalRepaid + loan.outstanding = loan.principalOpened
  BY <1>1, MaxUintAssumption DEF LoanTypeOK, HistoryInv, Uint
<1>3. /\ repaid \in Uint /\ owed \in Uint /\ owed = loan.outstanding - amount
      /\ n \in Nat /\ amount \in Uint
  BY <1>1, <1>2, MaxUintAssumption DEF Uint
<1>4. e \in DebtLog
  BY <1>2, <1>3 DEF DebtLog
<1>5. /\ e.sequence = n /\ e.type = "DebtRepaid"
      /\ e.cumulativeRepaid = repaid /\ e.outstanding = owed
  OBVIOUS
<1>6. /\ loan'.opened /\ loan'.principalOpened = loan.principalOpened
      /\ loan'.totalRepaid = repaid /\ loan'.outstanding = owed
      /\ loan'.sequence = n
      /\ loan' \in [opened : BOOLEAN, principalOpened : Uint, totalRepaid : Uint,
                    outstanding : Uint, sequence : Nat]
  BY <1>1, <1>3 DEF LoanTypeOK
<1>7. /\ Len(emitted') = n /\ Len(emitted) = loan.sequence /\ emitted # <<>>
      /\ \A s \in 1..Len(emitted) : emitted'[s] = emitted[s]
      /\ emitted'[n] = e /\ Len(emitted) \in Nat
  BY <1>1 DEF Emit, HistoryInv, LoanTypeOK
<1>8. LoanTypeOK'
  BY <1>1, <1>4, <1>6, TypesAfterEmit DEF LoanTypeOK
<1>9. /\ \A j \in 1..Len(txLogs') : Genuine(txLogs'[j], emitted')
      /\ \A i \in 1..Len(receipts') : \A j \in 1..Len(receipts'[i].logs) :
           Genuine(receipts'[i].logs[j], emitted')
  BY <1>1, <1>4, GenuineAfterEmit
<1>10. n # 1 /\ 1 \in 1..Len(emitted) /\ emitted'[1].amount = loan.principalOpened
  <2>1. Len(emitted) # 0
    BY <1>1, <1>7 DEF LoanTypeOK
  <2>2. 1 \in 1..Len(emitted) /\ n # 1
    BY <2>1, <1>7, <1>2
  <2> HIDE DEF n, e
  <2> QED BY <1>1, <1>7, <2>2 DEF HistoryInv
<1>11. ASSUME NEW s \in 1..Len(emitted')
       PROVE  /\ emitted'[s].sequence = s
              /\ emitted'[s].type = IF s = 1 THEN "DebtOpened" ELSE "DebtRepaid"
              /\ s = 1 => emitted'[s].cumulativeRepaid = 0
              /\ emitted'[s].outstanding
                   = emitted'[1].amount - emitted'[s].cumulativeRepaid
              /\ emitted'[s].outstanding >= loan'.outstanding
  <2>1. CASE s = n
    BY <1>2, <1>3, <1>5, <1>6, <1>7, <1>10, <2>1
  <2>2. CASE s # n
    <3>1. s \in 1..Len(emitted) /\ emitted'[s] = emitted[s]
      BY <1>7, <2>2
    <3>2. /\ emitted[s].sequence = s
          /\ emitted[s].type = IF s = 1 THEN "DebtOpened" ELSE "DebtRepaid"
          /\ s = 1 => emitted[s].cumulativeRepaid = 0
          /\ emitted[s].outstanding = emitted[1].amount - emitted[s].cumulativeRepaid
          /\ emitted[s].outstanding >= loan.outstanding
      BY <1>1, <3>1 DEF HistoryInv
    <3>3. emitted[s] \in DebtLog
      BY <1>1, <3>1 DEF LoanTypeOK
    <3>4. emitted[s].outstanding \in Nat /\ emitted'[1] = emitted[1]
      BY <1>7, <1>10, <3>3, MaxUintAssumption DEF DebtLog, Uint
    <3> QED BY <1>2, <1>3, <1>6, <3>1, <3>2, <3>4
  <2> QED BY <2>1, <2>2
<1> HIDE DEF e, repaid, owed, n
<1>12. HistoryInv'
  <2>1. loan'.totalRepaid + loan'.outstanding = loan'.principalOpened
    BY <1>2, <1>3, <1>6 DEF repaid, owed
  <2>2. emitted' # <<>>
    <3>1. Len(emitted') # 0
      BY <1>2, <1>7 DEF n
    <3> QED BY <3>1
  <2> QED BY <1>6, <1>7, <1>9, <1>10, <1>11, <2>1, <2>2 DEF HistoryInv
<1>13. MirrorOK(mirror', emitted')
  BY <1>1, <1>4, MirrorAfterEmit DEF CoreInv, gateVars
<1> QED BY <1>8, <1>12, <1>13 DEF CoreInv, gateVars, GateTypeOK, UtilizationFits, Utilization

(* The other steps of the chain only move logs. *)
LEMMA ChainStep ==
  ASSUME CoreInv, UNCHANGED gateVars,
         EmitForeignLog \/ EndTransaction \/ RevertedTransaction \/ MineBlock
  PROVE  CoreInv'
<1> USE DEF LoanTypeOK
<1>1. LoanTypeOK /\ HistoryInv /\ loan' = loan /\ emitted' = emitted
  BY DEF CoreInv, EmitForeignLog, EndTransaction, RevertedTransaction, Finish, MineBlock
<1>2. CASE EmitForeignLog
  <2>1. LoanTypeOK'
    BY <1>1, <1>2 DEF EmitForeignLog
  <2>2. \A j \in 1..Len(txLogs') : Genuine(txLogs'[j], emitted')
    <3>1. SUFFICES ASSUME NEW j \in 1..Len(txLogs'), txLogs'[j] # ForeignLog
                   PROVE  Genuine(txLogs'[j], emitted')
      BY DEF Genuine
    <3>2. j \in 1..Len(txLogs) /\ txLogs'[j] = txLogs[j]
      BY <1>1, <1>2, <3>1 DEF EmitForeignLog
    <3> QED BY <1>1, <3>2 DEF HistoryInv
  <2>3. HistoryInv'
    BY <1>1, <1>2, <2>2 DEF EmitForeignLog, HistoryInv
  <2> QED BY <1>1, <2>1, <2>3 DEF CoreInv, gateVars, GateTypeOK, UtilizationFits, Utilization
<1>3. ASSUME NEW status \in {0, 1}, Finish(status) PROVE CoreInv'
  <2> DEFINE r == [block |-> head.block, tx |-> head.tx, status |-> status,
                   logs |-> txLogs]
  <2>1. r \in Receipt
    BY <1>1 DEF Receipt
  <2>2. LoanTypeOK'
    BY <1>1, <1>3, <2>1 DEF Finish
  <2>3. /\ Len(receipts') = Len(receipts) + 1 /\ Len(receipts) \in Nat
        /\ receipts'[Len(receipts')] = r
        /\ \A i \in 1..Len(receipts) : receipts'[i] = receipts[i]
    BY <1>1, <1>3 DEF Finish
  <2>4. \A i \in 1..Len(receipts') : \A j \in 1..Len(receipts'[i].logs) :
          Genuine(receipts'[i].logs[j], emitted')
    <3>1. SUFFICES ASSUME NEW i \in 1..Len(receipts'),
                          NEW j \in 1..Len(receipts'[i].logs)
                   PROVE  Genuine(receipts'[i].logs[j], emitted')
      OBVIOUS
    <3>2. CASE i \in 1..Len(receipts)
      BY <1>1, <2>3, <3>2 DEF HistoryInv
    <3>3. CASE i \notin 1..Len(receipts)
      <4>1. receipts'[i] = r
        BY <2>3, <3>3
      <4> QED BY <1>1, <4>1 DEF HistoryInv
    <3> QED BY <3>2, <3>3
  <2>5. HistoryInv'
    BY <1>1, <1>3, <2>4 DEF Finish, HistoryInv
  <2> QED BY <1>1, <2>2, <2>5 DEF CoreInv, gateVars, GateTypeOK, UtilizationFits, Utilization
<1>4. CASE MineBlock
  <2>1. LoanTypeOK'
    BY <1>1, <1>4 DEF MineBlock
  <2>2. HistoryInv'
    BY <1>1, <1>4 DEF MineBlock, HistoryInv
  <2> QED BY <1>1, <2>1, <2>2 DEF CoreInv, gateVars, GateTypeOK, UtilizationFits, Utilization
<1> QED BY <1>2, <1>3, <1>4 DEF EndTransaction, RevertedTransaction

-----------------------------------------------------------------------------
(* Steps of the gate. *)

(* Applying one accepted genuine log moves a faithful mirror to the next     *)
(* state of the history.                                                     *)
LEMMA AppliedMirror ==
  ASSUME LoanTypeOK, HistoryInv, NEW m, MirrorOK(m, emitted), NEW tx \in Receipt,
         NEW i \in 1..Len(tx.logs), Genuine(tx.logs[i], emitted),
         Applicable(tx.logs[i]), Accepts(m, tx, i)
  PROVE  LET a == Applied(m, tx, i)
         IN  /\ MirrorOK(a, emitted)
             /\ a.initialized
             /\ a.lastSequence = m.lastSequence + 1
             /\ m.initialized => a.verifiedDebt <= m.verifiedDebt
<1> DEFINE log == tx.logs[i]
           a == Applied(m, tx, i)
<1>1. PICK s \in 1..Len(emitted) : log = emitted[s]
  BY DEF Genuine, Applicable, ForeignLog
<1>2. /\ log \in DebtLog
      /\ log.sequence = s
      /\ (log.type = "DebtOpened") <=> (s = 1)
      /\ s = 1 => log.cumulativeRepaid = 0
  BY <1>1 DEF LoanTypeOK, HistoryInv
<1>3. /\ tx.block \in Nat /\ tx.tx \in Nat /\ i - 1 \in Nat /\ m \in Mirror
  BY DEF Receipt, MirrorOK
<1>4. PositionOf(tx, i) \in Position
  BY <1>3 DEF PositionOf, Position
<1> HIDE DEF log
<1>5. CASE s = 1
  <2>1. /\ log.type = "DebtOpened" /\ AcceptsOpening(m, log)
    BY <1>2, <1>5 DEF Accepts, log
  <2>2. /\ m.lastSequence = 0 /\ m.totalRepaid = 0 /\ ~m.initialized
        /\ log.outstanding = log.amount /\ log.sequence = 1
    BY <2>1 DEF MirrorOK, AcceptsOpening
  <2>3. /\ a.initialized /\ a.principalOpened = log.amount
        /\ a.totalRepaid = m.totalRepaid /\ a.verifiedDebt = log.outstanding
        /\ a.lastSequence = log.sequence
        /\ a \in Mirror
    BY <1>2, <1>3, <1>4, <2>1 DEF Applied, RepaidAfter, DebtAfter, Mirror, DebtLog, log
  <2> HIDE DEF a
  <2>4. MirrorOK(a, emitted)
    BY <1>1, <1>2, <1>5, <2>2, <2>3 DEF MirrorOK
  <2> QED BY <2>2, <2>3, <2>4 DEF a
<1>6. CASE s # 1
  <2>0. log.type # "DebtOpened"
    BY <1>2, <1>6
  <2>1. AcceptsRepayment(m, log)
    BY <2>0 DEF Accepts, log
  <2>2. /\ m.initialized /\ log.sequence = m.lastSequence + 1
        /\ m.principalOpened = emitted[1].amount
        /\ log.outstanding = m.verifiedDebt - log.amount
    BY <2>1 DEF MirrorOK, AcceptsRepayment
  <2>3. /\ a.initialized /\ a.principalOpened = m.principalOpened
        /\ a.totalRepaid = log.cumulativeRepaid
        /\ a.verifiedDebt = log.outstanding /\ a.lastSequence = log.sequence
        /\ a \in Mirror
    BY <1>2, <1>3, <1>4, <2>0, <2>1 DEF Applied, RepaidAfter, DebtAfter, Mirror, DebtLog, log
  <2>4. log.outstanding <= m.verifiedDebt
    BY <1>2, <1>3, <2>2, MaxUintAssumption DEF DebtLog, Mirror, Uint
  <2> HIDE DEF a
  <2>5. MirrorOK(a, emitted)
    <3>1. /\ a.lastSequence = s /\ a.lastSequence \in 1..Len(emitted)
          /\ a.principalOpened = emitted[1].amount
          /\ a.totalRepaid = emitted[a.lastSequence].cumulativeRepaid
          /\ a.verifiedDebt = emitted[a.lastSequence].outstanding
      BY <1>1, <1>2, <2>2, <2>3
    <3> QED BY <2>3, <3>1 DEF MirrorOK
  <2> QED BY <2>2, <2>3, <2>4, <2>5 DEF a
<1> QED BY <1>5, <1>6

(* So does the whole loop, by induction on the logs of the receipt. *)
LEMMA AdmissionInv ==
  ASSUME LoanTypeOK, HistoryInv, NEW m, MirrorOK(m, emitted), NEW tx \in Receipt,
         \A j \in 1..Len(tx.logs) : Genuine(tx.logs[j], emitted)
  PROVE  LET r == Admission(m, tx)[Len(tx.logs)]
         IN  /\ r.count \in Nat
             /\ r.ok => /\ MirrorOK(r.mirror, emitted)
                        /\ r.mirror.lastSequence = m.lastSequence + r.count
                        /\ r.count # 0 => r.mirror.initialized
                        /\ m.initialized => /\ r.mirror.initialized
                                            /\ r.mirror.verifiedDebt <= m.verifiedDebt
                        /\ SequencesOf(tx.logs)
                             = (m.lastSequence + 1)..r.mirror.lastSequence
<1> DEFINE n == Len(tx.logs)
           turn == Admission(m, tx)
           Good(r) == /\ r.count \in Nat
                      /\ r.ok \in BOOLEAN
                      /\ r.ok => /\ MirrorOK(r.mirror, emitted)
                                 /\ r.mirror.lastSequence = m.lastSequence + r.count
                                 /\ r.count # 0 => r.mirror.initialized
                                 /\ m.initialized =>
                                      /\ r.mirror.initialized
                                      /\ r.mirror.verifiedDebt <= m.verifiedDebt
           upTo(i) == {tx.logs[j].sequence : j \in {k \in 1..i : Applicable(tx.logs[k])}}
           Covers(r, i) == r.ok => upTo(i) = (m.lastSequence + 1)..r.mirror.lastSequence
           T == {i \in 0..n : Good(turn[i]) /\ Covers(turn[i], i)}
<1>1. n \in Nat
  BY DEF Receipt
<1>2. \A i \in 0..n : turn[i] = IF i = 0
                                 THEN [ok |-> TRUE, mirror |-> m, count |-> 0]
                                 ELSE AdmitLog(turn[i - 1], tx, i)
  <2>1. turn = [i \in 0..n |-> IF i = 0
                               THEN [ok |-> TRUE, mirror |-> m, count |-> 0]
                               ELSE AdmitLog(turn[i - 1], tx, i)]
    BY <1>1, AdmissionTurns
  <2> HIDE DEF turn, n
  <2> QED BY <2>1
<1>3. /\ m \in Mirror /\ m.lastSequence \in Nat /\ m.verifiedDebt \in Nat
  BY MaxUintAssumption DEF MirrorOK, Mirror, Uint
<1>4. 0 \in T
  <2> HIDE DEF turn
  <2>1. turn[0] = [ok |-> TRUE, mirror |-> m, count |-> 0]
    <3>1. 0 \in 0..n
      BY <1>1
    <3> HIDE DEF n
    <3> QED BY <1>2, <3>1
  <2>2. Good(turn[0]) /\ Covers(turn[0], 0)
    BY <1>3, <2>1
  <2> QED BY <1>1, <2>2
<1>5. ASSUME NEW i \in 1..n, i - 1 \in T PROVE i \in T
  <2> DEFINE p == turn[i - 1]
             r == turn[i]
  <2>1. i \in 0..n /\ i # 0 /\ r = AdmitLog(p, tx, i)
    BY <1>1, <1>2
  <2>2. Good(p) /\ Covers(p, i - 1)
    BY <1>5
  <2>0. 1..i = (1..(i - 1)) \cup {i}
    BY <1>1
  <2> HIDE DEF p, r, turn
  <2>3. CASE ~Applicable(tx.logs[i])
    <3>1. r = p
      BY <2>1, <2>3 DEF AdmitLog
    <3>2. upTo(i) = upTo(i - 1)
      BY <2>3, <2>0
    <3> HIDE DEF upTo
    <3>3. Good(r) /\ Covers(r, i)
      BY <2>2, <3>1, <3>2
    <3> QED BY <2>1, <3>3 DEF r
  <2>4. CASE Applicable(tx.logs[i])
    <3> DEFINE a == Applied(p.mirror, tx, i)
    <3>1. r = [ok |-> p.ok /\ Accepts(p.mirror, tx, i), mirror |-> a,
               count |-> p.count + 1]
      BY <2>1, <2>4 DEF AdmitLog
    <3>2. r.count = p.count + 1 /\ r.mirror = a
          /\ r.ok = (p.ok /\ Accepts(p.mirror, tx, i))
      BY <3>1
    <3>3. ASSUME r.ok
          PROVE  /\ p.ok
                 /\ MirrorOK(a, emitted) /\ a.initialized
                 /\ a.lastSequence = p.mirror.lastSequence + 1
                 /\ p.mirror.initialized => a.verifiedDebt <= p.mirror.verifiedDebt
      <4>1. p.ok /\ Accepts(p.mirror, tx, i)
        BY <3>2, <3>3
      <4>2. MirrorOK(p.mirror, emitted)
        BY <4>1, <2>2
      <4>3. Genuine(tx.logs[i], emitted)
        OBVIOUS
      <4> QED BY <4>1, <4>2, <4>3, <2>4, AppliedMirror
    <3>4. ASSUME r.ok
          PROVE  /\ MirrorOK(r.mirror, emitted)
                 /\ r.mirror.lastSequence = m.lastSequence + r.count
                 /\ r.mirror.initialized
                 /\ m.initialized => r.mirror.verifiedDebt <= m.verifiedDebt
      <4>1. p.mirror \in Mirror /\ a \in Mirror
        BY <3>3, <3>4, <2>2 DEF MirrorOK
      <4>2. /\ p.mirror.verifiedDebt \in Nat /\ a.verifiedDebt \in Nat
        BY <4>1, MaxUintAssumption DEF Mirror, Uint
      <4> HIDE DEF a
      <4> QED BY <1>3, <2>2, <3>2, <3>3, <3>4, <4>2
    <3>5. Good(r)
      BY <2>2, <3>2, <3>4
    <3>6. Covers(r, i)
      <4> SUFFICES ASSUME r.ok
                   PROVE  upTo(i) = (m.lastSequence + 1)..r.mirror.lastSequence
        OBVIOUS
      <4>1. upTo(i) = upTo(i - 1) \cup {tx.logs[i].sequence}
        BY <2>4, <2>0
      <4>2. tx.logs[i].sequence = r.mirror.lastSequence
        BY <3>2 DEF Applied
      <4>3. p.mirror.lastSequence \in Nat /\ p.count \in Nat
            /\ p.mirror.lastSequence = m.lastSequence + p.count
            /\ r.mirror.lastSequence = p.mirror.lastSequence + 1
            /\ upTo(i - 1) = (m.lastSequence + 1)..p.mirror.lastSequence
        <5>1. p.mirror \in Mirror
          BY <2>2, <3>3 DEF MirrorOK
        <5> HIDE DEF a, upTo
        <5> QED BY <5>1, <2>2, <3>2, <3>3 DEF Mirror
      <4> HIDE DEF upTo, a
      <4> QED BY <1>3, <4>1, <4>2, <4>3
    <3> QED BY <2>1, <3>5, <3>6 DEF r
  <2> QED BY <2>3, <2>4
<1>6. n \in T
  <2> HIDE DEF T, n
  <2> QED BY <1>1, <1>4, <1>5, IndexInduction
<1>7. Good(turn[n]) /\ Covers(turn[n], n)
  BY <1>6
<1>8. upTo(n) = SequencesOf(tx.logs)
  BY DEF SequencesOf
<1> HIDE DEF turn, upTo
<1> QED BY <1>7, <1>8 DEF turn

LEMMA RelayStep ==
  ASSUME CoreInv, NEW k \in 1..Len(receipts), SubmitSourceTransaction(receipts[k]),
         UNCHANGED loanVars
  PROVE  /\ CoreInv'
         /\ mirror'.initialized
         /\ mirror'.lastSequence \in (mirror.lastSequence + 1)..Len(emitted)
         /\ SequencesOf(receipts[k].logs)
              = (mirror.lastSequence + 1)..mirror'.lastSequence
<1> DEFINE tx == receipts[k]
           r == Admission(mirror, tx)[Len(tx.logs)]
<1>1. tx \in Receipt
  BY DEF CoreInv, LoanTypeOK
<1>2. \A j \in 1..Len(tx.logs) : Genuine(tx.logs[j], emitted)
  BY DEF CoreInv, HistoryInv
<1>3. /\ r.ok /\ r.count # 0 /\ mirror' = r.mirror
      /\ stateVersion' = stateVersion + r.count
      /\ processedQueries' = processedQueries \cup {<<tx.block, tx.tx>>}
      /\ UNCHANGED <<creditLimit, policyVersion, committedCredit>>
  BY DEF SubmitSourceTransaction
<1>4. /\ r.count \in Nat /\ MirrorOK(r.mirror, emitted) /\ r.mirror.initialized
      /\ r.mirror.lastSequence = mirror.lastSequence + r.count
      /\ mirror.initialized => r.mirror.verifiedDebt <= mirror.verifiedDebt
      /\ SequencesOf(tx.logs) = (mirror.lastSequence + 1)..r.mirror.lastSequence
  <2> HIDE DEF tx
  <2> QED BY <1>1, <1>2, <1>3, AdmissionInv DEF CoreInv
<1> HIDE DEF r
<1>5. /\ mirror' \in Mirror /\ mirror \in Mirror
      /\ mirror'.verifiedDebt \in Uint /\ mirror.verifiedDebt \in Uint
      /\ mirror.lastSequence \in Nat
      /\ committedCredit \in Uint /\ committedCredit' = committedCredit
  BY <1>3, <1>4 DEF MirrorOK, CoreInv, GateTypeOK, Mirror
<1>6. MirrorOK(mirror', emitted') /\ mirror'.initialized
  BY <1>3, <1>4 DEF loanVars
<1>7. UtilizationFits'
  <2>1. CASE mirror.initialized
    <3>1. mirror.verifiedDebt + committedCredit <= MaxUint
      BY DEF CoreInv, UtilizationFits, Utilization
    <3>2. mirror'.verifiedDebt <= mirror.verifiedDebt
      BY <1>3, <1>4, <2>1
    <3> QED BY <1>5, <3>1, <3>2, MaxUintAssumption
            DEF UtilizationFits, Utilization, Uint
  <2>2. CASE ~mirror.initialized
    <3>1. committedCredit' = 0
      BY <1>5, <2>2 DEF CoreInv
    <3> QED BY <1>5, <3>1, MaxUintAssumption DEF UtilizationFits, Utilization, Uint
  <2> QED BY <2>1, <2>2
<1>8. GateTypeOK'
  <2>1. <<tx.block, tx.tx>> \in Nat \X Nat
    BY <1>1 DEF Receipt
  <2> HIDE DEF tx
  <2>2. stateVersion' \in Nat
    BY <1>3, <1>4 DEF CoreInv, GateTypeOK
  <2> QED BY <1>3, <1>5, <2>1, <2>2 DEF CoreInv, GateTypeOK
<1>9. LoanTypeOK' /\ HistoryInv'
  BY DEF CoreInv, loanVars, LoanTypeOK, HistoryInv
<1>10. mirror'.lastSequence \in (mirror.lastSequence + 1)..Len(emitted)
  <2>1. mirror'.lastSequence = mirror.lastSequence + r.count
    BY <1>3, <1>4
  <2>2. mirror'.lastSequence \in 1..Len(emitted)
    BY <1>3, <1>4 DEF MirrorOK
  <2> QED BY <1>3, <1>4, <1>5, <2>1, <2>2
<1> QED BY <1>3, <1>4, <1>6, <1>7, <1>8, <1>9, <1>10 DEF CoreInv

LEMMA CommitStep ==
  ASSUME CoreInv, NEW requested \in Uint, NEW sv, NEW pv,
         CommitCredit(requested, sv, pv), UNCHANGED loanVars
  PROVE  CoreInv'
<1>1. /\ LoanTypeOK' /\ HistoryInv' /\ MirrorOK(mirror', emitted')
  BY DEF CoreInv, loanVars, LoanTypeOK, HistoryInv, CommitCredit
<1>2. /\ mirror.verifiedDebt \in Nat /\ committedCredit \in Nat
      /\ creditLimit \in Nat /\ creditLimit <= MaxUint /\ requested \in Nat
      /\ requested # 0
  BY MaxUintAssumption DEF CoreInv, GateTypeOK, Mirror, Uint, CommitCredit
<1>3. /\ committedCredit' = committedCredit + requested
      /\ requested <= creditLimit - (mirror.verifiedDebt + committedCredit)
      /\ mirror' = mirror /\ mirror.initialized
  BY <1>2 DEF CommitCredit, Headroom, Utilization
<1>4. UtilizationFits' /\ committedCredit' \in Uint
  BY <1>2, <1>3, MaxUintAssumption DEF UtilizationFits, Utilization, Uint
<1>5. GateTypeOK'
  BY <1>3, <1>4 DEF CoreInv, GateTypeOK, CommitCredit
<1> QED BY <1>1, <1>3, <1>4, <1>5 DEF CoreInv

LEMMA PolicyStep ==
  ASSUME CoreInv, NEW newLimit \in PolicyLimits, SetPolicy(newLimit), UNCHANGED loanVars
  PROVE  CoreInv'
<1>1. /\ LoanTypeOK' /\ HistoryInv' /\ MirrorOK(mirror', emitted')
  BY DEF CoreInv, loanVars, LoanTypeOK, HistoryInv, SetPolicy
<1>2. newLimit \in Uint \ {0}
  BY GateConstants DEF SetPolicy
<1>3. GateTypeOK'
  BY <1>2 DEF CoreInv, GateTypeOK, SetPolicy
<1> QED BY <1>1, <1>3 DEF CoreInv, SetPolicy, UtilizationFits, Utilization

-----------------------------------------------------------------------------
(* Receipts are admitted whole. *)

LEMMA SequenceMember ==
  ASSUME NEW logs, NEW s
  PROVE  s \in SequencesOf(logs) <=>
           \E j \in 1..Len(logs) : Applicable(logs[j]) /\ logs[j].sequence = s
<1> QED BY DEF SequencesOf

(* A debt log of the chain is numbered within the history. *)
LEMMA SequencesKnown ==
  ASSUME LoanTypeOK, HistoryInv, NEW logs,
         \A j \in 1..Len(logs) : Genuine(logs[j], emitted)
  PROVE  SequencesOf(logs) \subseteq 1..Len(emitted)
<1> SUFFICES ASSUME NEW s \in SequencesOf(logs) PROVE s \in 1..Len(emitted)
  OBVIOUS
<1>1. PICK j \in 1..Len(logs) : Applicable(logs[j]) /\ logs[j].sequence = s
  BY SequenceMember
<1>2. PICK k \in 1..Len(emitted) : logs[j] = emitted[k]
  BY <1>1 DEF Genuine, Applicable, ForeignLog
<1> QED BY <1>1, <1>2 DEF HistoryInv

LEMMA SequencesAppended ==
  ASSUME LoanTypeOK, NEW log \in DebtLog \cup {ForeignLog},
         txLogs' = Append(txLogs, log)
  PROVE  SequencesOf(txLogs') =
           IF Applicable(log) THEN SequencesOf(txLogs) \cup {log.sequence}
                              ELSE SequencesOf(txLogs)
<1>1. /\ txLogs \in Seq(DebtLog \cup {ForeignLog})
      /\ Len(txLogs') = Len(txLogs) + 1 /\ Len(txLogs) \in Nat
      /\ txLogs'[Len(txLogs) + 1] = log
      /\ \A j \in 1..Len(txLogs) : txLogs'[j] = txLogs[j]
  BY DEF LoanTypeOK
<1>2. 1..Len(txLogs') = 1..Len(txLogs) \cup {Len(txLogs) + 1}
  BY <1>1
<1> QED BY <1>1, <1>2 DEF SequencesOf

(* A call emits a debt log that no receipt has and that is still to be       *)
(* admitted.                                                                 *)
LEMMA EmitWhole ==
  ASSUME CoreInv, WholeInv, NEW log \in DebtLog \cup {ForeignLog},
         Applicable(log) => log.sequence = Len(emitted) + 1,
         txLogs' = Append(txLogs, log),
         UNCHANGED <<head, receipts, gateVars>>
  PROVE  WholeInv'
<1>1. /\ LoanTypeOK /\ HistoryInv /\ Len(emitted) \in Nat
      /\ mirror.lastSequence \in Nat /\ mirror.lastSequence <= Len(emitted)
  BY DEF CoreInv, MirrorOK, LoanTypeOK, GateTypeOK, Mirror
<1>2. SequencesOf(txLogs') =
        IF Applicable(log) THEN SequencesOf(txLogs) \cup {log.sequence}
                           ELSE SequencesOf(txLogs)
  BY <1>1, SequencesAppended
<1>3. \A s \in SequencesOf(txLogs') : s > mirror.lastSequence
  BY <1>1, <1>2 DEF WholeInv
<1>4. ASSUME NEW i \in 1..Len(receipts)
      PROVE  SequencesOf(receipts[i].logs) \cap SequencesOf(txLogs') = {}
  <2>1. SequencesOf(receipts[i].logs) \subseteq 1..Len(emitted)
    BY <1>1, SequencesKnown DEF HistoryInv
  <2>2. SequencesOf(receipts[i].logs) \cap SequencesOf(txLogs) = {}
    BY DEF WholeInv
  <2> QED BY <1>1, <1>2, <2>1, <2>2
<1> QED BY <1>3, <1>4 DEF WholeInv, gateVars

(* A finished transaction is one more receipt, with a key of its own and     *)
(* nothing of it admitted.                                                   *)
LEMMA FinishWhole ==
  ASSUME CoreInv, WholeInv, NEW status \in {0, 1}, Finish(status), UNCHANGED gateVars
  PROVE  WholeInv'
<1> DEFINE r == [block |-> head.block, tx |-> head.tx, status |-> status,
                 logs |-> txLogs]
           n == Len(receipts)
<1>1. /\ LoanTypeOK /\ n \in Nat /\ head.block \in Nat /\ head.tx \in Nat
      /\ \A i \in 1..n : receipts[i] \in Receipt
  BY DEF CoreInv, LoanTypeOK
<1>2. /\ Len(receipts') = n + 1 /\ receipts'[n + 1] = r
      /\ \A i \in 1..n : receipts'[i] = receipts[i]
  BY <1>1 DEF Finish, LoanTypeOK
<1>3. head'.block = head.block /\ head'.tx = head.tx + 1
  BY <1>1 DEF Finish, LoanTypeOK
<1>4. r.block = head.block /\ r.tx = head.tx /\ r.logs = txLogs
      /\ Key(r) = <<head.block, head.tx>>
  BY DEF Key
<1>5. SequencesOf(txLogs') = {}
  BY DEF Finish, SequencesOf
<1>6. ASSUME NEW i \in 1..n PROVE Key(receipts[i]) # Key(r)
  <2>1. \/ receipts[i].block < head.block
        \/ receipts[i].block = head.block /\ receipts[i].tx < head.tx
    BY DEF WholeInv
  <2>2. receipts[i].block \in Nat /\ receipts[i].tx \in Nat
    BY <1>1 DEF Receipt
  <2> HIDE DEF r
  <2> QED BY <1>1, <1>4, <2>1, <2>2 DEF Key
<1> HIDE DEF r, n
<1>7. Key(r) \notin processedQueries
  BY <1>6 DEF WholeInv, n
<1>8. mirror' = mirror /\ processedQueries' = processedQueries
  BY DEF gateVars
<1>9. 1..Len(receipts') = 1..n \cup {n + 1}
  BY <1>1, <1>2
<1>10. processedQueries' \subseteq {Key(receipts'[i]) : i \in 1..Len(receipts')}
  BY <1>2, <1>8, <1>9 DEF WholeInv, n
<1>11. ASSUME NEW i \in 1..Len(receipts')
       PROVE  /\ \/ receipts'[i].block < head'.block
                 \/ receipts'[i].block = head'.block /\ receipts'[i].tx < head'.tx
              /\ SequencesOf(receipts'[i].logs) \cap SequencesOf(txLogs') = {}
              /\ \A s \in SequencesOf(receipts'[i].logs) :
                   Key(receipts'[i]) \in processedQueries' <=> s <= mirror'.lastSequence
  <2>1. CASE i = n + 1
    <3>1. \A s \in SequencesOf(txLogs) : ~(s <= mirror.lastSequence)
      <4>1. SequencesOf(txLogs) \subseteq 1..Len(emitted) /\ mirror.lastSequence \in Nat
        BY <1>1, SequencesKnown DEF CoreInv, HistoryInv, MirrorOK, Mirror
      <4> QED BY <4>1 DEF WholeInv
    <3> QED BY <1>1, <1>2, <1>3, <1>4, <1>5, <1>7, <1>8, <2>1, <3>1
  <2>2. CASE i \in 1..n
    <3>1. receipts'[i] = receipts[i]
      BY <1>2, <2>2
    <3>2. /\ \/ receipts[i].block < head.block
             \/ receipts[i].block = head.block /\ receipts[i].tx < head.tx
          /\ \A s \in SequencesOf(receipts[i].logs) :
               Key(receipts[i]) \in processedQueries <=> s <= mirror.lastSequence
      BY <2>2 DEF WholeInv, n
    <3>3. receipts[i].tx \in Nat
      BY <1>1, <2>2 DEF Receipt
    <3> QED BY <1>1, <1>3, <1>5, <1>8, <3>1, <3>2, <3>3
  <2> QED BY <1>9, <2>1, <2>2
<1>12. ASSUME NEW i \in 1..Len(receipts'), NEW k \in 1..Len(receipts'), i # k
       PROVE  /\ Key(receipts'[i]) # Key(receipts'[k])
              /\ SequencesOf(receipts'[i].logs) \cap SequencesOf(receipts'[k].logs) = {}
  <2>1. ASSUME NEW j \in 1..n
        PROVE  /\ Key(receipts[j]) # Key(r)
               /\ SequencesOf(receipts[j].logs) \cap SequencesOf(r.logs) = {}
    BY <1>4, <1>6 DEF WholeInv, n
  <2>2. CASE i \in 1..n /\ k \in 1..n
    <3>1. receipts'[i] = receipts[i] /\ receipts'[k] = receipts[k]
      BY <1>2, <2>2
    <3> QED BY <1>12, <2>2, <3>1 DEF WholeInv, n
  <2>3. CASE i \in 1..n /\ k = n + 1
    <3>1. receipts'[i] = receipts[i] /\ receipts'[k] = r
      BY <1>2, <2>3
    <3> QED BY <2>1, <2>3, <3>1
  <2>4. CASE i = n + 1 /\ k \in 1..n
    <3>1. receipts'[k] = receipts[k] /\ receipts'[i] = r
      BY <1>2, <2>4
    <3> QED BY <2>1, <2>4, <3>1
  <2> QED BY <1>9, <1>12, <2>2, <2>3, <2>4
<1> QED BY <1>5, <1>10, <1>11, <1>12 DEF WholeInv

LEMMA SourceWhole ==
  ASSUME CoreInv, WholeInv, LoanNext, UNCHANGED gateVars
  PROVE  WholeInv'
<1>1. ASSUME NEW amount \in Uint, OpenDebt(amount) \/ RepayDebt(amount), CoreInv'
      PROVE  WholeInv'
  <2>1. PICK e : Emit(e) /\ e.sequence = Len(emitted) + 1
    <3>1. CASE OpenDebt(amount)
      <4>1. Len(emitted) = 0
        BY <3>1 DEF OpenDebt, CoreInv, HistoryInv
      <4> QED BY <3>1, <4>1 DEF OpenDebt
    <3>2. CASE RepayDebt(amount)
      <4>1. Len(emitted) = loan.sequence
        BY DEF CoreInv, HistoryInv
      <4> QED BY <3>2, <4>1 DEF RepayDebt
    <3> QED BY <1>1, <3>1, <3>2
  <2>2. e \in DebtLog
    <3>1. /\ emitted' = Append(emitted, e) /\ emitted' \in Seq(DebtLog)
          /\ emitted \in Seq(DebtLog)
      BY <1>1, <2>1 DEF Emit, CoreInv, LoanTypeOK
    <3>2. emitted'[Len(emitted) + 1] = e /\ Len(emitted') = Len(emitted) + 1
      BY <3>1
    <3> QED BY <3>1, <3>2
  <2> QED BY <2>1, <2>2, EmitWhole DEF Emit
<1>2. CASE EmitForeignLog
  BY <1>2, EmitWhole DEF EmitForeignLog, Applicable, ForeignLog
<1>3. CASE EndTransaction \/ RevertedTransaction
  BY <1>3, FinishWhole DEF EndTransaction, RevertedTransaction
<1>4. CASE MineBlock
  <2>1. /\ head'.block = head.block + 1 /\ head.block \in Nat /\ head.tx \in Nat
        /\ \A i \in 1..Len(receipts) : receipts[i].block \in Nat /\ receipts[i].tx \in Nat
    <3>1. /\ head \in [block : Nat, tx : Nat]
          /\ \A i \in 1..Len(receipts) : receipts[i] \in Receipt
      BY DEF CoreInv, LoanTypeOK
    <3>2. \A i \in 1..Len(receipts) : receipts[i].block \in Nat /\ receipts[i].tx \in Nat
      BY <3>1 DEF Receipt
    <3> QED BY <1>4, <3>1, <3>2 DEF MineBlock
  <2>2. ASSUME NEW i \in 1..Len(receipts) PROVE receipts[i].block < head'.block
    BY <2>1 DEF WholeInv
  <2> QED BY <1>4, <2>2 DEF WholeInv, MineBlock, gateVars
<1>5. ASSUME NEW amount \in Uint, OpenDebt(amount) \/ RepayDebt(amount) PROVE CoreInv'
  BY <1>5, OpenDebtStep, RepayDebtStep
<1> QED BY <1>1, <1>2, <1>3, <1>4, <1>5 DEF LoanNext

LEMMA WholeKept ==
  ASSUME WholeInv, UNCHANGED <<head, txLogs, receipts, mirror, processedQueries>>
  PROVE  WholeInv'
<1> QED BY DEF WholeInv

(* An admission moves lastSequence over the debt logs of its own receipt,    *)
(* and over no others.                                                       *)
LEMMA RelayWhole ==
  ASSUME CoreInv, WholeInv, NEW k \in 1..Len(receipts),
         SubmitSourceTransaction(receipts[k]), UNCHANGED loanVars
  PROVE  WholeInv'
<1> DEFINE tx == receipts[k]
           old == mirror.lastSequence
           new == mirror'.lastSequence
<1>1. /\ SequencesOf(tx.logs) = (old + 1)..new
      /\ new \in (old + 1)..Len(emitted)
  BY RelayStep
<1>2. /\ processedQueries' = processedQueries \cup {Key(tx)}
      /\ Key(tx) \notin processedQueries
  BY DEF SubmitSourceTransaction, Key
<1>3. /\ LoanTypeOK /\ HistoryInv /\ old \in Nat /\ Len(emitted) \in Nat
  BY DEF CoreInv, MirrorOK, Mirror, LoanTypeOK
<1>4. /\ receipts' = receipts /\ txLogs' = txLogs /\ head' = head
  BY DEF loanVars
<1> HIDE DEF old, new
<1>5. ASSUME NEW s \in SequencesOf(txLogs) PROVE s > new
  <2>1. s \in 1..Len(emitted) /\ s > old
    BY <1>3, SequencesKnown DEF HistoryInv, WholeInv, old
  <2>2. s \notin (old + 1)..new
    BY <1>1 DEF WholeInv
  <2> QED BY <1>1, <1>3, <2>1, <2>2
<1>6. ASSUME NEW i \in 1..Len(receipts), NEW s \in SequencesOf(receipts[i].logs)
      PROVE  Key(receipts[i]) \in processedQueries' <=> s <= new
  <2>1. CASE i = k
    BY <1>1, <1>2, <1>3, <2>1
  <2>2. CASE i # k
    <3>1. /\ Key(receipts[i]) # Key(tx) /\ s \notin (old + 1)..new
          /\ Key(receipts[i]) \in processedQueries <=> s <= old
      BY <1>1, <2>2 DEF WholeInv, old
    <3>2. s \in 1..Len(emitted)
      BY <1>3, SequencesKnown DEF HistoryInv
    <3> QED BY <1>1, <1>2, <1>3, <3>1, <3>2
  <2> QED BY <2>1, <2>2
<1>7. processedQueries' \subseteq {Key(receipts[i]) : i \in 1..Len(receipts)}
  BY <1>2 DEF WholeInv
<1> QED BY <1>4, <1>5, <1>6, <1>7 DEF WholeInv, new

-----------------------------------------------------------------------------
(* Theorems. *)

LEMMA CoreInit == Init => CoreInv
<1> SUFFICES ASSUME Init PROVE CoreInv
  OBVIOUS
<1> USE DEF Init
<1>1. LoanTypeOK /\ HistoryInv
  BY MaxUintAssumption DEF LoanInit, LoanTypeOK, HistoryInv, Uint
<1>2. /\ 0 \in Uint
      /\ mirror \in Mirror
  BY MaxUintAssumption DEF GateInit, Mirror, Position, Uint
<1>3. GateTypeOK
  BY <1>2, GateConstants DEF GateInit, GateTypeOK
<1>4. MirrorOK(mirror, emitted) /\ committedCredit = 0
  BY <1>2 DEF GateInit, MirrorOK
<1>5. UtilizationFits
  BY MaxUintAssumption DEF GateInit, UtilizationFits, Utilization
<1> QED BY <1>1, <1>3, <1>4, <1>5 DEF CoreInv

(* NoDecision is a model value: it is none of the records of DecisionView.   *)
LEMMA EvaluateQuote ==
  ASSUME CoreInv, NEW requested \in Uint, ~Panics(requested)
  PROVE  Decision(requested) \in DecisionView
<1>1. /\ mirror.verifiedDebt \in Nat /\ committedCredit \in Nat /\ requested \in Nat
      /\ creditLimit \in Nat /\ creditLimit <= MaxUint /\ requested <= MaxUint
      /\ mirror.verifiedDebt + committedCredit <= MaxUint
      /\ stateVersion \in Nat /\ policyVersion \in Nat
  BY MaxUintAssumption DEF CoreInv, GateTypeOK, Mirror, Uint, UtilizationFits, Utilization
<1>2. (IF mirror.initialized THEN Headroom ELSE 0) \in Uint
  BY <1>1, MaxUintAssumption DEF Headroom, Utilization, Uint
<1>3. (IF ~mirror.initialized THEN 0 ELSE Utilization + requested) \in Uint
  BY <1>1, MaxUintAssumption DEF Panics, Utilization, Uint
<1>4. Decision(requested).reason
        \in {"UNINITIALIZED", "ZERO_AMOUNT", "OVER_LIMIT", "ALLOW"}
  <2> DEFINE over == Utilization + requested > creditLimit
  <2>1. Decision(requested).reason =
          CASE ~mirror.initialized -> "UNINITIALIZED"
            [] mirror.initialized /\ requested = 0 -> "ZERO_AMOUNT"
            [] mirror.initialized /\ requested # 0 /\ over -> "OVER_LIMIT"
            [] OTHER -> "ALLOW"
    BY DEF Decision
  <2> HIDE DEF over
  <2> QED BY <2>1
<1>5. Decision(requested) = [requested |-> requested,
         reason |-> Decision(requested).reason,
         headroom |-> IF mirror.initialized THEN Headroom ELSE 0,
         utilization |-> IF ~mirror.initialized THEN 0 ELSE Utilization + requested,
         stateVersion |-> stateVersion, policyVersion |-> policyVersion]
  BY DEF Decision
<1> QED BY <1>1, <1>2, <1>3, <1>4, <1>5 DEF DecisionView

LEMMA InvInit == Init => IInv
<1> SUFFICES ASSUME Init PROVE IInv
  OBVIOUS
<1>1. CoreInv
  BY CoreInit
<1>2. QuoteInv
  BY DEF Init, QuoteInv, VersionsPinDecision
<1>3. WholeInv
  BY DEF Init, LoanInit, GateInit, WholeInv, SequencesOf
<1> QED BY <1>1, <1>2, <1>3 DEF IInv

(* A decision stays pinned when no version moves, and cannot be current     *)
(* when one does.                                                            *)
LEMMA QuoteKept ==
  ASSUME CoreInv, QuoteInv, UNCHANGED quote,
         \/ UNCHANGED gateVars
         \/ /\ stateVersion' \in Nat /\ stateVersion' > stateVersion
            /\ policyVersion' = policyVersion
         \/ /\ policyVersion' \in Nat /\ policyVersion' > policyVersion
            /\ stateVersion' = stateVersion
  PROVE  QuoteInv'
<1>1. stateVersion \in Nat /\ policyVersion \in Nat
  BY DEF CoreInv, GateTypeOK
<1>2. CASE UNCHANGED gateVars
  BY <1>2 DEF QuoteInv, VersionsPinDecision, gateVars, Decision, Utilization, Headroom
<1>3. ASSUME stateVersion' >= stateVersion, policyVersion' >= policyVersion,
             stateVersion' \in Nat, policyVersion' \in Nat,
             stateVersion' # stateVersion \/ policyVersion' # policyVersion
      PROVE  QuoteInv'
  <2>1. ASSUME NEW q \in Quotes, quote'[q] # NoDecision
        PROVE  /\ quote'[q].stateVersion <= stateVersion'
               /\ quote'[q].policyVersion <= policyVersion'
               /\ ~ (/\ quote'[q].stateVersion = stateVersion'
                     /\ quote'[q].policyVersion = policyVersion')
    <3>1. /\ quote[q].stateVersion <= stateVersion
          /\ quote[q].policyVersion <= policyVersion
          /\ quote'[q] = quote[q]
      BY <2>1 DEF QuoteInv
    <3>2. quote[q] \in DecisionView
      BY <2>1 DEF QuoteInv
    <3>3. quote[q].stateVersion \in Nat /\ quote[q].policyVersion \in Nat
      BY <3>2 DEF DecisionView
    <3> QED BY <1>1, <1>3, <3>1, <3>3
  <2> QED BY <2>1 DEF QuoteInv, VersionsPinDecision
<1> QED BY <1>1, <1>2, <1>3

LEMMA InvStep == IInv /\ [Next]_vars => IInv'
<1> SUFFICES ASSUME IInv, [Next]_vars PROVE IInv'
  OBVIOUS
<1> USE DEF IInv
<1>1. CASE Source
  <2>1. CoreInv'
    BY <1>1, OpenDebtStep, RepayDebtStep, ChainStep DEF Source, LoanNext
  <2>2. WholeInv'
    BY <1>1, SourceWhole DEF Source
  <2> QED BY <1>1, <2>1, <2>2, QuoteKept DEF Source
<1>2. CASE Relay
  <2>1. PICK k \in 1..Len(receipts) : SubmitSourceTransaction(receipts[k])
    BY <1>2 DEF Relay
  <2>2. /\ CoreInv'
        /\ mirror'.lastSequence \in (mirror.lastSequence + 1)..Len(emitted)
    BY <1>2, <2>1, RelayStep DEF Relay
  <2>3. stateVersion' > stateVersion /\ policyVersion' = policyVersion
    <3> DEFINE tx == receipts[k]
               r == Admission(mirror, tx)[Len(tx.logs)]
    <3>1. tx \in Receipt /\ \A j \in 1..Len(tx.logs) : Genuine(tx.logs[j], emitted)
      BY DEF CoreInv, LoanTypeOK, HistoryInv
    <3>2. r.count \in Nat
      <4> HIDE DEF tx
      <4> QED BY <3>1, AdmissionInv DEF CoreInv
    <3>3. /\ r.count # 0 /\ stateVersion' = stateVersion + r.count
          /\ policyVersion' = policyVersion
      BY <2>1 DEF SubmitSourceTransaction
    <3> HIDE DEF r
    <3> QED BY <3>2, <3>3 DEF CoreInv, GateTypeOK
  <2>4. stateVersion' \in Nat
    BY <2>2 DEF CoreInv, GateTypeOK
  <2>5. WholeInv'
    BY <1>2, <2>1, RelayWhole DEF Relay
  <2> QED BY <1>2, <2>2, <2>3, <2>4, <2>5, QuoteKept DEF Relay
<1>3. ASSUME NEW q \in Quotes, Evaluate(q) PROVE IInv'
  <2>1. PICK requested \in Uint : /\ ~Panics(requested)
                                  /\ quote' = [quote EXCEPT ![q] = Decision(requested)]
    BY <1>3 DEF Evaluate
  <2>2. CoreInv' /\ UNCHANGED gateVars
    BY <1>3 DEF Evaluate, CoreInv, loanVars, gateVars, LoanTypeOK, HistoryInv,
                GateTypeOK, UtilizationFits, Utilization
  <2>3. Decision(requested) \in DecisionView
    BY <2>1, EvaluateQuote
  <2>4. /\ Decision(requested).stateVersion = stateVersion
        /\ Decision(requested).policyVersion = policyVersion
        /\ Decision(requested).requested = requested
        /\ stateVersion \in Nat /\ policyVersion \in Nat
    BY DEF Decision, CoreInv, GateTypeOK
  <2>5. \A x : Decision(x)' = Decision(x)
    BY <2>2 DEF Decision, gateVars, Utilization, Headroom
  <2>6. quote' \in [Quotes -> {NoDecision} \cup DecisionView]
    BY <2>1, <2>3 DEF QuoteInv
  <2>7. ASSUME NEW p \in Quotes, quote'[p] # NoDecision
        PROVE  /\ quote'[p].stateVersion <= stateVersion'
               /\ quote'[p].policyVersion <= policyVersion'
               /\ quote'[p].stateVersion = stateVersion'
                  /\ quote'[p].policyVersion = policyVersion'
                  => quote'[p] = Decision(quote'[p].requested)
    <3>1. stateVersion' = stateVersion /\ policyVersion' = policyVersion
      BY <2>2 DEF gateVars
    <3>2. CASE p = q
      <4>1. quote'[p] = Decision(requested)
        BY <2>1, <3>2 DEF QuoteInv
      <4> QED BY <2>4, <3>1, <4>1
    <3>3. CASE p # q
      <4>1. quote'[p] = quote[p]
        BY <2>1, <3>3 DEF QuoteInv
      <4> QED BY <2>7, <3>1, <4>1 DEF QuoteInv, VersionsPinDecision
    <3> QED BY <3>2, <3>3
  <2>8. QuoteInv'
    BY <2>5, <2>6, <2>7 DEF QuoteInv, VersionsPinDecision
  <2>9. WholeInv'
    BY <1>3, WholeKept DEF Evaluate, loanVars, gateVars
  <2> QED BY <2>2, <2>8, <2>9
<1>4. ASSUME NEW q \in Quotes, Commit(q) PROVE IInv'
  <2>1. PICK requested \in Uint :
          CommitCredit(requested, quote[q].stateVersion, quote[q].policyVersion)
    BY <1>4 DEF Commit
  <2>2. CoreInv'
    BY <1>4, <2>1, CommitStep DEF Commit
  <2>3. stateVersion' = stateVersion + 1 /\ policyVersion' = policyVersion
    BY <2>1 DEF CommitCredit
  <2>4. WholeInv'
    BY <1>4, <2>1, WholeKept DEF Commit, CommitCredit, loanVars
  <2> QED BY <1>4, <2>2, <2>3, <2>4, QuoteKept DEF Commit, CoreInv, GateTypeOK
<1>5. CASE ChangePolicy
  <2>1. CoreInv'
    BY <1>5, PolicyStep DEF ChangePolicy
  <2>2. policyVersion' = policyVersion + 1 /\ stateVersion' = stateVersion
    BY <1>5 DEF ChangePolicy, SetPolicy
  <2>3. WholeInv'
    BY <1>5, WholeKept DEF ChangePolicy, SetPolicy, loanVars
  <2> QED BY <1>5, <2>1, <2>2, <2>3, QuoteKept DEF ChangePolicy, CoreInv, GateTypeOK
<1>6. CASE UNCHANGED vars
  <2>1. CoreInv'
    BY <1>6 DEF vars, CoreInv, loanVars, gateVars, LoanTypeOK, HistoryInv,
                GateTypeOK, UtilizationFits, Utilization
  <2>2. WholeInv'
    BY <1>6, WholeKept DEF vars, loanVars, gateVars
  <2> QED BY <1>6, <2>1, <2>2, QuoteKept DEF vars
<1> QED BY <1>1, <1>2, <1>3, <1>4, <1>5, <1>6 DEF Next

(* The inductive invariant holds in every reachable state. *)
THEOREM Invariant == Spec => []IInv
<1> QED BY InvInit, InvStep, PTL DEF Spec

(* Loan, gate and decisions keep their types: no sum leaves uint256. *)
THEOREM TypeCorrect == Spec => []TypeOK
<1>1. IInv => TypeOK
  BY DEF IInv, CoreInv, QuoteInv, TypeOK
<1> QED BY <1>1, Invariant, PTL

(* The safety constraint of docs/SPEC.md: whatever proofs are withheld,     *)
(* repeated or reordered, the gate's debt is at least the loan's.           *)
THEOREM DebtNeverUnderstated == Spec => []NeverUnderstated
<1>1. ASSUME IInv PROVE NeverUnderstated
  <2>1. SUFFICES ASSUME mirror.initialized PROVE loan.outstanding <= mirror.verifiedDebt
    BY DEF NeverUnderstated
  <2>2. /\ mirror.lastSequence \in 1..Len(emitted)
        /\ mirror.verifiedDebt = emitted[mirror.lastSequence].outstanding
    BY <1>1, <2>1 DEF IInv, CoreInv, MirrorOK
  <2> QED BY <1>1, <2>2 DEF IInv, CoreInv, HistoryInv
<1> QED BY <1>1, Invariant, PTL

(* A receipt is admitted whole or not at all: the keys the gate holds are    *)
(* those of the receipts whose debt logs it has applied, all of them.        *)
THEOREM WholeOrNotAtAll == Spec => []AdmittedWhole
<1>1. ASSUME IInv PROVE AdmittedWhole
  <2> SUFFICES ASSUME NEW i \in 1..Len(receipts),
                      NEW l \in 1..Len(receipts[i].logs),
                      Applicable(receipts[i].logs[l])
               PROVE  Key(receipts[i]) \in processedQueries <=>
                        \A j \in 1..Len(receipts[i].logs) :
                          Applicable(receipts[i].logs[j]) =>
                            receipts[i].logs[j].sequence <= mirror.lastSequence
    BY DEF AdmittedWhole, Key
  <2>1. ASSUME NEW j \in 1..Len(receipts[i].logs), Applicable(receipts[i].logs[j])
        PROVE  Key(receipts[i]) \in processedQueries <=>
                 receipts[i].logs[j].sequence <= mirror.lastSequence
    <3>1. receipts[i].logs[j].sequence \in SequencesOf(receipts[i].logs)
      BY <2>1, SequenceMember
    <3> QED BY <1>1, <3>1 DEF IInv, WholeInv
  <2> QED BY <2>1
<1> QED BY <1>1, Invariant, PTL

(* Two current versions identify the gate state a decision was made in.     *)
THEOREM DecisionsPinned == Spec => []VersionsPinDecision
<1>1. IInv => VersionsPinDecision
  BY DEF IInv, QuoteInv
<1> QED BY <1>1, Invariant, PTL

(* The sum of debt and committed credit never overflows.                    *)
THEOREM UtilizationBounded == Spec => []UtilizationFits
<1>1. IInv => UtilizationFits
  BY DEF IInv, CoreInv
<1> QED BY <1>1, Invariant, PTL

(* A commit is covered by the limit with the loan's true debt, proven or not. *)
THEOREM CommitsCovered == Spec => CommitsCoverTrueDebt
<1>1. ASSUME IInv, [Next]_vars, committedCredit' # committedCredit
      PROVE  loan.outstanding + committedCredit' <= creditLimit
  <2>1. PICK q \in Quotes : Commit(q)
    BY <1>1 DEF Next, Source, Relay, SubmitSourceTransaction, Evaluate, ChangePolicy,
                SetPolicy, vars, gateVars
  <2>2. PICK requested \in Uint :
          /\ mirror.initialized /\ requested # 0 /\ requested <= Headroom
          /\ committedCredit' = committedCredit + requested
    BY <2>1 DEF Commit, CommitCredit
  <2>3. /\ mirror.verifiedDebt \in Nat /\ committedCredit \in Nat
        /\ creditLimit \in Nat /\ loan.outstanding \in Nat
    BY <1>1, MaxUintAssumption
       DEF IInv, CoreInv, GateTypeOK, LoanTypeOK, Mirror, Uint
  <2>4. requested \in Nat
    BY MaxUintAssumption DEF Uint
  <2>5. loan.outstanding <= mirror.verifiedDebt
    <3>1. /\ mirror.lastSequence \in 1..Len(emitted)
          /\ mirror.verifiedDebt = emitted[mirror.lastSequence].outstanding
      BY <1>1, <2>2 DEF IInv, CoreInv, MirrorOK
    <3> QED BY <1>1, <3>1 DEF IInv, CoreInv, HistoryInv
  <2> QED BY <2>2, <2>3, <2>4, <2>5 DEF Headroom, Utilization
<1> QED BY <1>1, Invariant, PTL DEF Spec, CommitsCoverTrueDebt

(* Emitting a debt log extends the source's history by one state.            *)
LEMMA HistoryExtended ==
  ASSUME CoreInv, CoreInv', NEW e, emitted' = Append(emitted, e), mirror' = mirror
  PROVE  Replica!Publish
<1>1. /\ emitted \in Seq(DebtLog) /\ emitted' \in Seq(DebtLog)
      /\ Len(emitted') = Len(emitted) + 1 /\ Len(emitted) \in Nat
      /\ \A s \in 1..Len(emitted) : emitted'[s] = emitted[s]
  BY DEF CoreInv, LoanTypeOK
<1>2. /\ Len(SourceHistory) = Len(emitted)
      /\ Len(SourceHistory') = Len(emitted')
  BY <1>1 DEF SourceHistory
<1>3. ASSUME NEW s \in 1..Len(emitted) PROVE SourceHistory'[s] = SourceHistory[s]
  BY <1>1 DEF SourceHistory
<1> QED BY <1>1, <1>2, <1>3 DEF Replica!Publish, GateView

(* Refinement: the gate is a lagged replica of the loan.                    *)
THEOREM Prefix == Spec => MirrorsAPrefix
<1>1. Init => Replica!Init
  BY DEF Init, LoanInit, GateInit, Replica!Init, SourceHistory, GateView, Nothing
<1>2. ASSUME IInv, IInv', [Next]_vars PROVE [Replica!Next]_(Replica!replicaVars)
  <2> USE DEF IInv
  <2>1. CASE Source
    <3>1. CASE UNCHANGED emitted
      BY <1>2, <2>1, <3>1
         DEF Source, gateVars, Replica!replicaVars, SourceHistory, GateView
    <3>2. ASSUME NEW amount \in Uint, OpenDebt(amount) \/ RepayDebt(amount)
          PROVE  Replica!Next
      <4>1. PICK e : emitted' = Append(emitted, e)
        BY <3>2 DEF OpenDebt, RepayDebt, Emit
      <4> QED BY <1>2, <2>1, <4>1, HistoryExtended DEF Source, gateVars, Replica!Next
    <3> QED BY <2>1, <3>1, <3>2
            DEF Source, LoanNext, EmitForeignLog, EndTransaction,
                RevertedTransaction, Finish, MineBlock
  <2>2. CASE Relay
    <3>1. PICK k \in 1..Len(receipts) : SubmitSourceTransaction(receipts[k])
      BY <2>2 DEF Relay
    <3>2. /\ mirror'.initialized
          /\ mirror'.lastSequence \in (mirror.lastSequence + 1)..Len(emitted)
          /\ emitted' = emitted
      BY <1>2, <2>2, <3>1, RelayStep DEF Relay, loanVars
    <3> DEFINE n == mirror'.lastSequence
    <3>3. /\ n \in 1..Len(emitted)
          /\ mirror'.principalOpened = emitted[1].amount
          /\ mirror'.totalRepaid = emitted[n].cumulativeRepaid
          /\ mirror'.verifiedDebt = emitted[n].outstanding
      BY <1>2, <3>2 DEF CoreInv, MirrorOK
    <3>4. /\ SourceHistory' = SourceHistory /\ Len(SourceHistory) = Len(emitted)
      BY <1>2, <3>2 DEF SourceHistory, CoreInv, LoanTypeOK
    <3>5. GateView' = SourceHistory[n]
      BY <3>3 DEF SourceHistory, GateView
    <3> QED BY <3>2, <3>4, <3>5 DEF Replica!Next, Replica!CatchUp
  <2>3. CASE UNCHANGED <<emitted, mirror>>
    BY <2>3 DEF Replica!replicaVars, SourceHistory, GateView
  <2> QED BY <1>2, <2>1, <2>2, <2>3
          DEF Next, Evaluate, Commit, CommitCredit, ChangePolicy, SetPolicy,
              vars, loanVars, gateVars
<1> QED BY <1>1, <1>2, Invariant, PTL DEF Spec, MirrorsAPrefix, Replica!Safe
=============================================================================
