-------------------------- MODULE AggregateProofs --------------------------
(***************************************************************************)
(* Sources and ledger, for any number of sources, loans, aliases and       *)
(* transactions, and every width of the integers; the gate over them, its  *)
(* page of reports, and the scenario run against them.                     *)
(***************************************************************************)
EXTENDS AggregateCredit, Phase2Scenario, DataLemmas, SequenceTheorems

Event == [loanId : LoanIds, loan : Loan]

LEMMA Numbers ==
  /\ Uint \subseteq Nat /\ 0 \in Uint
  /\ \A n \in Nat : n <= MaxUint => n \in Uint
BY MaxUintAssumption DEF Uint

LEMMA NoLoanType == NoLoan \in Loan
BY Numbers DEF NoLoan, Loan

-----------------------------------------------------------------------------
(* Least and greatest elements. *)
LEMMA MinIs ==
  ASSUME NEW S \in SUBSET Int, NEW m \in S, \A x \in S : m <= x
  PROVE  Min(S) = m
<1>1. \A x \in S : (\A y \in S : x <= y) => x = m
  OBVIOUS
<1> QED BY <1>1 DEF Min

LEMMA MinOfNat ==
  ASSUME NEW S \in SUBSET Nat, S # {}
  PROVE  Min(S) \in S /\ \A x \in S : Min(S) <= x
BY LeastNatural DEF Min

LEMMA MaxIs ==
  ASSUME NEW S \in SUBSET Int, NEW m \in S, \A x \in S : x <= m
  PROVE  Max(S) = m
<1>1. \A x \in S : (\A y \in S : x >= y) => x = m
  OBVIOUS
<1> QED BY <1>1 DEF Max

LEMMA MaxOfIndices ==
  ASSUME NEW n \in Nat, NEW S \in SUBSET (1..n), S # {}
  PROVE  Max(S) \in S /\ \A x \in S : x <= Max(S)
<1> DEFINE T == {n - x : x \in S}
<1>1. T \in SUBSET Nat /\ T # {}
  <2>1. \A x \in S : n - x \in Nat
    OBVIOUS
  <2> QED BY <2>1
<1>2. PICK t \in T : \A u \in T : t <= u
  BY <1>1, LeastNatural
<1>3. PICK m \in S : t = n - m
  BY <1>2
<1>4. \A x \in S : x <= m
  BY <1>2, <1>3
<1> HIDE DEF T
<1>5. Max(S) = m
  BY <1>4, MaxIs
<1> QED BY <1>4, <1>5

-----------------------------------------------------------------------------
(* What a history tells, one event after the other. *)
LEMMA Appended ==
  ASSUME NEW h \in History, NEW e \in Event
  PROVE  /\ Append(h, e) \in History
         /\ Len(h) \in Nat /\ Len(Append(h, e)) = Len(h) + 1
         /\ \A k \in 1..Len(h) : Append(h, e)[k] = h[k]
         /\ Append(h, e)[Len(h) + 1] = e
BY DEF History, Event

LEMMA EventOf ==
  ASSUME NEW h \in History, NEW k \in 1..Len(h)
  PROVE  h[k] \in Event /\ h[k].loanId \in LoanIds /\ h[k].loan \in Loan
<1>1. h \in Seq(Event)
  BY DEF History, Event
<1>2. h[k] \in Event
  BY <1>1
<1> QED BY <1>2 DEF Event

LEMMA EventsAppend ==
  ASSUME NEW h \in History, NEW e \in Event, NEW id
  PROVE  EventsOf(Append(h, e), id) =
           IF e.loanId = id THEN EventsOf(h, id) \cup {Len(h) + 1}
                            ELSE EventsOf(h, id)
<1> DEFINE g == Append(h, e)
<1>1. /\ Len(h) \in Nat /\ Len(g) = Len(h) + 1
      /\ \A k \in 1..Len(h) : g[k] = h[k]
      /\ g[Len(h) + 1] = e
  BY Appended
<1> HIDE DEF g
<1>2. ASSUME NEW k
      PROVE  k \in 1..Len(g) <=> k \in 1..Len(h) \/ k = Len(h) + 1
  BY <1>1
<1>3. Len(h) + 1 \notin 1..Len(h)
  BY <1>1
<1>4. ASSUME NEW k
      PROVE  k \in EventsOf(g, id) <=>
               k \in EventsOf(h, id) \/ (k = Len(h) + 1 /\ e.loanId = id)
  BY <1>1, <1>2, <1>3 DEF EventsOf
<1> QED BY <1>4 DEF g

LEMMA LoanAfterLast ==
  ASSUME NEW h \in History, NEW id, EventsOf(h, id) # {}
  PROVE  /\ Max(EventsOf(h, id)) \in 1..Len(h)
         /\ h[Max(EventsOf(h, id))].loanId = id
         /\ LoanAfter(h, id) = h[Max(EventsOf(h, id))].loan
<1>1. EventsOf(h, id) \in SUBSET (1..Len(h)) /\ Len(h) \in Nat
  BY DEF EventsOf, History
<1>2. Max(EventsOf(h, id)) \in EventsOf(h, id)
  BY <1>1, MaxOfIndices
<1> QED BY <1>2 DEF EventsOf, LoanAfter

LEMMA LoanAfterType ==
  ASSUME NEW h \in History, NEW id
  PROVE  LoanAfter(h, id) \in Loan
<1>1. CASE EventsOf(h, id) = {}
  BY <1>1, NoLoanType DEF LoanAfter
<1>2. CASE EventsOf(h, id) # {}
  BY <1>2, EventOf, LoanAfterLast
<1> QED BY <1>1, <1>2

LEMMA LoanAfterAppend ==
  ASSUME NEW h \in History, NEW e \in Event, NEW id
  PROVE  LoanAfter(Append(h, e), id) =
           IF id = e.loanId THEN e.loan ELSE LoanAfter(h, id)
<1> DEFINE g == Append(h, e)
           n == Len(h) + 1
           E == EventsOf(h, id)
<1>1. /\ Len(h) \in Nat /\ g[n] = e /\ g \in History
      /\ \A k \in 1..Len(h) : g[k] = h[k]
  BY Appended
<1>2. E \in SUBSET (1..Len(h))
  BY DEF EventsOf
<1>3. EventsOf(g, id) = IF e.loanId = id THEN E \cup {n} ELSE E
  BY EventsAppend
<1> HIDE DEF g, E
<1>4. CASE id = e.loanId
  <2>1. EventsOf(g, id) = E \cup {n}
    BY <1>3, <1>4
  <2>2. /\ E \cup {n} \in SUBSET Int /\ n \in E \cup {n}
        /\ \A x \in E \cup {n} : x <= n
    <3>1. \A x \in E : x \in Int /\ x <= n
      BY <1>1, <1>2
    <3> QED BY <1>1, <3>1
  <2>3. Max(E \cup {n}) = n
    BY <2>2, MaxIs
  <2> QED BY <1>1, <1>4, <2>1, <2>3 DEF LoanAfter, g
<1>5. CASE id # e.loanId
  <2>1. EventsOf(g, id) = E
    BY <1>3, <1>5
  <2>2. CASE E = {}
    BY <1>5, <2>1, <2>2 DEF LoanAfter, g, E
  <2>3. CASE E # {}
    <3>1. Max(E) \in 1..Len(h)
      BY <1>1, <1>2, <2>3, MaxOfIndices
    <3> QED BY <1>1, <1>5, <2>1, <2>3, <3>1 DEF LoanAfter, g, E
  <2> QED BY <2>2, <2>3
<1> QED BY <1>4, <1>5

(* The loans a history speaks of. *)
LoanIdsOf(h) == {h[k].loanId : k \in 1..Len(h)}

LEMMA CountAppend ==
  ASSUME NEW h \in History, NEW e \in Event
  PROVE  Cardinality(LoanIdsOf(Append(h, e))) =
           Cardinality(LoanIdsOf(h)) + (IF EventsOf(h, e.loanId) = {} THEN 1 ELSE 0)
<1> DEFINE g == Append(h, e)
<1>1. /\ Len(h) \in Nat /\ Len(g) = Len(h) + 1
      /\ \A k \in 1..Len(h) : g[k] = h[k]
      /\ g[Len(h) + 1] = e
  BY Appended
<1>2. LoanIdsOf(h) \subseteq LoanIds
  BY EventOf DEF LoanIdsOf
<1>3. IsFiniteSet(LoanIdsOf(h))
  BY <1>2, SourceConstants, FS_Subset
<1> HIDE DEF g
<1>4. LoanIdsOf(g) = LoanIdsOf(h) \cup {e.loanId}
  <2>1. ASSUME NEW k
        PROVE  k \in 1..Len(g) <=> k \in 1..Len(h) \/ k = Len(h) + 1
    BY <1>1
  <2>2. Len(h) + 1 \notin 1..Len(h)
    BY <1>1
  <2> QED BY <1>1, <2>1, <2>2 DEF LoanIdsOf
<1>5. EventsOf(h, e.loanId) = {} <=> e.loanId \notin LoanIdsOf(h)
  BY DEF EventsOf, LoanIdsOf
<1>6. Cardinality(LoanIdsOf(h)) \in Nat
  BY <1>3, FS_CardinalityType
<1>7. Cardinality(LoanIdsOf(h) \cup {e.loanId}) =
        IF e.loanId \in LoanIdsOf(h) THEN Cardinality(LoanIdsOf(h))
                                     ELSE Cardinality(LoanIdsOf(h)) + 1
  BY <1>3, FS_AddElement
<1> QED BY <1>4, <1>5, <1>6, <1>7 DEF g

(* A sum over the loans moves by what the changed loan moves. *)
LEMMA SumChange ==
  ASSUME NEW f \in [LoanIds -> Nat], NEW g \in [LoanIds -> Nat], NEW x \in LoanIds,
         \A y \in LoanIds \ {x} : g[y] = f[y]
  PROVE  /\ SumOf(f) \in Nat /\ SumOf(g) \in Nat
         /\ f[x] <= SumOf(f)
         /\ SumOf(g) + f[x] = SumOf(f) + g[x]
<1>1. /\ SumOf(f) = SumFunctionOnSet(f, LoanIds)
      /\ SumOf(g) = SumFunctionOnSet(g, LoanIds)
  BY SumOfFunction DEF SumOf
<1>2. IsFiniteSet(LoanIds)
  BY SourceConstants
<1>3. \A y \in LoanIds : f[y] \in Nat /\ g[y] \in Nat
  OBVIOUS
<1>4. SumFunctionOnSet(f, LoanIds) \in Nat /\ SumFunctionOnSet(g, LoanIds) \in Nat
  BY <1>2, <1>3, SumNat
<1>5. f[x] <= SumFunctionOnSet(f, LoanIds)
  BY <1>2, <1>3, SumBounds
<1>6. SumFunctionOnSet(g, LoanIds) + (IF x \in LoanIds THEN f[x] ELSE 0)
        = SumFunctionOnSet(f, LoanIds) + (IF x \in LoanIds THEN g[x] ELSE 0)
  BY <1>2, <1>3, SumOneChange
<1> QED BY <1>1, <1>4, <1>5, <1>6

LEMMA AmountsType ==
  ASSUME NEW loanOf \in [LoanIds -> Loan]
  PROVE  /\ [id \in LoanIds |-> loanOf[id].principal] \in [LoanIds -> Nat]
         /\ [id \in LoanIds |-> loanOf[id].repaid] \in [LoanIds -> Nat]
<1>1. \A id \in LoanIds : loanOf[id].principal \in Nat /\ loanOf[id].repaid \in Nat
  BY Numbers DEF Loan
<1> QED BY <1>1

(* One more event in a source's books, or in the ledger's view of them. *)
Records(loanOf, totals, e, loanOf2, totals2) ==
  LET before == loanOf[e.loanId]
  IN  /\ loanOf2 = [loanOf EXCEPT ![e.loanId] = e.loan]
      /\ totals2.loanCount
           = totals.loanCount + (IF before.sequence = 0 THEN 1 ELSE 0)
      /\ totals2.totalIssued \in Nat /\ totals2.totalRepaid \in Nat
      /\ totals2.totalIssued + before.principal = totals.totalIssued + e.loan.principal
      /\ totals2.totalRepaid + before.repaid = totals.totalRepaid + e.loan.repaid

(* Whoever records one more event as the source does shows the source after *)
(* that event.                                                              *)
LEMMA ViewAppend ==
  ASSUME NEW h \in History, NEW e \in Event,
         \A k \in 1..Len(h) : h[k].loan.sequence # 0,
         NEW loanOf, NEW totals, ViewOf(loanOf, totals) = SourceAfter(h),
         NEW loanOf2, NEW totals2, Records(loanOf, totals, e, loanOf2, totals2)
  PROVE  ViewOf(loanOf2, totals2) = SourceAfter(Append(h, e))
<1> DEFINE g == Append(h, e)
           x == e.loanId
           p == [id \in LoanIds |-> LoanAfter(h, id).principal]
           p2 == [id \in LoanIds |-> LoanAfter(g, id).principal]
           r == [id \in LoanIds |-> LoanAfter(h, id).repaid]
           r2 == [id \in LoanIds |-> LoanAfter(g, id).repaid]
<1>0. /\ loanOf2 = [loanOf EXCEPT ![x] = e.loan]
      /\ totals2.loanCount
           = totals.loanCount + (IF loanOf[x].sequence = 0 THEN 1 ELSE 0)
      /\ totals2.totalIssued \in Nat /\ totals2.totalRepaid \in Nat
      /\ totals2.totalIssued + loanOf[x].principal
           = totals.totalIssued + e.loan.principal
      /\ totals2.totalRepaid + loanOf[x].repaid = totals.totalRepaid + e.loan.repaid
  BY DEF Records
<1>1. /\ loanOf = [id \in LoanIds |-> LoanAfter(h, id)]
      /\ totals.loanCount = Cardinality(LoanIdsOf(h))
      /\ totals.totalIssued = SumOf(p)
      /\ totals.totalRepaid = SumOf(r)
  BY DEF ViewOf, SourceAfter, LoanIdsOf, SumOf
<1>2. x \in LoanIds /\ e.loan \in Loan /\ g \in History
  BY Appended DEF Event
<1>3. \A id \in LoanIds : LoanAfter(h, id) \in Loan /\ LoanAfter(g, id) \in Loan
  BY <1>2, LoanAfterType
<1>4. \A id \in LoanIds :
        LoanAfter(g, id) = IF id = x THEN e.loan ELSE LoanAfter(h, id)
  BY LoanAfterAppend
<1>5. loanOf2 = [id \in LoanIds |-> LoanAfter(g, id)]
  BY <1>0, <1>1, <1>2, <1>4
<1>6. totals2.loanCount = Cardinality(LoanIdsOf(g))
  <2>1. loanOf[x].sequence = 0 <=> EventsOf(h, x) = {}
    <3>1. loanOf[x] = LoanAfter(h, x)
      BY <1>1, <1>2
    <3>2. CASE EventsOf(h, x) = {}
      BY <3>1, <3>2 DEF LoanAfter, NoLoan
    <3>3. CASE EventsOf(h, x) # {}
      BY <3>1, <3>3, LoanAfterLast
    <3> QED BY <3>2, <3>3
  <2>2. Cardinality(LoanIdsOf(g)) =
           Cardinality(LoanIdsOf(h)) + (IF EventsOf(h, x) = {} THEN 1 ELSE 0)
    BY CountAppend
  <2> QED BY <1>0, <1>1, <2>1, <2>2
<1>7. /\ p \in [LoanIds -> Nat] /\ p2 \in [LoanIds -> Nat]
      /\ r \in [LoanIds -> Nat] /\ r2 \in [LoanIds -> Nat]
  <2>1. \A id \in LoanIds :
          /\ LoanAfter(h, id).principal \in Nat /\ LoanAfter(g, id).principal \in Nat
          /\ LoanAfter(h, id).repaid \in Nat /\ LoanAfter(g, id).repaid \in Nat
    BY <1>3, Numbers DEF Loan
  <2> HIDE DEF g
  <2> QED BY <2>1
<1>8. /\ p[x] = loanOf[x].principal /\ p2[x] = e.loan.principal
      /\ r[x] = loanOf[x].repaid /\ r2[x] = e.loan.repaid
      /\ \A y \in LoanIds \ {x} : p2[y] = p[y] /\ r2[y] = r[y]
  BY <1>1, <1>2, <1>4
<1> HIDE DEF p, p2, r, r2, g, x
<1>9. /\ SumOf(p2) \in Nat
      /\ SumOf(p2) + p[x] = SumOf(p) + p2[x]
  BY <1>2, <1>7, <1>8, SumChange
<1>10. /\ SumOf(r2) \in Nat
       /\ SumOf(r2) + r[x] = SumOf(r) + r2[x]
  BY <1>2, <1>7, <1>8, SumChange
<1>11. p[x] \in Nat /\ r[x] \in Nat
  BY <1>2, <1>7
<1>12. totals2.totalIssued + p[x] = SumOf(p2) + p[x]
  BY <1>0, <1>1, <1>8, <1>9 DEF x
<1>13. totals2.totalRepaid + r[x] = SumOf(r2) + r[x]
  BY <1>0, <1>1, <1>8, <1>10 DEF x
<1>14. totals2.totalIssued = SumOf(p2)
  BY <1>0, <1>9, <1>11, <1>12
<1>15. totals2.totalRepaid = SumOf(r2)
  BY <1>0, <1>10, <1>11, <1>13
<1> QED BY <1>5, <1>6, <1>14, <1>15 DEF ViewOf, SourceAfter, LoanIdsOf, SumOf, p2, r2, g

-----------------------------------------------------------------------------
(* Steps of the source chain. *)
LEMMA BalancedAmounts ==
  ASSUME NEW loan \in Loan, Balanced(loan)
  PROVE  /\ loan.principal \in Nat /\ loan.repaid \in Nat /\ loan.outstanding \in Nat
         /\ loan.repaid <= loan.principal
<1>1. loan.principal \in Nat /\ loan.repaid \in Nat /\ loan.outstanding \in Nat
  BY Numbers DEF Loan
<1> QED BY <1>1 DEF Balanced

(* The totals of a source are those of its loans, and they stay in Uint. *)
LEMMA TotalsOfView ==
  ASSUME NEW loanOf \in [LoanIds -> Loan], NEW totals, NEW h \in History,
         ViewOf(loanOf, totals) = SourceAfter(h)
  PROVE  /\ loanOf = [id \in LoanIds |-> LoanAfter(h, id)]
         /\ totals.loanCount \in Nat
         /\ totals.totalIssued = SumOf([id \in LoanIds |-> loanOf[id].principal])
         /\ totals.totalRepaid = SumOf([id \in LoanIds |-> loanOf[id].repaid])
<1>1. /\ loanOf = [id \in LoanIds |-> LoanAfter(h, id)]
      /\ totals.loanCount = Cardinality(LoanIdsOf(h))
      /\ totals.totalIssued = SumOf([id \in LoanIds |-> LoanAfter(h, id).principal])
      /\ totals.totalRepaid = SumOf([id \in LoanIds |-> LoanAfter(h, id).repaid])
  BY DEF ViewOf, SourceAfter, LoanIdsOf, SumOf
<1>2. /\ [id \in LoanIds |-> LoanAfter(h, id).principal]
           = [id \in LoanIds |-> loanOf[id].principal]
      /\ [id \in LoanIds |-> LoanAfter(h, id).repaid]
           = [id \in LoanIds |-> loanOf[id].repaid]
  BY <1>1
<1>3. LoanIdsOf(h) \subseteq LoanIds
  BY EventOf DEF LoanIdsOf
<1>4. Cardinality(LoanIdsOf(h)) \in Nat
  BY <1>3, SourceConstants, FS_Subset, FS_CardinalityType
<1> QED BY <1>1, <1>2, <1>4

LEMMA SumOfMonotone ==
  ASSUME NEW f \in [LoanIds -> Nat], NEW g \in [LoanIds -> Nat],
         \A id \in LoanIds : f[id] <= g[id]
  PROVE  SumOf(f) \in Nat /\ SumOf(g) \in Nat /\ SumOf(f) <= SumOf(g)
<1>1. /\ SumOf(f) = SumFunctionOnSet(f, LoanIds)
      /\ SumOf(g) = SumFunctionOnSet(g, LoanIds)
  BY SumOfFunction DEF SumOf
<1>2. \A id \in LoanIds : f[id] \in Nat /\ g[id] \in Nat /\ f[id] <= g[id]
  OBVIOUS
<1>3. IsFiniteSet(LoanIds)
  BY SourceConstants
<1>4. SumFunctionOnSet(f, LoanIds) \in Nat /\ SumFunctionOnSet(g, LoanIds) \in Nat
  BY <1>2, <1>3, SumNat
<1>5. SumFunctionOnSet(f, LoanIds) <= SumFunctionOnSet(g, LoanIds)
  BY <1>2, <1>3, SumMonotone
<1> QED BY <1>1, <1>4, <1>5

LEMMA RepaidFits ==
  ASSUME NEW loanOf \in [LoanIds -> Loan], NEW totals, NEW h \in History,
         ViewOf(loanOf, totals) = SourceAfter(h),
         \A id \in LoanIds : Balanced(loanOf[id])
  PROVE  /\ totals.totalIssued \in Nat /\ totals.totalRepaid \in Nat
         /\ totals.totalRepaid <= totals.totalIssued
<1> DEFINE p == [id \in LoanIds |-> loanOf[id].principal]
           r == [id \in LoanIds |-> loanOf[id].repaid]
<1>1. p \in [LoanIds -> Nat] /\ r \in [LoanIds -> Nat]
  BY AmountsType
<1>2. \A id \in LoanIds : r[id] <= p[id]
  BY BalancedAmounts
<1>3. totals.totalIssued = SumOf(p) /\ totals.totalRepaid = SumOf(r)
  BY TotalsOfView
<1> HIDE DEF p, r
<1> QED BY <1>1, <1>2, <1>3, SumOfMonotone

(* A source that records one more event, as _emitState does. *)
LEMMA SourceRecords ==
  ASSUME NEW loanOf \in [LoanIds -> Loan], NEW book, book.totals \in Totals,
         SourceFits(loanOf, book),
         NEW e \in Event, e.loan.eventSequence = book.totals.eventCount + 1,
         e.loan.sequence # 0, Balanced(e.loan),
         loanOf[e.loanId].sequence # 0 => Follows(e.loan, loanOf[e.loanId]),
         NEW loanOf2, NEW book2, book2.epoch = book.epoch,
         book2.totals.eventCount = book.totals.eventCount + 1,
         book2.totals.historyRoot = Append(book.totals.historyRoot, e),
         Records(loanOf, book.totals, e, loanOf2, book2.totals)
  PROVE  SourceFits(loanOf2, book2)
<1> DEFINE h == book.totals.historyRoot
           g == Append(h, e)
<1>1. h \in History /\ e.loanId \in LoanIds /\ e.loan \in Loan
  BY DEF Totals, Event
<1>2. /\ Len(h) \in Nat /\ Len(g) = Len(h) + 1 /\ g \in History
      /\ \A k \in 1..Len(h) : g[k] = h[k]
      /\ g[Len(h) + 1] = e
  BY <1>1, Appended
<1>3. /\ ViewOf(loanOf, book.totals) = SourceAfter(h)
      /\ book.totals.eventCount = Len(h) /\ book.epoch <= MaxEpoch
      /\ \A id \in LoanIds : Balanced(loanOf[id])
      /\ \A k \in 1..Len(h) : /\ h[k].loan.eventSequence = k
                              /\ Follows(loanOf[h[k].loanId], h[k].loan)
  BY DEF SourceFits
<1>4. ViewOf(loanOf2, book2.totals) = SourceAfter(g)
  <2>1. \A k \in 1..Len(h) : h[k].loan.sequence # 0
    BY <1>3 DEF Follows
  <2> HIDE DEF h, g
  <2> QED BY <1>1, <1>3, <2>1, ViewAppend DEF g
<1> loanOf2 = [loanOf EXCEPT ![e.loanId] = e.loan]
  BY DEF Records
<1>5. \A id \in LoanIds : Balanced(loanOf2[id])
  BY <1>3
<1>6. ASSUME NEW k \in 1..Len(g)
      PROVE  /\ g[k].loan.eventSequence = k
             /\ Follows(loanOf2[g[k].loanId], g[k].loan)
  <2>1. CASE k = Len(h) + 1
    <3>1. g[k] = e /\ loanOf2[e.loanId] = e.loan
      BY <1>1, <1>2, <2>1
    <3>2. e.loan.repaid \in Nat /\ e.loan.outstanding \in Nat
      BY <1>1, BalancedAmounts
    <3> HIDE DEF h, g
    <3> QED BY <1>3, <2>1, <3>1, <3>2 DEF Follows
  <2>2. CASE k # Len(h) + 1
    <3>1. k \in 1..Len(h) /\ g[k] = h[k]
      BY <1>2, <2>2
    <3>2. h[k].loanId \in LoanIds /\ h[k].loan \in Loan
      BY <1>1, <3>1, EventOf
    <3> HIDE DEF h, g
    <3>3. CASE h[k].loanId = e.loanId
      <4>1. /\ Follows(loanOf[e.loanId], h[k].loan) /\ loanOf2[e.loanId] = e.loan
            /\ loanOf[e.loanId] \in Loan
        BY <1>1, <1>3, <3>1, <3>3
      <4>2. Follows(e.loan, loanOf[e.loanId])
        BY <4>1 DEF Follows
      <4>3. Follows(e.loan, h[k].loan)
        <5>1. /\ h[k].loan.repaid \in Nat /\ h[k].loan.outstanding \in Nat
              /\ e.loan.repaid \in Nat /\ e.loan.outstanding \in Nat
              /\ loanOf[e.loanId].repaid \in Nat /\ loanOf[e.loanId].outstanding \in Nat
          BY <1>1, <3>2, <4>1, Numbers DEF Loan
        <5> QED BY <4>1, <4>2, <5>1 DEF Follows
      <4> QED BY <1>3, <3>1, <3>3, <4>1, <4>3
    <3>4. CASE h[k].loanId # e.loanId
      BY <1>3, <3>1, <3>2, <3>4
    <3> QED BY <3>3, <3>4
  <2> QED BY <2>1, <2>2
<1> QED BY <1>2, <1>3, <1>4, <1>5, <1>6 DEF SourceFits

(* What no step of the source chain takes back. *)
Grows(loanOf, book, loanOf2, book2) ==
  LET before == book.totals.historyRoot
      after  == book2.totals.historyRoot
  IN  /\ Len(before) <= Len(after) /\ Len(after) <= Len(before) + 1
      /\ \A k \in 1..Len(before) : after[k] = before[k]
      /\ book.sealedSource =>
           /\ book2.sealedSource
           /\ \A id \in LoanIds :
                loanOf2[id].sequence # 0 => loanOf[id].sequence # 0

SourceGrows ==
  /\ \A s \in Sources : Grows(loans[s], books[s], loans'[s], books'[s])
  /\ Len(receipts) <= Len(receipts')
  /\ \A i \in 1..Len(receipts) : receipts'[i] = receipts[i]

Book == [sealedSource : BOOLEAN, epoch : Nat, totals : Totals]

LEMMA BookOf ==
  ASSUME SourceTypeOK, NEW s \in Sources
  PROVE  /\ loans[s] \in [LoanIds -> Loan] /\ books[s] \in Book
         /\ books[s].totals \in Totals /\ books[s].epoch \in Nat
         /\ books[s].sealedSource \in BOOLEAN
         /\ HistoryOf(s) \in History /\ Len(HistoryOf(s)) \in Nat
<1>1. loans[s] \in [LoanIds -> Loan] /\ books[s] \in Book
  BY DEF SourceTypeOK, Book
<1>2. books[s].totals \in Totals /\ books[s].epoch \in Nat /\ books[s].sealedSource \in BOOLEAN
  BY <1>1 DEF Book
<1>3. HistoryOf(s) \in History
  BY <1>2 DEF Totals, HistoryOf
<1>4. Len(HistoryOf(s)) \in Nat
  BY <1>3 DEF History
<1> QED BY <1>1, <1>2, <1>3, <1>4

LEMMA TotalsFields ==
  ASSUME NEW t \in Totals
  PROVE  /\ t.loanCount \in Nat /\ t.eventCount \in Nat
         /\ t.historyRoot \in History /\ Len(t.historyRoot) \in Nat
         /\ t.totalIssued \in Uint /\ t.totalRepaid \in Uint
<1>1. /\ t.loanCount \in Nat /\ t.eventCount \in Nat /\ t.historyRoot \in History
      /\ t.totalIssued \in Uint /\ t.totalRepaid \in Uint
  BY DEF Totals
<1>2. Len(t.historyRoot) \in Nat
  BY <1>1 DEF History
<1> QED BY <1>1, <1>2

LEMMA TotalsOf ==
  ASSUME NEW a \in Nat, NEW b \in Nat, NEW c \in History, NEW d \in Uint, NEW e \in Uint
  PROVE  [loanCount |-> a, eventCount |-> b, historyRoot |-> c,
          totalIssued |-> d, totalRepaid |-> e] \in Totals
BY DEF Totals

LEMMA LoanOfAmounts ==
  ASSUME NEW loan \in Loan, NEW q \in Nat, NEW n \in Nat, NEW r \in Uint, NEW o \in Uint,
         NEW t \in Nat
  PROVE  /\ [loan EXCEPT !.sequence = q, !.repaid = r, !.outstanding = o] \in Loan
         /\ [loan EXCEPT !.eventSequence = n, !.timestamp = t] \in Loan
BY DEF Loan

LEMMA LogOf ==
  ASSUME NEW log \in Log
  PROVE  /\ log.emitter \in Sources
         /\ log.type \in {"LoanState", "SourceSeal", "Checkpoint"}
         /\ log.type = "LoanState" =>
              log.loanId \in LoanIds /\ log.loan \in Loan
         /\ log.type = "Checkpoint" =>
              /\ log.epoch \in Nat /\ log.totals \in Totals /\ log.timestamp \in Nat
<1>1. CASE log \in [type : {"LoanState"}, emitter : Sources, loanId : LoanIds, loan : Loan]
  BY <1>1
<1>2. CASE log \in [type : {"SourceSeal"}, emitter : Sources]
  BY <1>2
<1>3. CASE log \in [type : {"Checkpoint"}, emitter : Sources, epoch : Nat,
                    totals : Totals, timestamp : Nat, sealedSource : BOOLEAN]
  BY <1>3
<1> QED BY <1>1, <1>2, <1>3 DEF Log

LEMMA GenuineStays ==
  ASSUME NEW log, NEW loanOf, NEW book, NEW loanOf2, NEW book2,
         Len(book.totals.historyRoot) \in Nat, Len(book2.totals.historyRoot) \in Nat,
         Grows(loanOf, book, loanOf2, book2), Genuine(log, loanOf, book)
  PROVE  Genuine(log, loanOf2, book2)
<1> DEFINE h == book.totals.historyRoot
           g == book2.totals.historyRoot
<1>1. /\ Len(h) \in Nat /\ Len(g) \in Nat /\ Len(h) <= Len(g)
      /\ \A k \in 1..Len(h) : g[k] = h[k]
      /\ book.sealedSource =>
            /\ book2.sealedSource
            /\ \A id \in LoanIds : loanOf2[id].sequence # 0 => loanOf[id].sequence # 0
  BY DEF Grows
<1>2. ASSUME log.type = "LoanState"
      PROVE  /\ log.loan.eventSequence \in 1..Len(g)
             /\ g[log.loan.eventSequence] = [loanId |-> log.loanId, loan |-> log.loan]
  <2>1. /\ log.loan.eventSequence \in 1..Len(h)
        /\ h[log.loan.eventSequence] = [loanId |-> log.loanId, loan |-> log.loan]
    BY <1>2 DEF Genuine
  <2> HIDE DEF h, g
  <2> QED BY <1>1, <2>1
<1>3. ASSUME log.type = "Checkpoint"
      PROVE  /\ book2.sealedSource /\ log.epoch <= MaxEpoch
             /\ \A id \in LoanIds : loanOf2[id].sequence # 0
                   => EventsOf(log.totals.historyRoot, id) # {}
  BY <1>1, <1>3 DEF Genuine
<1> QED BY <1>2, <1>3 DEF Genuine

(* Logs emitted earlier stay what their source says. *)
LEMMA LogsStay ==
  ASSUME SourceTypeOK, SourceTypeOK', SourceGrows, NEW logs \in Seq(Log), GenuineLogs(logs)
  PROVE  \A j \in 1..Len(logs) :
           Genuine(logs[j], loans'[logs[j].emitter], books'[logs[j].emitter])
<1> SUFFICES ASSUME NEW j \in 1..Len(logs)
             PROVE  Genuine(logs[j], loans'[logs[j].emitter], books'[logs[j].emitter])
  OBVIOUS
<1>1. logs[j] \in Log
  OBVIOUS
<1> DEFINE s == logs[j].emitter
<1>2. s \in Sources
  BY <1>1, LogOf
<1>3. Genuine(logs[j], loans[s], books[s])
  BY DEF GenuineLogs
<1>4. /\ Len(books[s].totals.historyRoot) \in Nat
      /\ Len(books'[s].totals.historyRoot) \in Nat
  <2>1. books[s].totals \in Totals /\ books'[s].totals \in Totals
    BY <1>2 DEF SourceTypeOK
  <2> QED BY <2>1, TotalsFields
<1>5. Grows(loans[s], books[s], loans'[s], books'[s])
  BY <1>2 DEF SourceGrows
<1> HIDE DEF s
<1>6. Genuine(logs[j], loans'[s], books'[s])
  BY <1>3, <1>4, <1>5, GenuineStays
<1> QED BY <1>6 DEF s

LEMMA LogsAfterEmit ==
  ASSUME SourceTypeOK, SourceTypeOK', LogsInv, SourceGrows, NEW log \in Log, Emit(log),
         Genuine(log, loans'[log.emitter], books'[log.emitter])
  PROVE  LogsInv'
<1>1. /\ txLogs \in Seq(Log) /\ receipts \in Seq(Seq(Log))
      /\ Len(txLogs) < MaxTxLogs /\ txLogs' = Append(txLogs, log)
      /\ receipts' = receipts
  BY DEF SourceTypeOK, Emit
<1>2. /\ Len(txLogs) \in Nat
      /\ Len(txLogs') = Len(txLogs) + 1 /\ txLogs'[Len(txLogs) + 1] = log
      /\ \A j \in 1..Len(txLogs) : txLogs'[j] = txLogs[j]
  BY <1>1
<1>3. ASSUME NEW j \in 1..Len(txLogs')
      PROVE  Genuine(txLogs'[j], loans'[txLogs'[j].emitter], books'[txLogs'[j].emitter])
  <2>1. CASE j = Len(txLogs) + 1
    BY <1>2, <2>1
  <2>2. CASE j # Len(txLogs) + 1
    <3>1. j \in 1..Len(txLogs) /\ txLogs'[j] = txLogs[j]
      BY <1>2, <2>2
    <3> QED BY <1>1, <3>1, LogsStay DEF LogsInv
  <2> QED BY <2>1, <2>2
<1>4. ASSUME NEW i \in 1..Len(receipts)
      PROVE  \A j \in 1..Len(receipts[i]) :
               Genuine(receipts[i][j], loans'[receipts[i][j].emitter],
                       books'[receipts[i][j].emitter])
  <2>1. receipts[i] \in Seq(Log)
    BY <1>1
  <2>2. GenuineLogs(receipts[i])
    BY DEF LogsInv
  <2> QED BY <2>1, <2>2, LogsStay
<1>5. Len(txLogs') <= MaxTxLogs /\ Len(receipts') < MaxTxs
  BY <1>1, <1>2, SourceConstants DEF Emit
<1>6. GenuineLogs(txLogs)'
  BY <1>3 DEF GenuineLogs
<1>7. (\A i \in 1..Len(receipts) : GenuineLogs(receipts[i]))'
  BY <1>1, <1>4 DEF GenuineLogs
<1> QED BY <1>1, <1>5, <1>6, <1>7 DEF LogsInv

LEMMA GrowsNot ==
  ASSUME NEW loanOf, NEW book, NEW loanOf2, NEW book2,
         Len(book.totals.historyRoot) \in Nat,
         loanOf2 = loanOf, book2.totals = book.totals,
         book.sealedSource => book2.sealedSource
  PROVE  Grows(loanOf, book, loanOf2, book2)
BY DEF Grows

(* What a step of the source chain must keep. *)
SourceKept == SourceTypeOK' /\ ChainInv' /\ LogsInv' /\ SourceGrows

(* _emitState, after the caller updated loan and totals. *)
LEMMA StateEmitted ==
  ASSUME SourceTypeOK, ChainInv, LogsInv,
         NEW s \in Sources, NEW id \in LoanIds, NEW loan \in Loan, NEW totals \in Totals,
         EmitState(s, id, loan, totals), loan.sequence # 0, Balanced(loan),
         loans[s][id].sequence # 0 => Follows(loan, loans[s][id]),
         loans[s][id].sequence = 0 => ~books[s].sealedSource,
         totals.eventCount = books[s].totals.eventCount,
         totals.historyRoot = books[s].totals.historyRoot,
         totals.loanCount = books[s].totals.loanCount
                              + (IF loans[s][id].sequence = 0 THEN 1 ELSE 0),
         totals.totalIssued + loans[s][id].principal
           = books[s].totals.totalIssued + loan.principal,
         totals.totalRepaid + loans[s][id].repaid
           = books[s].totals.totalRepaid + loan.repaid
  PROVE  SourceKept
<1> DEFINE stamped == [loan EXCEPT !.eventSequence = totals.eventCount + 1,
                                   !.timestamp = sourceTime]
           e == [loanId |-> id, loan |-> stamped]
           totals2 == [totals EXCEPT !.eventCount = @ + 1,
                                     !.historyRoot = Append(@, e)]
           log == [type |-> "LoanState", emitter |-> s, loanId |-> id, loan |-> stamped]
           h == HistoryOf(s)
<1>1. /\ loans' = [loans EXCEPT ![s][id] = stamped]
      /\ books' = [books EXCEPT ![s].totals = totals2]
      /\ Emit(log)
  BY DEF EmitState
<1>2. /\ totals.eventCount \in Nat /\ totals.loanCount \in Nat
      /\ totals.totalIssued \in Uint /\ totals.totalRepaid \in Uint
      /\ totals.historyRoot \in History
  BY DEF Totals
<1>3. stamped \in Loan
  <2>1. totals.eventCount + 1 \in Nat /\ sourceTime \in Nat
    BY <1>2 DEF SourceTypeOK
  <2> QED BY <2>1 DEF Loan
<1>4. /\ stamped.eventSequence = totals.eventCount + 1 /\ stamped.sequence = loan.sequence
      /\ stamped.principal = loan.principal /\ stamped.repaid = loan.repaid
      /\ stamped.outstanding = loan.outstanding
  BY DEF Loan
<1> HIDE DEF stamped
<1>5. e \in Event /\ log \in Log /\ e.loan = stamped /\ e.loanId = id
  BY <1>3 DEF Event, Log
<1>6. /\ totals2 \in Totals
      /\ totals2.eventCount = totals.eventCount + 1
      /\ totals2.historyRoot = Append(totals.historyRoot, e)
      /\ totals2.loanCount = totals.loanCount
      /\ totals2.totalIssued = totals.totalIssued
      /\ totals2.totalRepaid = totals.totalRepaid
  <2>1. Append(totals.historyRoot, e) \in History
    BY <1>2, <1>5, Appended
  <2>2. totals.eventCount + 1 \in Nat
    BY <1>2
  <2> HIDE DEF e
  <2> QED BY <2>1, <2>2, <1>2 DEF Totals
<1>7. /\ loans[s] \in [LoanIds -> Loan] /\ books[s] \in Book
      /\ h \in History /\ Len(h) \in Nat
  BY BookOf
<1> HIDE DEF totals2, e, log
<1>8. /\ loans'[s] = [loans[s] EXCEPT ![id] = stamped]
      /\ books'[s] = [books[s] EXCEPT !.totals = totals2]
      /\ \A t \in Sources \ {s} : loans'[t] = loans[t] /\ books'[t] = books[t]
  BY <1>1 DEF SourceTypeOK
<1>9. books'[s].totals = totals2 /\ books'[s].epoch = books[s].epoch
      /\ books'[s].sealedSource = books[s].sealedSource
  BY <1>7, <1>8 DEF Book
<1>10. SourceTypeOK'
  <2>1. loans' \in [Sources -> [LoanIds -> Loan]]
    BY <1>1, <1>3 DEF SourceTypeOK
  <2>2. books' \in [Sources -> [sealedSource : BOOLEAN, epoch : Nat, totals : Totals]]
    BY <1>1, <1>6 DEF SourceTypeOK
  <2>3. sourceTime' \in Nat /\ txLogs' \in Seq(Log) /\ receipts' \in Seq(Seq(Log))
    BY <1>1, <1>5 DEF Emit, SourceTypeOK
  <2> QED BY <2>1, <2>2, <2>3 DEF SourceTypeOK
<1>11. ChainInv'
  <2>1. SourceFits(loans[s], books[s])
    BY DEF ChainInv
  <2>2. books[s].totals \in Totals
    BY <1>7 DEF Book
  <2>3. Records(loans[s], books[s].totals, e, loans'[s], totals2)
    <3>1. totals2.totalIssued \in Nat /\ totals2.totalRepaid \in Nat
      BY <1>2, <1>6, Numbers
    <3> QED BY <3>1, <1>4, <1>5, <1>6, <1>8 DEF Records
  <2>4. Balanced(e.loan)
    BY <1>4, <1>5 DEF Balanced
  <2>5. loans[s][e.loanId].sequence # 0 => Follows(e.loan, loans[s][e.loanId])
    BY <1>4, <1>5 DEF Follows
  <2>6. SourceFits(loans'[s], books'[s])
    <3> DEFINE before == books[s]
               after == books'[s]
    <3>1. /\ loans[s] \in [LoanIds -> Loan] /\ before.totals \in Totals
          /\ SourceFits(loans[s], before) /\ e \in Event /\ Balanced(e.loan)
          /\ e.loan.eventSequence = before.totals.eventCount + 1 /\ e.loan.sequence # 0
          /\ loans[s][e.loanId].sequence # 0 => Follows(e.loan, loans[s][e.loanId])
      BY <1>4, <1>5, <1>7, <2>1, <2>2, <2>4, <2>5
    <3>2. /\ after.epoch = before.epoch
          /\ after.totals.eventCount = before.totals.eventCount + 1
          /\ after.totals.historyRoot = Append(before.totals.historyRoot, e)
          /\ Records(loans[s], before.totals, e, loans'[s], after.totals)
      BY <1>6, <1>9, <2>3
    <3> HIDE DEF before, after
    <3> QED BY <3>1, <3>2, SourceRecords DEF after
  <2>7. \A t \in Sources \ {s} : SourceFits(loans'[t], books'[t])
    BY <1>8 DEF ChainInv
  <2>8. \A t \in Sources : SourceFits(loans'[t], books'[t])
    BY <2>6, <2>7
  <2> QED BY <2>8 DEF ChainInv
<1>12. SourceGrows
  <2>1. Grows(loans[s], books[s], loans'[s], books'[s])
    <3>1. /\ books'[s].totals.historyRoot = Append(h, e)
          /\ books[s].totals.historyRoot = h
      BY <1>6, <1>9 DEF HistoryOf
    <3>2. /\ Len(Append(h, e)) = Len(h) + 1
          /\ \A k \in 1..Len(h) : Append(h, e)[k] = h[k]
      BY <1>5, <1>7, Appended
    <3>3. books[s].sealedSource => \A x \in LoanIds :
            loans'[s][x].sequence # 0 => loans[s][x].sequence # 0
      BY <1>7, <1>8
    <3> HIDE DEF h
    <3> QED BY <1>7, <1>9, <3>1, <3>2, <3>3 DEF Grows
  <2>2. ASSUME NEW t \in Sources \ {s} PROVE Grows(loans[t], books[t], loans'[t], books'[t])
    <3>1. Len(books[t].totals.historyRoot) \in Nat
      BY BookOf DEF HistoryOf
    <3> QED BY <1>8, <3>1, GrowsNot
  <2>3. receipts' = receipts /\ Len(receipts) \in Nat
    BY <1>1 DEF Emit, SourceTypeOK
  <2> QED BY <2>1, <2>2, <2>3 DEF SourceGrows
<1>13. Genuine(log, loans'[log.emitter], books'[log.emitter])
  <2>1. /\ log.type = "LoanState" /\ log.emitter = s /\ log.loanId = id
        /\ log.loan = stamped /\ e = [loanId |-> id, loan |-> stamped]
    BY DEF log, e
  <2>2. books[s].totals.eventCount = Len(h)
    BY DEF ChainInv, SourceFits, HistoryOf
  <2>3. /\ books'[s].totals.historyRoot = Append(h, e)
        /\ stamped.eventSequence = Len(h) + 1
    BY <1>4, <1>6, <1>9, <2>2 DEF HistoryOf
  <2>4. Len(Append(h, e)) = Len(h) + 1 /\ Append(h, e)[Len(h) + 1] = e
    BY <1>5, <1>7, Appended
  <2> HIDE DEF h
  <2> QED BY <1>7, <2>1, <2>3, <2>4 DEF Genuine
<1>14. LogsInv'
  BY <1>1, <1>5, <1>10, <1>12, <1>13, LogsAfterEmit
<1> QED BY <1>10, <1>11, <1>12, <1>14 DEF SourceKept

(* A loan is open exactly when the history speaks of it. *)
LEMMA OpenedIsTold ==
  ASSUME NEW loanOf, NEW totals, NEW h \in History,
         ViewOf(loanOf, totals) = SourceAfter(h),
         \A k \in 1..Len(h) : h[k].loan.sequence # 0, NEW id \in LoanIds
  PROVE  /\ loanOf[id].sequence = 0 => loanOf[id] = NoLoan
         /\ loanOf[id].sequence # 0 <=> EventsOf(h, id) # {}
<1>1. loanOf[id] = LoanAfter(h, id)
  BY DEF ViewOf, SourceAfter
<1>2. CASE EventsOf(h, id) = {}
  BY <1>1, <1>2 DEF LoanAfter, NoLoan
<1>3. CASE EventsOf(h, id) # {}
  BY <1>1, <1>3, LoanAfterLast
<1> QED BY <1>2, <1>3

LEMMA OpenedInBook ==
  ASSUME SourceTypeOK, ChainInv, NEW s \in Sources, NEW id \in LoanIds
  PROVE  /\ loans[s][id].sequence = 0 => loans[s][id] = NoLoan
         /\ loans[s][id].sequence # 0 <=> EventsOf(HistoryOf(s), id) # {}
<1>1. HistoryOf(s) \in History
  BY BookOf
<1>2. /\ ViewOf(loans[s], books[s].totals) = SourceAfter(HistoryOf(s))
      /\ \A k \in 1..Len(HistoryOf(s)) : HistoryOf(s)[k].loan.sequence # 0
  BY DEF ChainInv, SourceFits, Follows, HistoryOf
<1> QED BY <1>1, <1>2, OpenedIsTold

LEMMA OpenLoanKeeps ==
  ASSUME SourceTypeOK, ChainInv, LogsInv, NEW s \in Sources, NEW id \in LoanIds,
         NEW parties \in Parties, NEW principal \in Principals,
         OpenLoan(s, id, parties, principal)
  PROVE  SourceKept
<1> DEFINE loan == [NoLoan EXCEPT !.parties = parties, !.sequence = 1,
                       !.principal = principal, !.outstanding = principal]
           before == books[s].totals
           totals == [before EXCEPT !.loanCount = @ + 1, !.totalIssued = @ + principal]
<1>1. /\ ~books[s].sealedSource /\ loans[s][id].sequence = 0
      /\ before.totalIssued + principal <= MaxUint
      /\ EmitState(s, id, loan, totals)
  BY DEF OpenLoan
<1>2. before \in Totals
  BY BookOf
<1>3. /\ before.eventCount \in Nat /\ before.loanCount \in Nat
      /\ before.totalIssued \in Uint /\ before.totalRepaid \in Uint
      /\ before.historyRoot \in History
  BY <1>2 DEF Totals
<1>4. principal \in Uint /\ principal \in Nat
  BY SourceConstants, Numbers
<1>5. loan \in Loan /\ loan.sequence = 1 /\ loan.principal = principal
      /\ loan.repaid = 0 /\ loan.outstanding = principal
  BY <1>4, Numbers DEF Loan, NoLoan
<1>6. /\ totals.loanCount = before.loanCount + 1 /\ totals.eventCount = before.eventCount
      /\ totals.historyRoot = before.historyRoot
      /\ totals.totalIssued = before.totalIssued + principal
      /\ totals.totalRepaid = before.totalRepaid
      /\ totals \in Totals
  <2>1. before.totalIssued + principal \in Uint
    BY <1>1, <1>3, <1>4, Numbers
  <2>2. before.loanCount + 1 \in Nat
    BY <1>3
  <2> HIDE DEF before
  <2> QED BY <1>2, <1>3, <2>1, <2>2 DEF Totals
<1>7. loans[s][id] = NoLoan
  BY <1>1, OpenedInBook
<1>8. Balanced(loan)
  BY <1>4, <1>5 DEF Balanced
<1>9. loans[s][id].principal = 0 /\ loans[s][id].repaid = 0
  BY <1>7 DEF NoLoan
<1>10. /\ totals.totalIssued + loans[s][id].principal = before.totalIssued + loan.principal
       /\ totals.totalRepaid + loans[s][id].repaid = before.totalRepaid + loan.repaid
       /\ totals.loanCount = before.loanCount + (IF loans[s][id].sequence = 0 THEN 1 ELSE 0)
  <2>1. before.totalIssued \in Nat /\ before.totalRepaid \in Nat
    BY <1>3, Numbers
  <2> HIDE DEF loan, totals, before
  <2> QED BY <1>1, <1>3, <1>4, <1>5, <1>6, <1>9, <2>1
<1> HIDE DEF loan, totals
<1> QED BY <1>1, <1>5, <1>6, <1>8, <1>10, StateEmitted

LEMMA RepayKeeps ==
  ASSUME SourceTypeOK, ChainInv, LogsInv, NEW s \in Sources, NEW id \in LoanIds,
         NEW amount \in Uint, Repay(s, id, amount)
  PROVE  SourceKept
<1> DEFINE old == loans[s][id]
           loan == [old EXCEPT !.repaid = @ + amount, !.outstanding = @ - amount,
                               !.sequence = @ + 1]
           before == books[s].totals
           totals == [before EXCEPT !.totalRepaid = @ + amount]
<1>1. /\ old.sequence # 0 /\ amount # 0 /\ amount <= old.outstanding
      /\ EmitState(s, id, loan, totals)
  BY DEF Repay
<1>2. before \in Totals /\ loans[s] \in [LoanIds -> Loan] /\ HistoryOf(s) \in History
  BY BookOf
<1>3. /\ before.eventCount \in Nat /\ before.loanCount \in Nat
      /\ before.totalIssued \in Uint /\ before.totalRepaid \in Uint
  BY <1>2 DEF Totals
<1>4. /\ old \in Loan /\ old.sequence \in Nat /\ old.principal \in Uint
      /\ old.repaid \in Uint /\ old.outstanding \in Uint /\ amount \in Nat
      /\ old.repaid \in Nat /\ old.outstanding \in Nat /\ old.principal \in Nat
      /\ old.principal <= MaxUint /\ MaxUint \in Nat
  BY <1>2, Numbers, MaxUintAssumption DEF Loan, Uint
<1>5. SourceFits(loans[s], books[s])
  BY DEF ChainInv
<1>6. Balanced(old)
  BY <1>5 DEF SourceFits
<1>7. old.repaid + amount \in Uint /\ old.outstanding - amount \in Uint
  <2> HIDE DEF old
  <2>1. /\ old.repaid + amount \in Nat /\ old.outstanding - amount \in Nat
        /\ old.repaid + amount <= MaxUint /\ old.outstanding - amount <= MaxUint
    BY <1>1, <1>4, <1>6 DEF Balanced
  <2> QED BY <2>1, Numbers
<1>8. /\ loan \in Loan /\ loan.sequence = old.sequence + 1
      /\ loan.principal = old.principal /\ loan.repaid = old.repaid + amount
      /\ loan.outstanding = old.outstanding - amount
  <2> HIDE DEF old
  <2>1. old.sequence + 1 \in Nat
    BY <1>4
  <2> QED BY <1>4, <1>7, <2>1 DEF Loan
<1>9. Balanced(loan) /\ Follows(loan, old) /\ loan.sequence # 0
  <2> HIDE DEF old, loan
  <2> QED BY <1>1, <1>4, <1>6, <1>8 DEF Balanced, Follows
(* The loans of a source are repaid by what totalRepaid counts, of which    *)
(* totalIssued is a bound before the repayment and after it.                *)
<1>10. before.totalRepaid + amount \in Uint
  <2> DEFINE p == [x \in LoanIds |-> loans[s][x].principal]
             r == [x \in LoanIds |-> loans[s][x].repaid]
             r2 == [r EXCEPT ![id] = @ + amount]
  <2>1. p \in [LoanIds -> Nat] /\ r \in [LoanIds -> Nat]
    BY <1>2, AmountsType
  <2>2. before.totalIssued = SumOf(p) /\ before.totalRepaid = SumOf(r)
    <3>1. ViewOf(loans[s], before) = SourceAfter(HistoryOf(s))
      BY <1>5 DEF SourceFits, HistoryOf
    <3> QED BY <1>2, <3>1, TotalsOfView
  <2>3. \A x \in LoanIds : r[x] <= p[x]
    BY <1>2, <1>5, BalancedAmounts DEF SourceFits
  <2>4. r[id] = old.repaid /\ p[id] = old.principal
    OBVIOUS
  <2> HIDE DEF p, r, old
  <2>5. r2 \in [LoanIds -> Nat] /\ r2[id] = r[id] + amount
        /\ \A x \in LoanIds \ {id} : r2[x] = r[x]
    BY <1>4, <2>1
  <2> HIDE DEF r2
  <2>6. \A x \in LoanIds : r2[x] <= p[x]
    <3>1. r2[id] <= p[id]
      BY <1>1, <1>4, <1>6, <2>4, <2>5 DEF Balanced
    <3> QED BY <2>3, <2>5, <3>1
  <2>7. SumOf(r2) \in Nat /\ SumOf(p) \in Nat /\ SumOf(r2) <= SumOf(p)
    BY <2>1, <2>5, <2>6, SumOfMonotone
  <2>8. SumOf(r) \in Nat /\ SumOf(r2) + r[id] = SumOf(r) + r2[id] /\ r[id] \in Nat
    BY <2>1, <2>5, SumChange
  <2>9. SumOf(r2) = SumOf(r) + amount
    BY <1>4, <2>5, <2>7, <2>8
  <2>10. before.totalIssued <= MaxUint
    BY <1>3, MaxUintAssumption DEF Uint
  <2>11. SumOf(r2) <= MaxUint
    BY <2>2, <2>7, <2>10, MaxUintAssumption
  <2> QED BY <2>2, <2>7, <2>9, <2>11, Numbers
<1>11. /\ totals \in Totals
       /\ totals.eventCount = before.eventCount /\ totals.historyRoot = before.historyRoot
       /\ totals.loanCount = before.loanCount
       /\ totals.totalIssued = before.totalIssued
       /\ totals.totalRepaid = before.totalRepaid + amount
  <2> HIDE DEF before
  <2> QED BY <1>2, <1>10 DEF Totals
<1>12. /\ totals.totalIssued + old.principal = before.totalIssued + loan.principal
       /\ totals.totalRepaid + old.repaid = before.totalRepaid + loan.repaid
       /\ totals.loanCount = before.loanCount + (IF old.sequence = 0 THEN 1 ELSE 0)
  <2>1. before.totalRepaid \in Nat
    BY <1>3, Numbers
  <2> HIDE DEF loan, totals, before, old
  <2> QED BY <1>1, <1>3, <1>4, <1>8, <1>11, <2>1
<1> HIDE DEF loan, totals
<1> QED BY <1>1, <1>8, <1>9, <1>11, <1>12, StateEmitted

(* A step that leaves loans and totals of every source alone. *)
LEMMA BooksKept ==
  ASSUME SourceTypeOK, ChainInv, SourceTypeOK', loans' = loans,
         \A s \in Sources : /\ books'[s].totals = books[s].totals
                            /\ books[s].sealedSource => books'[s].sealedSource
                            /\ books'[s].epoch <= MaxEpoch,
         Len(receipts) <= Len(receipts'),
         \A i \in 1..Len(receipts) : receipts'[i] = receipts[i]
  PROVE  ChainInv' /\ SourceGrows
<1>1. ASSUME NEW s \in Sources PROVE SourceFits(loans'[s], books'[s])
  <2>1. SourceFits(loans[s], books[s])
    BY DEF ChainInv
  <2> QED BY <2>1 DEF SourceFits
<1>2. ASSUME NEW s \in Sources PROVE Grows(loans[s], books[s], loans'[s], books'[s])
  <2>1. Len(books[s].totals.historyRoot) \in Nat
    BY BookOf DEF HistoryOf
  <2> QED BY <2>1, GrowsNot
<1> QED BY <1>1, <1>2 DEF ChainInv, SourceGrows

LEMMA SealKeeps ==
  ASSUME SourceTypeOK, ChainInv, LogsInv, NEW s \in Sources, Seal(s)
  PROVE  SourceKept
<1> DEFINE log == [type |-> "SourceSeal", emitter |-> s]
<1>1. /\ books' = [books EXCEPT ![s].sealedSource = TRUE]
      /\ Emit(log) /\ loans' = loans
  BY DEF Seal
<1>2. log \in Log /\ log.type = "SourceSeal"
  BY DEF Log
<1> HIDE DEF log
<1>3. SourceTypeOK'
  <2>1. books' \in [Sources -> [sealedSource : BOOLEAN, epoch : Nat, totals : Totals]]
    BY <1>1 DEF SourceTypeOK
  <2>2. sourceTime' \in Nat /\ txLogs' \in Seq(Log) /\ receipts' \in Seq(Seq(Log))
    BY <1>1, <1>2 DEF Emit, SourceTypeOK
  <2> QED BY <1>1, <2>1, <2>2 DEF SourceTypeOK
<1>4. ASSUME NEW t \in Sources
      PROVE  /\ books'[t].totals = books[t].totals
             /\ books[t].sealedSource => books'[t].sealedSource
             /\ books'[t].epoch <= MaxEpoch
  <2>1. books[t].epoch <= MaxEpoch
    BY DEF ChainInv, SourceFits
  <2> QED BY <1>1, <2>1 DEF SourceTypeOK
<1>5. Len(receipts) <= Len(receipts') /\ \A i \in 1..Len(receipts) : receipts'[i] = receipts[i]
  BY <1>1 DEF Emit, SourceTypeOK
<1>6. ChainInv' /\ SourceGrows
  BY <1>1, <1>3, <1>4, <1>5, BooksKept
<1>7. Genuine(log, loans'[log.emitter], books'[log.emitter])
  BY <1>2 DEF Genuine
<1>8. LogsInv'
  BY <1>1, <1>2, <1>3, <1>6, <1>7, LogsAfterEmit
<1> QED BY <1>3, <1>6, <1>8 DEF SourceKept

LEMMA CheckpointKeeps ==
  ASSUME SourceTypeOK, ChainInv, LogsInv, NEW s \in Sources, TakeCheckpoint(s)
  PROVE  SourceKept
<1> DEFINE log == [type |-> "Checkpoint", emitter |-> s,
                   epoch |-> books[s].epoch + 1, totals |-> books[s].totals,
                   timestamp |-> sourceTime, sealedSource |-> TRUE]
<1>1. /\ books[s].sealedSource /\ books[s].epoch < MaxEpoch
      /\ books' = [books EXCEPT ![s].epoch = @ + 1]
      /\ Emit(log) /\ loans' = loans
  BY DEF TakeCheckpoint
<1>2. books[s].epoch \in Nat /\ books[s].totals \in Totals /\ MaxEpoch \in Nat
  BY BookOf, SourceConstants
<1>3. /\ log \in Log /\ log.type = "Checkpoint" /\ log.emitter = s
      /\ log.epoch = books[s].epoch + 1 /\ log.totals = books[s].totals
  <2>1. sourceTime \in Nat
    BY DEF SourceTypeOK
  <2> QED BY <1>2, <2>1 DEF Log
<1> HIDE DEF log
<1>4. SourceTypeOK'
  <2>1. books' \in [Sources -> [sealedSource : BOOLEAN, epoch : Nat, totals : Totals]]
    BY <1>1 DEF SourceTypeOK
  <2>2. sourceTime' \in Nat /\ txLogs' \in Seq(Log) /\ receipts' \in Seq(Seq(Log))
    BY <1>1, <1>3 DEF Emit, SourceTypeOK
  <2> QED BY <1>1, <2>1, <2>2 DEF SourceTypeOK
<1>5. ASSUME NEW t \in Sources
      PROVE  /\ books'[t].totals = books[t].totals
             /\ books[t].sealedSource => books'[t].sealedSource
             /\ books'[t].epoch <= MaxEpoch
  <2>1. books[t].epoch <= MaxEpoch
    BY DEF ChainInv, SourceFits
  <2>2. t = s => books'[t].epoch = books[s].epoch + 1
    BY <1>1 DEF SourceTypeOK
  <2>3. t # s => books'[t].epoch = books[t].epoch
    BY <1>1 DEF SourceTypeOK
  <2>4. books'[t].totals = books[t].totals /\ books'[t].sealedSource = books[t].sealedSource
    BY <1>1 DEF SourceTypeOK
  <2> QED BY <1>1, <1>2, <2>1, <2>2, <2>3, <2>4
<1>6. Len(receipts) <= Len(receipts') /\ \A i \in 1..Len(receipts) : receipts'[i] = receipts[i]
  BY <1>1 DEF Emit, SourceTypeOK
<1>7. ChainInv' /\ SourceGrows
  BY <1>1, <1>4, <1>5, <1>6, BooksKept
<1>8. Genuine(log, loans'[log.emitter], books'[log.emitter])
  <2>1. \A id \in LoanIds :
          loans[s][id].sequence # 0 => EventsOf(books[s].totals.historyRoot, id) # {}
    BY OpenedInBook DEF HistoryOf
  <2>2. books'[s].sealedSource
    BY <1>1, <1>5
  <2>3. log.epoch <= MaxEpoch
    BY <1>1, <1>2, <1>3
  <2> QED BY <1>1, <1>3, <2>1, <2>2, <2>3 DEF Genuine
<1>9. LogsInv'
  BY <1>1, <1>3, <1>4, <1>7, <1>8, LogsAfterEmit
<1> QED BY <1>4, <1>7, <1>9 DEF SourceKept

LEMMA EndTransactionKeeps ==
  ASSUME SourceTypeOK, ChainInv, LogsInv, EndTransaction
  PROVE  SourceKept
<1>1. /\ receipts' = Append(receipts, txLogs) /\ txLogs' = <<>>
      /\ loans' = loans /\ books' = books /\ sourceTime' = sourceTime
      /\ receipts \in Seq(Seq(Log)) /\ txLogs \in Seq(Log)
  BY DEF EndTransaction, SourceTypeOK
<1>2. /\ Len(receipts) \in Nat /\ Len(receipts') = Len(receipts) + 1
      /\ receipts' \in Seq(Seq(Log)) /\ txLogs' \in Seq(Log) /\ Len(txLogs') = 0
      /\ \A i \in 1..Len(receipts) : receipts'[i] = receipts[i]
      /\ receipts'[Len(receipts) + 1] = txLogs
  BY <1>1
<1>3. SourceTypeOK'
  BY <1>1, <1>2 DEF SourceTypeOK
<1>4. ChainInv' /\ SourceGrows
  <2>1. \A s \in Sources : books[s].epoch <= MaxEpoch
    BY DEF ChainInv, SourceFits
  <2> QED BY <1>1, <1>2, <1>3, <2>1, BooksKept
<1>5. LogsInv'
  <2>1. ASSUME NEW i \in 1..Len(receipts') PROVE receipts'[i] = txLogs \/ i \in 1..Len(receipts)
    BY <1>2
  <2>2. GenuineLogs(txLogs) /\ \A i \in 1..Len(receipts) : GenuineLogs(receipts[i])
    BY DEF LogsInv
  <2>3. (\A i \in 1..Len(receipts) : GenuineLogs(receipts[i]))'
    <3>1. ASSUME NEW i \in 1..Len(receipts')
          PROVE  \A j \in 1..Len(receipts'[i]) :
                   Genuine(receipts'[i][j], loans[receipts'[i][j].emitter],
                           books[receipts'[i][j].emitter])
      <4>1. CASE receipts'[i] = txLogs
        BY <2>2, <4>1 DEF GenuineLogs
      <4>2. CASE i \in 1..Len(receipts)
        BY <1>2, <2>2, <4>2 DEF GenuineLogs
      <4> QED BY <2>1, <4>1, <4>2
    <3> QED BY <1>1, <3>1 DEF GenuineLogs
  <2>4. GenuineLogs(txLogs)'
    BY <1>2 DEF GenuineLogs
  <2>5. \A i \in 1..Len(receipts') : Len(receipts'[i]) <= MaxTxLogs
    BY <1>2, <2>1 DEF LogsInv
  <2>6. Len(receipts') <= MaxTxs /\ Len(txLogs') <= MaxTxLogs
    BY <1>1, <1>2, SourceConstants DEF EndTransaction, LogsInv
  <2> QED BY <1>1, <2>3, <2>4, <2>5, <2>6 DEF LogsInv
<1> QED BY <1>3, <1>4, <1>5 DEF SourceKept

(* A step that touches neither loans, books nor logs. *)
LEMMA ChainKept ==
  ASSUME SourceTypeOK, ChainInv, LogsInv, sourceTime' \in Nat,
         UNCHANGED <<loans, books, txLogs, receipts>>
  PROVE  SourceKept
<1>1. SourceTypeOK'
  BY DEF SourceTypeOK
<1>2. ChainInv' /\ SourceGrows
  <2>1. \A s \in Sources : books[s].epoch <= MaxEpoch
    BY DEF ChainInv, SourceFits
  <2>2. Len(receipts) \in Nat
    BY DEF SourceTypeOK
  <2> QED BY <1>1, <2>1, <2>2, BooksKept
<1>3. LogsInv'
  BY DEF LogsInv, GenuineLogs
<1> QED BY <1>1, <1>2, <1>3 DEF SourceKept

-----------------------------------------------------------------------------
(* What the ledger knows of one source. *)
LEMMA MirrorTells ==
  ASSUME SourceTypeOK, ChainInv, NEW s \in Sources, NEW loanOf, NEW totals,
         totals.historyRoot \in History, MirrorFits(loanOf, totals, HistoryOf(s)),
         NEW id \in LoanIds
  PROVE  /\ loanOf[id] \in Loan
         /\ loanOf[id].sequence = 0 => loanOf[id] = NoLoan
         /\ loanOf[id].sequence # 0 => Follows(loans[s][id], loanOf[id])
         /\ loanOf[id].sequence # 0 <=> EventsOf(totals.historyRoot, id) # {}
<1> DEFINE known == totals.historyRoot
           h == HistoryOf(s)
<1>1. /\ Len(known) <= Len(h) /\ \A k \in 1..Len(known) : known[k] = h[k]
      /\ ViewOf(loanOf, totals) = SourceAfter(known)
  BY DEF MirrorFits
<1>2. h \in History /\ Len(h) \in Nat /\ Len(known) \in Nat
  <2>1. h \in History /\ Len(h) \in Nat
    BY BookOf
  <2>2. Len(known) \in Nat
    BY DEF History
  <2> QED BY <2>1, <2>2
<1>3. \A k \in 1..Len(h) : Follows(loans[s][h[k].loanId], h[k].loan)
  BY DEF ChainInv, SourceFits, HistoryOf
<1>4. \A k \in 1..Len(known) : Follows(loans[s][known[k].loanId], known[k].loan)
  <2> HIDE DEF known, h
  <2> QED BY <1>1, <1>2, <1>3
<1>5. \A k \in 1..Len(known) : known[k].loan.sequence # 0
  BY <1>4 DEF Follows
<1>6. loanOf[id] = LoanAfter(known, id)
  BY <1>1 DEF ViewOf, SourceAfter
<1>7. loanOf[id] \in Loan
  BY <1>6, LoanAfterType
<1>8. /\ loanOf[id].sequence = 0 => loanOf[id] = NoLoan
      /\ loanOf[id].sequence # 0 <=> EventsOf(known, id) # {}
  BY <1>1, <1>5, OpenedIsTold
<1>9. ASSUME loanOf[id].sequence # 0 PROVE Follows(loans[s][id], loanOf[id])
  <2>1. PICK k \in 1..Len(known) : known[k].loanId = id /\ loanOf[id] = known[k].loan
    BY <1>6, <1>8, <1>9, LoanAfterLast
  <2> HIDE DEF known
  <2> QED BY <1>4, <2>1
<1> QED BY <1>7, <1>8, <1>9

(* Its totals are below the source's. *)
LEMMA MirrorAmounts ==
  ASSUME SourceTypeOK, ChainInv, NEW s \in Sources,
         NEW loanOf \in [LoanIds -> Loan], NEW totals,
         totals.historyRoot \in History, MirrorFits(loanOf, totals, HistoryOf(s))
  PROVE  /\ totals.loanCount \in Nat /\ totals.eventCount \in Nat
         /\ totals.totalIssued \in Uint /\ totals.totalRepaid \in Uint
<1> DEFINE p == [id \in LoanIds |-> loanOf[id].principal]
           r == [id \in LoanIds |-> loanOf[id].repaid]
           P == [id \in LoanIds |-> loans[s][id].principal]
           R == [id \in LoanIds |-> loans[s][id].repaid]
<1>1. /\ loans[s] \in [LoanIds -> Loan] /\ books[s].totals \in Totals
      /\ HistoryOf(s) \in History
  BY BookOf
<1>2. /\ p \in [LoanIds -> Nat] /\ r \in [LoanIds -> Nat]
      /\ P \in [LoanIds -> Nat] /\ R \in [LoanIds -> Nat]
  BY <1>1, AmountsType
<1>3. totals.loanCount \in Nat /\ totals.totalIssued = SumOf(p) /\ totals.totalRepaid = SumOf(r)
  BY TotalsOfView DEF MirrorFits
<1>4. books[s].totals.totalIssued = SumOf(P) /\ books[s].totals.totalRepaid = SumOf(R)
  <2>1. ViewOf(loans[s], books[s].totals) = SourceAfter(HistoryOf(s))
    BY DEF ChainInv, SourceFits, HistoryOf
  <2> QED BY <1>1, <2>1, TotalsOfView
<1>5. ASSUME NEW id \in LoanIds PROVE p[id] <= P[id] /\ r[id] <= R[id]
  <2>1. loanOf[id].sequence = 0 => loanOf[id].principal = 0 /\ loanOf[id].repaid = 0
    BY MirrorTells DEF NoLoan
  <2>2. loanOf[id].sequence # 0 => Follows(loans[s][id], loanOf[id])
    BY MirrorTells
  <2>3. p[id] = loanOf[id].principal /\ r[id] = loanOf[id].repaid
        /\ P[id] = loans[s][id].principal /\ R[id] = loans[s][id].repaid
    OBVIOUS
  <2>4. p[id] \in Nat /\ P[id] \in Nat /\ r[id] \in Nat /\ R[id] \in Nat
    BY <1>2
  <2> HIDE DEF p, r, P, R
  <2> QED BY <2>1, <2>2, <2>3, <2>4 DEF Follows
<1> HIDE DEF p, r, P, R
<1>6. SumOf(p) \in Nat /\ SumOf(P) \in Nat /\ SumOf(p) <= SumOf(P)
  BY <1>2, <1>5, SumOfMonotone
<1>7. SumOf(r) \in Nat /\ SumOf(R) \in Nat /\ SumOf(r) <= SumOf(R)
  BY <1>2, <1>5, SumOfMonotone
<1>8. SumOf(P) \in Uint /\ SumOf(R) \in Uint
  BY <1>1, <1>4 DEF Totals
<1>9. totals.eventCount \in Nat
  BY DEF MirrorFits, History
<1>10. SumOf(p) \in Uint /\ SumOf(r) \in Uint
  BY <1>6, <1>7, <1>8, MaxUintAssumption DEF Uint
<1> QED BY <1>3, <1>9, <1>10

LEMMA MirrorGains ==
  ASSUME SourceTypeOK, ChainInv, NEW s \in Sources,
         NEW loanOf \in [LoanIds -> Loan], NEW totals \in Totals,
         MirrorFits(loanOf, totals, HistoryOf(s)),
         NEW e \in Event, totals.eventCount + 1 \in 1..Len(HistoryOf(s)),
         HistoryOf(s)[totals.eventCount + 1] = e,
         NEW loanOf2, NEW totals2, Records(loanOf, totals, e, loanOf2, totals2),
         totals2.eventCount = totals.eventCount + 1,
         totals2.historyRoot = Append(totals.historyRoot, e)
  PROVE  MirrorFits(loanOf2, totals2, HistoryOf(s))
<1> DEFINE known == totals.historyRoot
           g == Append(known, e)
           h == HistoryOf(s)
<1>1. /\ totals.eventCount = Len(known)
      /\ Len(known) <= Len(h) /\ \A k \in 1..Len(known) : known[k] = h[k]
      /\ ViewOf(loanOf, totals) = SourceAfter(known)
  BY DEF MirrorFits
<1>2. h \in History /\ Len(h) \in Nat /\ known \in History
  BY BookOf DEF Totals
<1>3. /\ Len(known) \in Nat /\ Len(g) = Len(known) + 1
      /\ \A k \in 1..Len(known) : g[k] = known[k]
      /\ g[Len(known) + 1] = e
  BY <1>2, Appended
<1>4. \A k \in 1..Len(h) : h[k].loan.sequence # 0
  BY DEF ChainInv, SourceFits, HistoryOf, Follows
<1>5. /\ totals2.historyRoot = g /\ totals2.eventCount = Len(known) + 1
      /\ Len(known) + 1 \in 1..Len(h) /\ h[Len(known) + 1] = e
  BY <1>1
<1> HIDE DEF known, g, h
<1>6. \A k \in 1..Len(known) : known[k].loan.sequence # 0
  BY <1>1, <1>2, <1>3, <1>4
<1>7. ViewOf(loanOf2, totals2) = SourceAfter(g)
  BY <1>1, <1>2, <1>6, ViewAppend DEF g
<1>8. \A k \in 1..Len(g) : g[k] = h[k]
  <2>1. \A k \in 1..Len(g) : k \in 1..Len(known) \/ k = Len(known) + 1
    BY <1>3
  <2> QED BY <1>1, <1>3, <1>5, <2>1
<1> QED BY <1>2, <1>3, <1>5, <1>7, <1>8 DEF MirrorFits, h

-----------------------------------------------------------------------------
(* Unique debt. *)
LEMMA DebtsFinite == IsFiniteSet(Debts)
<1>1. IsFiniteSet(Registered) /\ IsFiniteSet(LoanIds)
  BY LedgerConstants, SourceConstants DEF ValidScope
<1> QED BY <1>1, FS_Product DEF Debts

Reported(loanOf) == {CanonicalDebtId(d) : d \in Opened(loanOf)}

LEMMA ReportedFinite ==
  ASSUME NEW loanOf PROVE IsFiniteSet(Reported(loanOf))
<1> DEFINE f == [d \in Opened(loanOf) |-> CanonicalDebtId(d)]
<1>1. IsFiniteSet(Opened(loanOf))
  BY DebtsFinite, FS_Subset DEF Opened
<1>2. Reported(loanOf) = {f[d] : d \in Opened(loanOf)}
  BY DEF Reported
<1> HIDE DEF f
<1> QED BY <1>1, <1>2, FiniteImage

LEMMA CanonicalType ==
  ASSUME LedgerTypeOK, NEW d \in Debts PROVE CanonicalDebtId(d) \in CanonicalIds
BY DEF LedgerTypeOK, CanonicalDebtId, CanonicalIds

(* The least balance of the aliases of c, for every c that is reported. *)
LEMMA UniqueDebtIs ==
  ASSUME NEW loanOf, NEW least,
         \A d \in Debts : loanOf[d].outstanding \in Nat,
         \A c \in Reported(loanOf) :
           /\ \E d \in AliasesOf(loanOf, c) : loanOf[d].outstanding = least[c]
           /\ \A d \in AliasesOf(loanOf, c) : least[c] <= loanOf[d].outstanding
  PROVE  UniqueDebtOf(loanOf) = SumFunctionOnSet(least, Reported(loanOf))
<1> DEFINE opened == {d \in Debts : loanOf[d].sequence # 0}
           ids == {CanonicalDebtId(d) : d \in opened}
           debt == [c \in ids |->
             Min({loanOf[d].outstanding : d \in {e \in opened : CanonicalDebtId(e) = c}})]
<1>1. opened = Opened(loanOf) /\ ids = Reported(loanOf)
  BY DEF Opened, Reported
<1>2. UniqueDebtOf(loanOf) = SumOf(debt)
  BY DEF UniqueDebtOf, UniqueDebts
<1>3. SumOf(debt) = SumFunctionOnSet(debt, ids)
  <2>1. DOMAIN debt = ids
    OBVIOUS
  <2> HIDE DEF debt, ids
  <2> QED BY <2>1, SumOfFunction DEF SumOf
<1>4. ASSUME NEW c \in ids PROVE debt[c] = least[c]
  <2> DEFINE S == {loanOf[d].outstanding : d \in {e \in opened : CanonicalDebtId(e) = c}}
  <2>1. {e \in opened : CanonicalDebtId(e) = c} = AliasesOf(loanOf, c)
    BY <1>1 DEF AliasesOf
  <2>2. S = {loanOf[d].outstanding : d \in AliasesOf(loanOf, c)}
    BY <2>1
  <2>3. debt[c] = Min(S)
    OBVIOUS
  <2>4. S \in SUBSET Int
    <3>1. \A d \in AliasesOf(loanOf, c) : loanOf[d].outstanding \in Int
      BY DEF AliasesOf, Opened
    <3> HIDE DEF S, debt
    <3> QED BY <2>2, <3>1
  <2> HIDE DEF S, debt, ids
  <2>5. least[c] \in S /\ \A x \in S : least[c] <= x
    BY <1>1, <2>2
  <2>6. Min(S) = least[c]
    BY <2>4, <2>5, MinIs
  <2> QED BY <2>3, <2>6
<1> HIDE DEF debt, ids
<1>5. SumFunctionOnSet(debt, ids) = SumFunctionOnSet(least, ids)
  BY <1>1, <1>4, ReportedFinite, SumSame
<1> QED BY <1>1, <1>2, <1>3, <1>5

(* One event counted, as the ledger does. *)
Counted(L, d, next, L2) ==
  LET c == CanonicalDebtId(d)
  IN  /\ L2.loans = [L.loans EXCEPT ![d] = next]
      /\ L2.canonical = [L.canonical EXCEPT ![c] = CanonicalAfter(@, next)]
      /\ L2.relationLocked = L.relationLocked \cup {d}
      /\ L2.totalDebt = DebtAfter(L, d, next)

AcceptsState(L, d, next) ==
  IF L.loans[d].sequence = 0 THEN AcceptsOpening(L, d, next)
                             ELSE AcceptsRepayment(L, d, next)

LEMMA LedgerFields ==
  ASSUME NEW L \in Ledger
  PROVE  /\ L.sources \in [Registered -> SourceState]
         /\ L.loans \in [Debts -> Loan] /\ L.canonical \in [CanonicalIds -> Loan]
         /\ L.relationLocked \in SUBSET Debts
         /\ L.totalDebt \in Uint /\ L.stateVersion \in Nat
BY DEF Ledger

LEMMA LoanAmounts ==
  ASSUME NEW loan \in Loan
  PROVE  /\ loan.principal \in Nat /\ loan.repaid \in Nat /\ loan.outstanding \in Nat
         /\ loan.sequence \in Nat
BY Numbers DEF Loan

(* The canonical debt stays the least of its aliases. *)
LEMMA CanonicalGains ==
  ASSUME LedgerTypeOK, NEW L \in Ledger, DebtsFit(L),
         NEW d \in Debts, NEW next \in Loan, Balanced(next), next.sequence # 0,
         AcceptsState(L, d, next), NEW L2, Counted(L, d, next, L2),
         NEW c \in CanonicalIds
  PROVE  CanonicalFits(L2, c)
<1> DEFINE A == AliasesOf(L.loans, c)
           known == L.canonical[c]
<1>1. /\ L.loans \in [Debts -> Loan] /\ L.canonical \in [CanonicalIds -> Loan]
      /\ known \in Loan /\ CanonicalFits(L, c)
  BY LedgerFields DEF DebtsFit
<1>2. /\ L2.loans = [L.loans EXCEPT ![d] = next]
      /\ L2.canonical = [L.canonical EXCEPT ![CanonicalDebtId(d)]
                           = CanonicalAfter(L.canonical[CanonicalDebtId(d)], next)]
  BY DEF Counted
<1>3. Opened(L2.loans) = Opened(L.loans) \cup {d}
  BY <1>1, <1>2 DEF Opened
<1>4. A \subseteq Debts /\ \A x \in A : L.loans[x] \in Loan /\ L.loans[x].sequence # 0
  BY <1>1 DEF AliasesOf, Opened
<1>5. CASE CanonicalDebtId(d) # c
  <2>1. AliasesOf(L2.loans, c) = A /\ L2.canonical[c] = known
    BY <1>1, <1>2, <1>3, <1>5 DEF AliasesOf
  <2>2. \A x \in A : L2.loans[x] = L.loans[x]
    BY <1>1, <1>2, <1>4, <1>5 DEF AliasesOf
  <2> HIDE DEF A, known
  <2> QED BY <1>1, <2>1, <2>2 DEF CanonicalFits, A, known
<1>6. CASE CanonicalDebtId(d) = c
  <2> DEFINE after == CanonicalAfter(known, next)
  <2>1. AliasesOf(L2.loans, c) = A \cup {d} /\ L2.canonical[c] = after
    BY <1>1, <1>2, <1>3, <1>6 DEF AliasesOf
  <2>2. L2.loans[d] = next /\ \A x \in A \ {d} : L2.loans[x] = L.loans[x]
    BY <1>1, <1>2, <1>4
  <2>3. /\ next.outstanding \in Nat /\ known.outstanding \in Nat
        /\ \A x \in A : L.loans[x].outstanding \in Nat
    BY <1>1, <1>4, LoanAmounts
  <2>4. \A x \in A : known.outstanding <= L.loans[x].outstanding
    BY <1>1 DEF CanonicalFits
  <2>5. A # {} => /\ known.sequence # 0
                  /\ \E x \in A : L.loans[x].outstanding = known.outstanding
    BY <1>1 DEF CanonicalFits
  <2>6. A = {} => known.sequence = 0
    BY <1>1 DEF CanonicalFits, NoLoan
  <2>7. d \notin A /\ A # {} => next.outstanding >= known.outstanding
    <3>1. SUFFICES ASSUME d \notin A, A # {} PROVE next.outstanding >= known.outstanding
      OBVIOUS
    <3>2. L.loans[d].sequence = 0
      BY <1>6, <3>1 DEF AliasesOf, Opened
    <3> QED BY <1>6, <2>5, <3>1, <3>2 DEF AcceptsState, AcceptsOpening
  <2>8. d \in A => next.outstanding < L.loans[d].outstanding
    <3>1. SUFFICES ASSUME d \in A PROVE next.outstanding < L.loans[d].outstanding
      OBVIOUS
    <3>2. L.loans[d].sequence # 0 /\ L.loans[d] \in Loan /\ Balanced(L.loans[d])
      BY <1>4, <3>1 DEF DebtsFit
    <3>3. next.principal = L.loans[d].principal /\ next.repaid > L.loans[d].repaid
      BY <3>2 DEF AcceptsState, AcceptsRepayment, SameDebt
    <3>4. /\ next.principal \in Nat /\ next.repaid \in Nat
          /\ L.loans[d].repaid \in Nat /\ L.loans[d].outstanding \in Nat
          /\ L.loans[d].principal \in Nat
      BY <3>2, LoanAmounts
    <3> QED BY <2>3, <3>2, <3>3, <3>4 DEF Balanced
  <2> HIDE DEF A, known
  <2>9. after = IF known.sequence = 0 \/ next.outstanding < known.outstanding
                THEN next ELSE known
    BY DEF CanonicalAfter
  <2> HIDE DEF after
  <2>10. after.sequence # 0
    BY <2>9
  <2>11. ASSUME NEW x \in A \cup {d} PROVE after.outstanding <= L2.loans[x].outstanding
    <3>1. after.outstanding <= next.outstanding
      BY <2>3, <2>9
    <3>2. A # {} => after.outstanding <= known.outstanding
      BY <2>3, <2>5, <2>9
    <3>3. CASE x = d
      BY <2>2, <3>1, <3>3
    <3>4. CASE x # d
      <4>1. x \in A /\ L2.loans[x] = L.loans[x]
        BY <2>2, <3>4
      <4> QED BY <2>3, <2>4, <2>9, <3>2, <4>1
    <3> QED BY <3>3, <3>4
  <2>12. \E x \in A \cup {d} : L2.loans[x].outstanding = after.outstanding
    <3>1. CASE after = next
      BY <2>2, <3>1
    <3>2. CASE after # next
      <4>1. after = known /\ A # {} /\ ~(next.outstanding < known.outstanding)
        BY <2>6, <2>9, <3>2
      <4>2. PICK x \in A : L.loans[x].outstanding = known.outstanding
        BY <2>5, <4>1
      <4>3. x # d
        BY <2>3, <2>8, <4>1, <4>2
      <4> QED BY <2>2, <4>1, <4>2, <4>3
    <3> QED BY <3>1, <3>2
  <2>13. A \cup {d} # {}
    OBVIOUS
  <2> QED BY <2>1, <2>10, <2>11, <2>12, <2>13 DEF CanonicalFits
<1> QED BY <1>5, <1>6

(* What the ledger reports is the sum over any finite set of canonical ids  *)
(* that holds the reported ones.                                            *)
CanonicalDebt(L) == [c \in CanonicalIds |-> L.canonical[c].outstanding]

LEMMA CountedDebt ==
  ASSUME LedgerTypeOK, NEW L, L.loans \in [Debts -> Loan],
         L.canonical \in [CanonicalIds -> Loan],
         \A c \in CanonicalIds : CanonicalFits(L, c)
  PROVE  /\ UniqueDebtOf(L.loans) = SumFunctionOnSet(CanonicalDebt(L), Reported(L.loans))
         /\ CanonicalDebt(L) \in [CanonicalIds -> Nat]
         /\ Reported(L.loans) \in SUBSET CanonicalIds
         /\ \A c \in CanonicalIds \ Reported(L.loans) : L.canonical[c] = NoLoan
<1>1. Reported(L.loans) \in SUBSET CanonicalIds
  BY CanonicalType DEF Reported, Opened
<1>2. \A c \in CanonicalIds : L.canonical[c].outstanding \in Nat
  BY LoanAmounts
<1>3. CanonicalDebt(L) \in [CanonicalIds -> Nat]
  BY <1>2 DEF CanonicalDebt
<1>4. \A c \in CanonicalIds : c \in Reported(L.loans) <=> AliasesOf(L.loans, c) # {}
  BY DEF Reported, AliasesOf
<1>5. ASSUME NEW c \in Reported(L.loans)
      PROVE  /\ \E d \in AliasesOf(L.loans, c) : L.loans[d].outstanding = CanonicalDebt(L)[c]
             /\ \A d \in AliasesOf(L.loans, c) : CanonicalDebt(L)[c] <= L.loans[d].outstanding
  <2>1. c \in CanonicalIds /\ AliasesOf(L.loans, c) # {}
    BY <1>1, <1>4
  <2>2. CanonicalDebt(L)[c] = L.canonical[c].outstanding
    BY <2>1 DEF CanonicalDebt
  <2> QED BY <2>1, <2>2 DEF CanonicalFits
<1>6. \A d \in Debts : L.loans[d].outstanding \in Nat
  BY LoanAmounts
<1>7. UniqueDebtOf(L.loans) = SumFunctionOnSet(CanonicalDebt(L), Reported(L.loans))
  BY <1>5, <1>6, UniqueDebtIs
<1>8. \A c \in CanonicalIds \ Reported(L.loans) : L.canonical[c] = NoLoan
  BY <1>4 DEF CanonicalFits
<1> QED BY <1>1, <1>3, <1>7, <1>8

LEMMA DebtsGain ==
  ASSUME LedgerTypeOK, NEW L \in Ledger, DebtsFit(L),
         NEW d \in Debts, NEW next \in Loan, Balanced(next), next.sequence # 0,
         AcceptsState(L, d, next), NEW L2, Counted(L, d, next, L2)
  PROVE  /\ DebtsFit(L2) /\ L2.totalDebt \in Uint
         /\ L2.loans \in [Debts -> Loan] /\ L2.canonical \in [CanonicalIds -> Loan]
         /\ L2.relationLocked \in SUBSET Debts
<1> DEFINE c == CanonicalDebtId(d)
           known == L.canonical[c]
           after == CanonicalAfter(known, next)
           ids == Reported(L.loans)
           ids2 == Reported(L2.loans)
           f == CanonicalDebt(L)
           f2 == CanonicalDebt(L2)
<1>1. /\ L.loans \in [Debts -> Loan] /\ L.canonical \in [CanonicalIds -> Loan]
      /\ L.relationLocked \in SUBSET Debts /\ L.totalDebt \in Uint
      /\ c \in CanonicalIds /\ known \in Loan
  BY LedgerFields, CanonicalType
<1>2. /\ L2.loans = [L.loans EXCEPT ![d] = next]
      /\ L2.canonical = [L.canonical EXCEPT ![c] = after]
      /\ L2.relationLocked = L.relationLocked \cup {d}
      /\ L2.totalDebt = L.totalDebt + after.outstanding - known.outstanding
  BY DEF Counted, DebtAfter
<1>3. after \in Loan /\ (after = next \/ after = known)
  BY <1>1 DEF CanonicalAfter
<1>4. L2.loans \in [Debts -> Loan] /\ L2.canonical \in [CanonicalIds -> Loan]
      /\ L2.relationLocked \in SUBSET Debts
  BY <1>1, <1>2, <1>3
<1>5. \A x \in CanonicalIds : CanonicalFits(L2, x)
  BY CanonicalGains
<1>6. Opened(L2.loans) = Opened(L.loans) \cup {d}
  BY <1>1, <1>2 DEF Opened
<1>7. Opened(L2.loans) \subseteq L2.relationLocked
  BY <1>2, <1>6 DEF DebtsFit
<1>8. \A x \in Debts : Balanced(L2.loans[x])
  BY <1>1, <1>2 DEF DebtsFit
<1>9. ids2 = ids \cup {c}
  BY <1>6 DEF Reported
<1>10. /\ UniqueDebtOf(L.loans) = SumFunctionOnSet(f, ids)
       /\ f \in [CanonicalIds -> Nat] /\ ids \in SUBSET CanonicalIds
       /\ \A x \in CanonicalIds \ ids : L.canonical[x] = NoLoan
  BY <1>1, CountedDebt DEF DebtsFit
<1>11. /\ UniqueDebtOf(L2.loans) = SumFunctionOnSet(f2, ids2)
       /\ f2 \in [CanonicalIds -> Nat]
  BY <1>4, <1>5, CountedDebt
<1>12. /\ f[c] = known.outstanding /\ f2[c] = after.outstanding
       /\ \A x \in CanonicalIds \ {c} : f2[x] = f[x]
  BY <1>1, <1>2 DEF CanonicalDebt
<1>13. c \notin ids => f[c] = 0
  BY <1>1, <1>10, <1>12 DEF NoLoan
<1>14. IsFiniteSet(ids) /\ IsFiniteSet(ids2)
  BY ReportedFinite
<1>15. L.totalDebt = SumFunctionOnSet(f, ids)
  BY <1>10 DEF DebtsFit
<1>16. L2.totalDebt = SumFunctionOnSet(f2, ids2)
  <2> HIDE DEF ids, ids2, f, f2, known, after, c
  <2>1. /\ \A x \in ids : f[x] \in Nat
        /\ \A x \in ids2 : f2[x] \in Nat
    BY <1>1, <1>9, <1>10, <1>11
  <2>2. ids \ {c} = ids2 \ {c} /\ \A x \in ids \ {c} : f[x] = f2[x]
    BY <1>9, <1>10, <1>12
  <2>3. SumFunctionOnSet(f2, ids2) + (IF c \in ids THEN f[c] ELSE 0)
          = SumFunctionOnSet(f, ids) + (IF c \in ids2 THEN f2[c] ELSE 0)
    BY <1>14, <2>1, <2>2, SumOneChange
  <2>4. SumFunctionOnSet(f2, ids2) + f[c] = SumFunctionOnSet(f, ids) + f2[c]
    BY <1>9, <1>13, <2>3
  <2>5. SumFunctionOnSet(f2, ids2) \in Nat /\ SumFunctionOnSet(f, ids) \in Nat
    BY <1>14, <2>1, SumNat
  <2>6. f[c] \in Nat /\ f2[c] \in Nat
    BY <1>1, <1>10, <1>11
  <2> QED BY <1>2, <1>12, <1>15, <2>4, <2>5, <2>6
<1>17. L2.totalDebt = UniqueDebtOf(L2.loans)
  BY <1>11, <1>16
<1>18. L2.totalDebt \in Nat
  <2>1. \A x \in ids2 : f2[x] \in Nat
    BY <1>1, <1>9, <1>10, <1>11
  <2> HIDE DEF ids2, f2
  <2> QED BY <1>14, <1>16, <2>1, SumNat
<1>19. L2.totalDebt <= MaxUint
  <2>1. /\ known.outstanding \in Nat /\ next.outstanding \in Nat
        /\ next.principal \in Nat /\ L.totalDebt \in Nat /\ L.totalDebt <= MaxUint
    <3>1. known.outstanding \in Nat /\ next.outstanding \in Nat /\ next.principal \in Nat
      BY <1>1, LoanAmounts
    <3>2. L.totalDebt \in Nat /\ L.totalDebt <= MaxUint
      BY <1>1, MaxUintAssumption DEF Uint
    <3> QED BY <3>1, <3>2
  <2>2. CASE known.sequence # 0
    <3>1. after = next => next.outstanding <= known.outstanding
      BY <2>1, <2>2, <1>3 DEF CanonicalAfter
    <3> HIDE DEF known, after
    <3> QED BY <1>2, <1>3, <2>1, <3>1, MaxUintAssumption
  <2>3. CASE known.sequence = 0
    <3>1. AliasesOf(L.loans, c) = {}
      BY <1>1, <2>3 DEF DebtsFit, CanonicalFits
    <3>2. L.loans[d].sequence = 0 /\ known = NoLoan
      BY <1>1, <3>1 DEF DebtsFit, CanonicalFits, AliasesOf, Opened
    <3>3. L.totalDebt + next.principal <= MaxUint /\ next.outstanding = next.principal
      BY <2>3, <3>2 DEF AcceptsState, AcceptsOpening
    <3>4. known.outstanding = 0 /\ after = next
      BY <3>2 DEF NoLoan, CanonicalAfter
    <3> HIDE DEF known, after
    <3> QED BY <1>2, <2>1, <3>3, <3>4, MaxUintAssumption
  <2> QED BY <2>2, <2>3
<1>20. L2.totalDebt \in Uint
  BY <1>18, <1>19, Numbers
<1> QED BY <1>4, <1>5, <1>7, <1>8, <1>17, <1>20 DEF DebtsFit

-----------------------------------------------------------------------------
(* One log of a receipt. *)
LEMMA StateFields ==
  ASSUME NEW L \in Ledger, NEW s \in Registered
  PROVE  LET state == L.sources[s]
         IN  /\ state \in SourceState /\ state.totals \in Totals
             /\ state.totals.historyRoot \in History /\ state.totals.eventCount \in Nat
             /\ state.checkpointEpoch \in Nat /\ state.checkpointEventCount \in Nat
             /\ state.checkpointTimestamp \in Nat /\ state.sealedSource \in BOOLEAN
<1> DEFINE state == L.sources[s]
<1>1. state \in SourceState
  BY LedgerFields
<1> HIDE DEF state
<1>2. /\ state.totals \in Totals /\ state.checkpointEpoch \in Nat
      /\ state.checkpointEventCount \in Nat /\ state.checkpointTimestamp \in Nat
      /\ state.sealedSource \in BOOLEAN
  BY <1>1 DEF SourceState
<1>3. state.totals.historyRoot \in History /\ state.totals.eventCount \in Nat
  BY <1>2 DEF Totals
<1> QED BY <1>1, <1>2, <1>3 DEF state

LEMMA LedgerShape ==
  ASSUME NEW L, L = [field \in DOMAIN L |-> L[field]],
         DOMAIN L = {"sources", "loans", "canonical", "relationLocked", "totalDebt",
                     "stateVersion"},
         L.sources \in [Registered -> SourceState], L.loans \in [Debts -> Loan],
         L.canonical \in [CanonicalIds -> Loan], L.relationLocked \in SUBSET Debts,
         L.totalDebt \in Uint, L.stateVersion \in Nat
  PROVE  L \in Ledger
BY DEF Ledger

LEMMA LoanAppliedFields ==
  ASSUME NEW L \in Ledger, NEW log \in Log, log.type = "LoanState",
         log.emitter \in Registered, NEW query \in Nat, NEW i \in Nat \ {0},
         TotalsAfter(L, <<log.emitter, log.loanId>>, log) \in Totals
  PROVE  LET s  == log.emitter
             d  == <<s, log.loanId>>
             L2 == Applied(L, query, log, i)
             st == [L.sources[s] EXCEPT !.totals = TotalsAfter(L, d, log),
                                        !.lastTimestamp = log.loan.timestamp,
                                        !.lastPosition = PositionOf(query, i),
                                        !.seen = TRUE]
         IN  /\ L2.sources = [L.sources EXCEPT ![s] = st]
             /\ L2.stateVersion = L.stateVersion + 1
             /\ L2 = [field \in DOMAIN L2 |-> L2[field]]
             /\ DOMAIN L2 = {"sources", "loans", "canonical", "relationLocked",
                             "totalDebt", "stateVersion"}
             /\ st \in SourceState
             /\ Counted(L, d, log.loan, L2)
<1> DEFINE s == log.emitter
           d == <<s, log.loanId>>
           T == TotalsAfter(L, d, log)
           c == CanonicalDebtId(d)
           can == [L.canonical EXCEPT ![c] = CanonicalAfter(@, log.loan)]
           debt == DebtAfter(L, d, log.loan)
           M == [L EXCEPT
                   !.sources[s].totals = T, !.sources[s].lastTimestamp = log.loan.timestamp,
                   !.loans[d] = log.loan, !.canonical[c] = CanonicalAfter(@, log.loan),
                   !.relationLocked = @ \cup {d}, !.totalDebt = debt]
           L2 == [M EXCEPT !.sources[s].lastPosition = PositionOf(query, i),
                           !.sources[s].seen = TRUE, !.stateVersion = @ + 1]
           st == [L.sources[s] EXCEPT !.totals = T, !.lastTimestamp = log.loan.timestamp,
                                      !.lastPosition = PositionOf(query, i), !.seen = TRUE]
           st1 == [L.sources[s] EXCEPT !.totals = T, !.lastTimestamp = log.loan.timestamp]
<1>1. Applied(L, query, log, i) = L2
  BY DEF Applied, LoanApplied
<1>2. T \in Totals /\ log.loan \in Loan /\ PositionOf(query, i) \in Position
  <2>1. log.loan \in Loan
    BY LogOf
  <2> HIDE DEF T
  <2> QED BY <2>1 DEF PositionOf, Position, T
<1>3. L.sources \in [Registered -> SourceState] /\ L.sources[s] \in SourceState
  BY LedgerFields
<1>4. log.loan.timestamp \in Nat
  BY <1>2 DEF Loan
<1> HIDE DEF T, c, debt
<1>5. st \in SourceState
  BY <1>2, <1>3, <1>4 DEF SourceState
<1>6. /\ M.sources = [L.sources EXCEPT ![s] = st1]
      /\ M.loans = [L.loans EXCEPT ![d] = log.loan] /\ M.canonical = can
      /\ M.relationLocked = L.relationLocked \cup {d} /\ M.totalDebt = debt
      /\ M.stateVersion = L.stateVersion
  BY <1>3 DEF Ledger
<1>7. /\ M = [field \in DOMAIN M |-> M[field]]
      /\ DOMAIN M = {"sources", "loans", "canonical", "relationLocked", "totalDebt",
                     "stateVersion"}
  BY DEF Ledger
<1> HIDE DEF M
<1>8. /\ L2.sources = [L.sources EXCEPT ![s] = st]
      /\ L2.loans = M.loans /\ L2.canonical = M.canonical
      /\ L2.relationLocked = M.relationLocked /\ L2.totalDebt = M.totalDebt
      /\ L2.stateVersion = M.stateVersion + 1
  BY <1>3, <1>6, <1>7
<1>9. /\ L2 = [field \in DOMAIN L2 |-> L2[field]]
      /\ DOMAIN L2 = {"sources", "loans", "canonical", "relationLocked", "totalDebt",
                      "stateVersion"}
  <2> HIDE DEF can, st, st1
  <2>1. DOMAIN L2 = DOMAIN M
    OBVIOUS
  <2>2. L2 = [field \in DOMAIN L2 |-> L2[field]]
    <3> DEFINE sources2 == [M.sources EXCEPT ![s].lastPosition = PositionOf(query, i),
                                             ![s].seen = TRUE]
               version2 == M.stateVersion + 1
    <3>1. L2 = [M EXCEPT !.sources = sources2, !.stateVersion = version2]
      OBVIOUS
    <3> HIDE DEF sources2, version2, L2
    <3> QED BY <3>1
  <2> QED BY <1>7, <2>1, <2>2
<1> HIDE DEF L2, st, can, st1
<1> QED BY <1>1, <1>5, <1>6, <1>8, <1>9 DEF Counted, T, c, debt, can, st

LEMMA RegisteredSource == Registered \subseteq Sources
BY LedgerConstants DEF ValidScope

LEMMA LoansOfType ==
  ASSUME NEW L, L.loans \in [Debts -> Loan], NEW s \in Registered
  PROVE  /\ LoansOf(L, s) \in [LoanIds -> Loan]
         /\ \A id \in LoanIds : <<s, id>> \in Debts /\ LoansOf(L, s)[id] = L.loans[<<s, id>>]
<1>1. \A id \in LoanIds : <<s, id>> \in Debts
  BY DEF Debts
<1> QED BY <1>1 DEF LoansOf

(* An event the ledger accepts is the source's next one. *)
LEMMA NextEvent ==
  ASSUME SourceTypeOK, ChainInv, NEW L \in Ledger, LedgerFits(L),
         NEW log \in Log, log.type = "LoanState", log.emitter \in Registered,
         Genuine(log, loans[log.emitter], books[log.emitter]), AcceptsLoan(L, log, now)
  PROVE  LET s      == log.emitter
             d      == <<s, log.loanId>>
             totals == L.sources[s].totals
             e      == [loanId |-> log.loanId, loan |-> log.loan]
             T      == TotalsAfter(L, d, log)
         IN  /\ e \in Event /\ d \in Debts
             /\ totals.eventCount + 1 \in 1..Len(HistoryOf(s))
             /\ HistoryOf(s)[totals.eventCount + 1] = e
             /\ T.eventCount = totals.eventCount + 1
             /\ T.historyRoot = Append(totals.historyRoot, e)
             /\ Records(LoansOf(L, s), totals, e, [LoansOf(L, s) EXCEPT ![log.loanId] = log.loan], T)
             /\ Balanced(log.loan) /\ log.loan.sequence # 0
             /\ AcceptsState(L, d, log.loan)
<1> DEFINE s == log.emitter
           id == log.loanId
           next == log.loan
           d == <<s, id>>
           totals == L.sources[s].totals
           e == [loanId |-> id, loan |-> next]
           T == TotalsAfter(L, d, log)
           old == L.loans[d]
<1>1. /\ s \in Registered /\ s \in Sources /\ id \in LoanIds /\ next \in Loan
      /\ d \in Debts /\ e \in Event
  BY LogOf, RegisteredSource DEF Debts, Event
<1>2. /\ totals \in Totals /\ totals.historyRoot \in History /\ totals.eventCount \in Nat
  BY StateFields
<1>3. /\ L.loans \in [Debts -> Loan] /\ LoansOf(L, s) \in [LoanIds -> Loan]
      /\ LoansOf(L, s)[id] = old /\ old \in Loan
  BY <1>1, LedgerFields, LoansOfType
<1>4. /\ next.eventSequence = totals.eventCount + 1
      /\ next.sequence = old.sequence + 1 /\ AcceptsState(L, d, next)
  BY DEF AcceptsLoan, AcceptsState
<1>5. /\ next.eventSequence \in 1..Len(HistoryOf(s))
      /\ HistoryOf(s)[next.eventSequence] = e
  BY DEF Genuine, HistoryOf
<1>6. /\ T.loanCount = totals.loanCount + (IF old.sequence = 0 THEN 1 ELSE 0)
      /\ T.eventCount = next.eventSequence
      /\ T.historyRoot = Append(totals.historyRoot, e)
      /\ T.totalIssued = totals.totalIssued + (IF old.sequence = 0 THEN next.principal ELSE 0)
      /\ T.totalRepaid = totals.totalRepaid + (next.repaid - old.repaid)
  BY DEF TotalsAfter
<1>7. old.sequence = 0 => old = NoLoan
  <2>1. MirrorFits(LoansOf(L, s), totals, HistoryOf(s))
    BY DEF LedgerFits, Mirrored
  <2> QED BY <1>1, <1>2, <1>3, <2>1, MirrorTells
<1>8. /\ next.principal \in Nat /\ next.repaid \in Nat /\ next.outstanding \in Nat
      /\ old.principal \in Nat /\ old.repaid \in Nat /\ old.sequence \in Nat
      /\ totals.totalIssued \in Nat /\ totals.totalRepaid \in Nat
  BY <1>1, <1>2, <1>3, LoanAmounts, Numbers DEF Totals
<1>9. CASE old.sequence = 0
  <2>1. /\ next.repaid = 0 /\ next.outstanding = next.principal
        /\ old.principal = 0 /\ old.repaid = 0
    BY <1>4, <1>7, <1>9 DEF AcceptsState, AcceptsOpening, NoLoan
  <2> HIDE DEF next, old, totals, T, e, d
  <2>2. Balanced(next)
    BY <1>8, <2>1 DEF Balanced
  <2>3. /\ T.totalIssued \in Nat /\ T.totalRepaid \in Nat
        /\ T.totalIssued + old.principal = totals.totalIssued + next.principal
        /\ T.totalRepaid + old.repaid = totals.totalRepaid + next.repaid
    BY <1>6, <1>8, <1>9, <2>1
  <2>4. next.sequence # 0
    BY <1>4, <1>8
  <2>5. e.loan = next /\ e.loanId = id
    BY DEF e
  <2>6. Records(LoansOf(L, s), totals, e, [LoansOf(L, s) EXCEPT ![id] = next], T)
    BY <1>3, <1>6, <2>3, <2>5 DEF Records
  <2> QED BY <1>1, <1>4, <1>5, <1>6, <2>2, <2>4, <2>6 DEF e, d, next, old, totals, T
<1>10. CASE old.sequence # 0
  <2>1. /\ next.principal = old.principal /\ next.repaid > old.repaid
        /\ next.repaid <= next.principal
        /\ next.outstanding = next.principal - next.repaid
    BY <1>4, <1>10 DEF AcceptsState, AcceptsRepayment, SameDebt
  <2> HIDE DEF next, old, totals, T, e, d
  <2>2. Balanced(next)
    BY <1>8, <2>1 DEF Balanced
  <2>3. /\ T.totalIssued \in Nat /\ T.totalRepaid \in Nat
        /\ T.totalIssued + old.principal = totals.totalIssued + next.principal
        /\ T.totalRepaid + old.repaid = totals.totalRepaid + next.repaid
    BY <1>6, <1>8, <1>10, <2>1
  <2>4. next.sequence # 0
    BY <1>4, <1>8
  <2>5. e.loan = next /\ e.loanId = id
    BY DEF e
  <2>6. Records(LoansOf(L, s), totals, e, [LoansOf(L, s) EXCEPT ![id] = next], T)
    BY <1>3, <1>6, <2>3, <2>5 DEF Records
  <2> QED BY <1>1, <1>4, <1>5, <1>6, <2>2, <2>4, <2>6 DEF e, d, next, old, totals, T
<1> QED BY <1>9, <1>10

(* What one log adds. *)
OneLater(L, L2) ==
  /\ L2.stateVersion = L.stateVersion + 1
  /\ \A s \in Registered :
       L.sources[s].totals.eventCount <= L2.sources[s].totals.eventCount

LEMMA LoanLogApplied ==
  ASSUME SourceTypeOK, ChainInv, LedgerTypeOK, NEW L, LedgerFits(L),
         NEW log \in Log, log.type = "LoanState", log.emitter \in Registered,
         Genuine(log, loans[log.emitter], books[log.emitter]), AcceptsLoan(L, log, now),
         NEW query \in Nat, NEW i \in Nat \ {0}
  PROVE  LedgerFits(Applied(L, query, log, i)) /\ OneLater(L, Applied(L, query, log, i))
<1> DEFINE s == log.emitter
           id == log.loanId
           next == log.loan
           d == <<s, id>>
           totals == L.sources[s].totals
           e == [loanId |-> id, loan |-> next]
           T == TotalsAfter(L, d, log)
           L2 == Applied(L, query, log, i)
           st == [L.sources[s] EXCEPT !.totals = T, !.lastTimestamp = next.timestamp,
                                      !.lastPosition = PositionOf(query, i), !.seen = TRUE]
<1>1. L \in Ledger /\ DebtsFit(L)
  BY DEF LedgerFits
<1>2. /\ e \in Event /\ d \in Debts /\ s \in Registered /\ s \in Sources
      /\ id \in LoanIds /\ next \in Loan
  BY <1>1, LogOf, NextEvent, RegisteredSource
<1>3. /\ totals.eventCount + 1 \in 1..Len(HistoryOf(s))
      /\ HistoryOf(s)[totals.eventCount + 1] = e
      /\ T.eventCount = totals.eventCount + 1
      /\ T.historyRoot = Append(totals.historyRoot, e)
      /\ Records(LoansOf(L, s), totals, e, [LoansOf(L, s) EXCEPT ![id] = next], T)
      /\ Balanced(next) /\ next.sequence # 0 /\ AcceptsState(L, d, next)
  BY <1>1, NextEvent
<1>4. /\ L.loans \in [Debts -> Loan] /\ LoansOf(L, s) \in [LoanIds -> Loan]
      /\ L.sources \in [Registered -> SourceState] /\ L.stateVersion \in Nat
  BY <1>1, <1>2, LedgerFields, LoansOfType
<1>5. /\ totals \in Totals /\ totals.historyRoot \in History /\ totals.eventCount \in Nat
      /\ L.sources[s].checkpointEventCount \in Nat
  BY <1>1, <1>2, StateFields
<1> DEFINE loansOf2 == [LoansOf(L, s) EXCEPT ![id] = next]
<1>6. MirrorFits(loansOf2, T, HistoryOf(s))
  <2>1. MirrorFits(LoansOf(L, s), totals, HistoryOf(s))
    BY <1>2 DEF LedgerFits, Mirrored
  <2> HIDE DEF totals, T, e
  <2> QED BY <1>2, <1>3, <1>4, <1>5, <2>1, MirrorGains
<1>7. loansOf2 \in [LoanIds -> Loan]
  BY <1>2, <1>4
<1>8. T \in Totals
  <2>1. T = [loanCount |-> T.loanCount, eventCount |-> T.eventCount,
             historyRoot |-> T.historyRoot, totalIssued |-> T.totalIssued,
             totalRepaid |-> T.totalRepaid]
    BY DEF TotalsAfter
  <2>2. T.historyRoot \in History
    BY <1>2, <1>3, <1>5, Appended
  <2> HIDE DEF T, loansOf2
  <2>3. /\ T.loanCount \in Nat /\ T.eventCount \in Nat
        /\ T.totalIssued \in Uint /\ T.totalRepaid \in Uint
    BY <1>2, <1>6, <1>7, <2>2, MirrorAmounts
  <2> QED BY <2>1, <2>2, <2>3 DEF Totals
<1>9. /\ L2.sources = [L.sources EXCEPT ![s] = st]
      /\ L2.stateVersion = L.stateVersion + 1
      /\ L2 = [field \in DOMAIN L2 |-> L2[field]]
      /\ DOMAIN L2 = {"sources", "loans", "canonical", "relationLocked", "totalDebt",
                      "stateVersion"}
      /\ st \in SourceState
      /\ Counted(L, d, next, L2)
  BY <1>1, <1>2, <1>8, LoanAppliedFields
<1>10. st.totals = T /\ \A field \in {"sealedSource", "checkpointEpoch",
           "checkpointEventCount", "checkpointTimestamp"} : st[field] = L.sources[s][field]
  <2>1. L.sources[s] \in SourceState
    BY <1>2, <1>4
  <2> HIDE DEF T, next
  <2> QED BY <2>1 DEF SourceState
<1> HIDE DEF L2, st, T, totals, e, d, loansOf2
<1>11. /\ DebtsFit(L2) /\ L2.totalDebt \in Uint
       /\ L2.loans \in [Debts -> Loan] /\ L2.canonical \in [CanonicalIds -> Loan]
       /\ L2.relationLocked \in SUBSET Debts
  BY <1>1, <1>2, <1>3, <1>9, DebtsGain
<1>12. /\ L2.sources = [L.sources EXCEPT ![s] = st] /\ L2.stateVersion = L.stateVersion + 1
  BY <1>9
<1>13. L2 \in Ledger
  <2>1. [L.sources EXCEPT ![s] = st] \in [Registered -> SourceState]
    BY <1>4, <1>9
  <2>2. L.stateVersion + 1 \in Nat
    BY <1>4
  <2> QED BY <1>9, <1>11, <2>1, <2>2, LedgerShape
<1>14. L2.loans = [L.loans EXCEPT ![d] = next]
  BY <1>9 DEF Counted
<1>15. LoansOf(L2, s) = loansOf2
  <2>1. \A x \in LoanIds : L2.loans[<<s, x>>] = IF x = id THEN next ELSE L.loans[<<s, x>>]
    BY <1>2, <1>4, <1>14, LoansOfType DEF d
  <2> QED BY <1>2, <1>4, <2>1 DEF LoansOf, loansOf2
<1>16. Mirrored(L2, s)
  BY <1>2, <1>4, <1>6, <1>10, <1>12, <1>15 DEF Mirrored
<1>17. Checkpointed(L2, s)
  <2>1. L2.sources[s] = st
    BY <1>2, <1>4, <1>12
  <2>2. /\ Checkpointed(L, s)
        /\ st.sealedSource = L.sources[s].sealedSource
        /\ st.checkpointEpoch = L.sources[s].checkpointEpoch
        /\ st.checkpointTimestamp = L.sources[s].checkpointTimestamp
        /\ st.checkpointEventCount = L.sources[s].checkpointEventCount
    BY <1>2, <1>10 DEF LedgerFits
  <2>3. st.totals.eventCount > st.checkpointEventCount
    BY <1>3, <1>5, <1>10, <2>2 DEF Checkpointed, totals
  <2>8. st.checkpointEventCount <= st.totals.eventCount
    BY <1>3, <1>5, <1>10, <2>2, <2>3
  <2>9. CASE ~st.sealedSource
    BY <2>1, <2>8, <2>9 DEF Checkpointed
  <2> SUFFICES ASSUME st.sealedSource PROVE Checkpointed(L2, s)
    BY <2>9
  <2>4. \A x \in LoanIds : loans[s][x].sequence # 0 => L2.loans[<<s, x>>].sequence # 0
    <3>1. \A x \in LoanIds : <<s, x>> \in Debts
      BY <1>2, <1>4, LoansOfType
    <3> QED BY <1>3, <1>4, <1>14, <2>2, <3>1 DEF Checkpointed
  <2>5. \A l : LastCheckpoint(L, s, l) => LastCheckpoint(L2, s, l)
    <3>1. st.totals.eventCount # st.checkpointEventCount
      BY <1>3, <1>5, <1>10, <2>2, <2>3
    <3> QED BY <2>1, <2>2, <3>1 DEF LastCheckpoint
  <2>6. PICK a \in 1..Len(receipts) : \E b \in 1..Len(receipts[a]) :
          LastCheckpoint(L, s, receipts[a][b])
    BY <2>2 DEF Checkpointed
  <2>7. \E b \in 1..Len(receipts[a]) : LastCheckpoint(L2, s, receipts[a][b])
    BY <2>5, <2>6
  <2> QED BY <2>1, <2>2, <2>4, <2>7, <2>8 DEF Checkpointed
<1>18. ASSUME NEW t \in Registered \ {s} PROVE Mirrored(L2, t) /\ Checkpointed(L2, t)
  <2>1. L2.sources[t] = L.sources[t]
    BY <1>4, <1>12
  <2>2. \A x \in LoanIds : L2.loans[<<t, x>>] = L.loans[<<t, x>>]
    BY <1>2, <1>4, <1>14, LoansOfType DEF d
  <2>3. LoansOf(L2, t) = LoansOf(L, t)
    BY <2>2 DEF LoansOf
  <2>4. \A l : LastCheckpoint(L2, t, l) <=> LastCheckpoint(L, t, l)
    BY <2>1 DEF LastCheckpoint
  <2>5. Mirrored(L, t) /\ Checkpointed(L, t)
    BY DEF LedgerFits
  <2> QED BY <2>1, <2>2, <2>3, <2>4, <2>5 DEF Mirrored, Checkpointed
<1>19. OneLater(L, L2)
  <2>1. \A t \in Registered : L.sources[t].totals.eventCount \in Nat
    BY <1>1, StateFields
  <2>2. L2.sources[s].totals.eventCount = L.sources[s].totals.eventCount + 1
    BY <1>2, <1>3, <1>4, <1>10, <1>12 DEF totals
  <2>3. \A t \in Registered \ {s} : L2.sources[t] = L.sources[t]
    BY <1>4, <1>12
  <2> QED BY <1>2, <1>12, <2>1, <2>2, <2>3 DEF OneLater
<1> QED BY <1>11, <1>13, <1>16, <1>17, <1>18, <1>19 DEF LedgerFits, L2

LEMMA CheckpointLogApplied ==
  ASSUME SourceTypeOK, ChainInv, LedgerTypeOK, NEW L, LedgerFits(L),
         NEW query \in 1..Len(receipts), NEW i \in 1..Len(receipts[query]),
         NEW log \in Log, log = receipts[query][i],
         log.type = "Checkpoint", log.emitter \in Registered,
         Genuine(log, loans[log.emitter], books[log.emitter]), AcceptsCheckpoint(L, log, now)
  PROVE  LedgerFits(Applied(L, query, log, i)) /\ OneLater(L, Applied(L, query, log, i))
<1> DEFINE s == log.emitter
           L2 == Applied(L, query, log, i)
           st == [L.sources[s] EXCEPT
                    !.sealedSource = TRUE, !.checkpointEpoch = log.epoch,
                    !.checkpointEventCount = log.totals.eventCount,
                    !.checkpointTimestamp = log.timestamp, !.lastTimestamp = log.timestamp,
                    !.lastPosition = PositionOf(query, i), !.seen = TRUE]
<1>1. L \in Ledger /\ DebtsFit(L)
  BY DEF LedgerFits
<1>2. /\ s \in Registered /\ s \in Sources /\ log.epoch \in Nat
      /\ log.totals \in Totals /\ log.timestamp \in Nat
      /\ query \in Nat /\ i \in Nat \ {0}
  BY LogOf, RegisteredSource
<1>3. /\ L.sources \in [Registered -> SourceState] /\ L.stateVersion \in Nat
      /\ L.loans \in [Debts -> Loan]
  BY <1>1, LedgerFields
<1>4. /\ L.sources[s] \in SourceState /\ L.sources[s].totals \in Totals
      /\ L.sources[s].totals.historyRoot \in History
      /\ L.sources[s].totals.eventCount \in Nat
  <2> HIDE DEF s
  <2> QED BY <1>1, <1>2, StateFields
<1>5. log.totals = L.sources[s].totals /\ log.timestamp <= now
  BY DEF AcceptsCheckpoint
<1>6. /\ st \in SourceState /\ st.totals = L.sources[s].totals
      /\ st.sealedSource /\ st.checkpointEpoch = log.epoch
      /\ st.checkpointEventCount = st.totals.eventCount
      /\ st.checkpointTimestamp = log.timestamp
  <2>1. PositionOf(query, i) \in Position /\ log.totals.eventCount \in Nat
    BY <1>2, <1>4, <1>5 DEF PositionOf, Position
  <2> QED BY <1>2, <1>4, <1>5, <2>1 DEF SourceState
<1> HIDE DEF s
<1> DEFINE st1 == [L.sources[s] EXCEPT
                    !.sealedSource = TRUE, !.checkpointEpoch = log.epoch,
                    !.checkpointEventCount = log.totals.eventCount,
                    !.checkpointTimestamp = log.timestamp, !.lastTimestamp = log.timestamp]
           M == [L EXCEPT !.sources[s] = st1]
<1>7. L2 = [M EXCEPT !.sources[s].lastPosition = PositionOf(query, i),
                     !.sources[s].seen = TRUE, !.stateVersion = @ + 1]
  BY DEF Applied, CheckpointApplied, s
<1> HIDE DEF L2
<1>8. /\ L2.sources = [L.sources EXCEPT ![s] = st]
      /\ L2.loans = L.loans /\ L2.canonical = L.canonical
      /\ L2.relationLocked = L.relationLocked /\ L2.totalDebt = L.totalDebt
      /\ L2.stateVersion = L.stateVersion + 1
      /\ L2 \in Ledger
  <2>1. st = [st1 EXCEPT !.lastPosition = PositionOf(query, i), !.seen = TRUE]
    BY <1>4 DEF SourceState
  <2> HIDE DEF st, st1
  <2>2. /\ M.sources = [L.sources EXCEPT ![s] = st1] /\ M.loans = L.loans
        /\ M.canonical = L.canonical /\ M.relationLocked = L.relationLocked
        /\ M.totalDebt = L.totalDebt /\ M.stateVersion = L.stateVersion
        /\ M = [field \in DOMAIN M |-> M[field]]
        /\ DOMAIN M = {"sources", "loans", "canonical", "relationLocked", "totalDebt",
                       "stateVersion"}
    BY <1>1, <1>3 DEF Ledger
  <2> HIDE DEF M
  <2>3. /\ L2.sources = [M.sources EXCEPT ![s] =
                           [M.sources[s] EXCEPT !.lastPosition = PositionOf(query, i),
                                                !.seen = TRUE]]
        /\ L2.loans = M.loans /\ L2.canonical = M.canonical
        /\ L2.relationLocked = M.relationLocked /\ L2.totalDebt = M.totalDebt
        /\ L2.stateVersion = M.stateVersion + 1
        /\ L2 = [field \in DOMAIN L2 |-> L2[field]]
        /\ DOMAIN L2 = {"sources", "loans", "canonical", "relationLocked", "totalDebt",
                       "stateVersion"}
    BY <1>2, <1>3, <1>7, <2>2
  <2>4. M.sources[s] = st1
    BY <1>2, <1>3, <2>2
  <2>5. L2.sources = [L.sources EXCEPT ![s] = st]
    BY <1>2, <1>3, <2>1, <2>2, <2>3, <2>4
  <2>6. [L.sources EXCEPT ![s] = st] \in [Registered -> SourceState]
    BY <1>3, <1>6
  <2>7. /\ L.canonical \in [CanonicalIds -> Loan] /\ L.relationLocked \in SUBSET Debts
        /\ L.totalDebt \in Uint /\ L.stateVersion + 1 \in Nat
    BY <1>1, <1>3, LedgerFields
  <2>8. L2 \in Ledger
    BY <1>3, <2>2, <2>3, <2>5, <2>6, <2>7, LedgerShape
  <2> QED BY <2>2, <2>3, <2>5, <2>8
<1> HIDE DEF st
<1>9. DebtsFit(L2)
  BY <1>1, <1>8 DEF DebtsFit, CanonicalFits
<1>10. ASSUME NEW t \in Registered PROVE Mirrored(L2, t)
  <2>1. L2.sources[t].totals = L.sources[t].totals /\ LoansOf(L2, t) = LoansOf(L, t)
    BY <1>3, <1>6, <1>8 DEF LoansOf
  <2> QED BY <2>1 DEF LedgerFits, Mirrored
<1>11. Checkpointed(L2, s)
  <2>1. L2.sources[s] = st
    BY <1>2, <1>3, <1>8
  <2>2. books[s].sealedSource /\ log.epoch <= MaxEpoch
        /\ \A id \in LoanIds : loans[s][id].sequence # 0
             => EventsOf(log.totals.historyRoot, id) # {}
    BY DEF Genuine, s
  <2>3. \A id \in LoanIds : loans[s][id].sequence # 0 => L2.loans[<<s, id>>].sequence # 0
    <3>1. MirrorFits(LoansOf(L, s), L.sources[s].totals, HistoryOf(s))
      BY <1>2 DEF LedgerFits, Mirrored
    <3>2. \A id \in LoanIds : LoansOf(L, s)[id].sequence # 0
            <=> EventsOf(L.sources[s].totals.historyRoot, id) # {}
      BY <1>2, <1>4, <3>1, MirrorTells
    <3>3. \A id \in LoanIds : LoansOf(L, s)[id] = L2.loans[<<s, id>>]
      BY <1>2, <1>3, <1>8, LoansOfType
    <3> QED BY <1>5, <2>2, <3>2, <3>3
  <2>4. LastCheckpoint(L2, s, receipts[query][i])
    BY <1>5, <1>6, <2>1 DEF LastCheckpoint, s
  <2>5. st.checkpointEventCount <= st.totals.eventCount
    BY <1>4, <1>6
  <2> QED BY <1>5, <1>6, <2>1, <2>2, <2>3, <2>4, <2>5 DEF Checkpointed
<1>12. ASSUME NEW t \in Registered \ {s} PROVE Checkpointed(L2, t)
  <2>1. L2.sources[t] = L.sources[t] /\ L2.loans = L.loans
    BY <1>3, <1>8
  <2>2. \A l : LastCheckpoint(L2, t, l) <=> LastCheckpoint(L, t, l)
    BY <2>1 DEF LastCheckpoint
  <2>3. Checkpointed(L, t)
    BY DEF LedgerFits
  <2> QED BY <2>1, <2>2, <2>3 DEF Checkpointed
<1>13. OneLater(L, L2)
  <2>1. \A t \in Registered : L.sources[t].totals.eventCount \in Nat
    BY <1>1, StateFields
  <2>2. \A t \in Registered : L2.sources[t].totals = L.sources[t].totals
    BY <1>3, <1>6, <1>8
  <2>3. L2.stateVersion = L.stateVersion + 1
    BY <1>8
  <2> QED BY <2>1, <2>2, <2>3 DEF OneLater
<1> QED BY <1>8, <1>9, <1>10, <1>11, <1>12, <1>13 DEF LedgerFits, L2

-----------------------------------------------------------------------------
(* The loop over a receipt's logs runs turn by turn. *)
LEMMA SubmissionTurns ==
  ASSUME NEW query, NEW logs, Len(logs) \in Nat
  PROVE  Submission(query, logs, now) =
           [i \in 0..Len(logs) |->
              IF i = 0 THEN [ok |-> TRUE, applied |-> 0, ledger |-> ledger]
              ELSE SubmitLog(Submission(query, logs, now)[i - 1], query, logs[i], i, now)]
<1> DEFINE n == Len(logs)
           a == [ok |-> TRUE, applied |-> 0, ledger |-> ledger]
           Solves(h, k) == h = [i \in 0..k |-> IF i = 0 THEN a
                                  ELSE SubmitLog(h[i - 1], query, logs[i], i, now)]
           T == {k \in 0..n : \E h : Solves(h, k)}
<1> HIDE DEF a
<1>1. 0 \in T
  <2> DEFINE h == [i \in 0..0 |-> a]
  <2>1. Solves(h, 0)
    OBVIOUS
  <2> HIDE DEF h, Solves
  <2> QED BY <2>1
<1>2. ASSUME NEW k \in 1..n, k - 1 \in T PROVE k \in T
  <2>1. PICK g : Solves(g, k - 1)
    BY <1>2
  <2> DEFINE h == [i \in 0..k |-> IF i = k THEN SubmitLog(g[k - 1], query, logs[k], k, now)
                                           ELSE g[i]]
  <2>2. ASSUME NEW i \in 0..k
        PROVE  h[i] = IF i = 0 THEN a ELSE SubmitLog(h[i - 1], query, logs[i], i, now)
    <3>1. CASE i = k
      BY <3>1
    <3>2. CASE i # k
      <4>1. i \in 0..(k - 1) /\ (i # 0 => i - 1 \in 0..(k - 1) /\ i - 1 # k)
        BY <3>2
      <4>2. g[i] = IF i = 0 THEN a ELSE SubmitLog(g[i - 1], query, logs[i], i, now)
        BY <2>1, <4>1
      <4> QED BY <4>1, <4>2, <3>2
    <3> QED BY <3>1, <3>2
  <2>3. Solves(h, k)
    BY <2>2
  <2> HIDE DEF h, Solves
  <2> QED BY <2>3
<1>3. n \in T
  <2>1. n \in Nat
    OBVIOUS
  <2> HIDE DEF T, n
  <2> QED BY <2>1, <1>1, <1>2, IndexInduction
<1>4. PICK h : Solves(h, n)
  BY <1>3
<1> DEFINE g == Submission(query, logs, now)
<1>5. g = CHOOSE h1 : Solves(h1, n)
  BY DEF Submission, a
<1> HIDE DEF g
<1>6. Solves(g, n)
  BY <1>4, <1>5
<1> QED BY <1>6 DEF g, a

(* A log the loop accepts keeps what the ledger promises. *)
LEMMA AppliedKeeps ==
  ASSUME SourceTypeOK, ChainInv, LogsInv, LedgerTypeOK, NEW L, LedgerFits(L),
         NEW query \in 1..Len(receipts), NEW i \in 1..Len(receipts[query]),
         Applicable(receipts[query][i]), Accepts(L, query, receipts[query][i], i, now)
  PROVE  /\ LedgerFits(Applied(L, query, receipts[query][i], i))
         /\ OneLater(L, Applied(L, query, receipts[query][i], i))
<1> DEFINE log == receipts[query][i]
<1>1. receipts[query] \in Seq(Log)
  BY DEF SourceTypeOK
<1>2. log \in Log /\ i \in Nat \ {0} /\ query \in Nat
  BY <1>1 DEF SourceTypeOK
<1>3. Genuine(log, loans[log.emitter], books[log.emitter])
  BY DEF LogsInv, GenuineLogs
<1>4. /\ log.emitter \in Registered /\ log.type \in {"LoanState", "Checkpoint"}
      /\ log.type = "LoanState" => AcceptsLoan(L, log, now)
      /\ log.type = "Checkpoint" => AcceptsCheckpoint(L, log, now)
  BY DEF Applicable, Accepts
<1>5. CASE log.type = "LoanState"
  <2> HIDE DEF log
  <2>1. LedgerFits(Applied(L, query, log, i)) /\ OneLater(L, Applied(L, query, log, i))
    BY <1>2, <1>3, <1>4, <1>5, LoanLogApplied
  <2> QED BY <2>1 DEF log
<1>6. CASE log.type = "Checkpoint"
  <2>1. log = receipts[query][i]
    OBVIOUS
  <2> HIDE DEF log
  <2>2. LedgerFits(Applied(L, query, log, i)) /\ OneLater(L, Applied(L, query, log, i))
    BY <1>2, <1>3, <1>4, <1>6, <2>1, CheckpointLogApplied
  <2> QED BY <2>2 DEF log
<1> QED BY <1>4, <1>5, <1>6

(* What an accepted receipt leaves. *)
LaterBy(L, L2, n) ==
  /\ L2.stateVersion = L.stateVersion + n
  /\ \A s \in Registered :
       L.sources[s].totals.eventCount <= L2.sources[s].totals.eventCount

LEMMA SubmissionKeeps ==
  ASSUME SourceTypeOK, ChainInv, LogsInv, LedgerTypeOK, LedgerFits(ledger),
         NEW query \in 1..Len(receipts)
  PROVE  LET logs == receipts[query]
             r    == Submission(query, logs, now)[Len(logs)]
         IN  /\ r.applied \in 0..Len(logs)
             /\ r.ok => LedgerFits(r.ledger) /\ LaterBy(ledger, r.ledger, r.applied)
<1> DEFINE logs == receipts[query]
           n == Len(logs)
           turn == Submission(query, logs, now)
           Good(r, i) == /\ r.applied \in 0..i
                         /\ r.ok => LedgerFits(r.ledger) /\ LaterBy(ledger, r.ledger, r.applied)
           T == {i \in 0..n : Good(turn[i], i)}
           first == [ok |-> TRUE, applied |-> 0, ledger |-> ledger]
<1>1. n \in Nat
  <2>1. logs \in Seq(Log)
    BY DEF SourceTypeOK
  <2> QED BY <2>1
<1>2. turn = [i \in 0..n |-> IF i = 0 THEN first
                             ELSE SubmitLog(turn[i - 1], query, logs[i], i, now)]
  BY <1>1, SubmissionTurns
<1>3. LaterBy(ledger, ledger, 0)
  <2>1. ledger.stateVersion \in Nat
    BY LedgerFields DEF LedgerTypeOK
  <2>2. \A s \in Registered : ledger.sources[s].totals.eventCount \in Nat
    BY StateFields DEF LedgerTypeOK
  <2> QED BY <2>1, <2>2 DEF LaterBy
<1>4. 0 \in T
  <2> HIDE DEF turn
  <2>1. turn[0] = first
    <3>1. 0 \in 0..n
      BY <1>1
    <3> HIDE DEF n, first
    <3> QED BY <1>2, <3>1
  <2>2. Good(turn[0], 0)
    BY <1>3, <2>1
  <2> QED BY <1>1, <2>2
<1>5. ASSUME NEW i \in 1..n, i - 1 \in T PROVE i \in T
  <2> DEFINE p == turn[i - 1]
             r == turn[i]
             log == logs[i]
  <2>1. i \in 0..n /\ i # 0 /\ r = SubmitLog(p, query, log, i, now)
    <3>1. i \in 0..n /\ i # 0
      BY <1>1
    <3> HIDE DEF turn, logs, first
    <3> QED BY <1>2, <3>1
  <2>2. /\ p.applied \in 0..(i - 1)
        /\ p.ok => LedgerFits(p.ledger) /\ LaterBy(ledger, p.ledger, p.applied)
    BY <1>5
  <2> HIDE DEF p, r, turn
  <2>3. p.applied \in 0..i /\ p.applied + 1 \in 0..i
    BY <2>1, <2>2, <1>1
  <2>4. CASE ~Applicable(log)
    <3>1. r = p
      BY <2>1, <2>4 DEF SubmitLog
    <3>2. Good(r, i)
      BY <2>2, <2>3, <3>1
    <3> QED BY <2>1, <3>2 DEF r
  <2>5. CASE Applicable(log) /\ ~(p.ok /\ Accepts(p.ledger, query, log, i, now))
    <3>1. r = [p EXCEPT !.ok = FALSE]
      BY <2>1, <2>5 DEF SubmitLog
    <3>2. r.applied = p.applied /\ (r.ok => p.ok)
      BY <2>5, <3>1
    <3>3. Good(r, i)
      BY <2>2, <2>3, <2>5, <3>1, <3>2
    <3> QED BY <2>1, <3>3 DEF r
  <2>6. CASE Applicable(log) /\ p.ok /\ Accepts(p.ledger, query, log, i, now)
    <3> DEFINE L2 == Applied(p.ledger, query, log, i)
    <3>1. r = [ok |-> TRUE, applied |-> p.applied + 1, ledger |-> L2]
      BY <2>1, <2>6 DEF SubmitLog
    <3>2. LedgerFits(L2) /\ OneLater(p.ledger, L2)
      BY <2>2, <2>6, AppliedKeeps
    <3> HIDE DEF L2, log
    <3>3. LaterBy(ledger, L2, p.applied + 1)
      <4>1. LaterBy(ledger, p.ledger, p.applied) /\ p.ledger \in Ledger /\ L2 \in Ledger
        BY <2>2, <2>6, <3>2 DEF LedgerFits
      <4>2. \A s \in Registered :
              /\ ledger.sources[s].totals.eventCount \in Nat
              /\ p.ledger.sources[s].totals.eventCount \in Nat
              /\ L2.sources[s].totals.eventCount \in Nat
        BY <4>1, StateFields DEF LedgerTypeOK
      <4>3. ledger.stateVersion \in Nat /\ p.applied \in Nat
        BY <2>2, LedgerFields DEF LedgerTypeOK
      <4> QED BY <3>2, <4>1, <4>2, <4>3 DEF LaterBy, OneLater
    <3>4. Good(r, i)
      BY <2>3, <3>1, <3>2, <3>3
    <3> QED BY <2>1, <3>4 DEF r
  <2> QED BY <2>4, <2>5, <2>6
<1> HIDE DEF turn, T
<1>6. n \in T
  <2> HIDE DEF n
  <2> QED BY <1>1, <1>4, <1>5, IndexInduction
<1> QED BY <1>6 DEF T, turn

-----------------------------------------------------------------------------
(* The source chain only grows: what the ledger holds stays right. *)
LEMMA SameUniqueDebt ==
  ASSUME canonicalIds' = canonicalIds
  PROVE  UniqueDebtOf(ledger.loans)' = UniqueDebtOf(ledger'.loans)
<1>1. UniqueDebts(ledger.loans)' = UniqueDebts(ledger'.loans)
  BY DEF UniqueDebts, CanonicalDebtId
<1> QED BY <1>1 DEF UniqueDebtOf

LEMMA LedgerCarries ==
  ASSUME SourceTypeOK, SourceTypeOK', SourceGrows, LedgerFits(ledger'),
         now \in Nat, now' \in Nat, now <= now', canonicalIds' = canonicalIds
  PROVE  LedgerFits(ledger)'
<1>1. ASSUME NEW s \in Registered PROVE Mirrored(ledger, s)'
  <2>1. MirrorFits(LoansOf(ledger', s), ledger'.sources[s].totals, HistoryOf(s))
    BY DEF LedgerFits, Mirrored
  <2>2. s \in Sources
    BY RegisteredSource
  <2>3. /\ Len(HistoryOf(s)) <= Len(HistoryOf(s)')
        /\ \A k \in 1..Len(HistoryOf(s)) : HistoryOf(s)'[k] = HistoryOf(s)[k]
    BY <2>2 DEF SourceGrows, Grows, HistoryOf
  <2>4. Len(HistoryOf(s)) \in Nat /\ Len(HistoryOf(s)') \in Nat
    <3>1. books'[s] \in Book
      BY <2>2 DEF SourceTypeOK, Book
    <3> QED BY <2>2, <3>1, BookOf DEF Book, Totals, History, HistoryOf
  <2>5. Len(ledger'.sources[s].totals.historyRoot) \in Nat
    <3>1. ledger' \in Ledger
      BY DEF LedgerFits
    <3>2. ledger'.sources[s].totals.historyRoot \in History
      BY <3>1, StateFields
    <3> QED BY <3>2 DEF History
  <2>6. MirrorFits(LoansOf(ledger', s), ledger'.sources[s].totals, HistoryOf(s)')
    BY <2>1, <2>3, <2>4, <2>5 DEF MirrorFits
  <2> QED BY <2>6 DEF Mirrored, LoansOf
<1>2. ASSUME NEW s \in Registered PROVE Checkpointed(ledger, s)'
  <2>0. ledger'.sources[s].checkpointEventCount <= ledger'.sources[s].totals.eventCount
    BY DEF LedgerFits, Checkpointed
  <2> SUFFICES ASSUME ledger'.sources[s].sealedSource PROVE Checkpointed(ledger, s)'
    BY <2>0 DEF Checkpointed
  <2>1. /\ books[s].sealedSource
        /\ \A id \in LoanIds :
             loans[s][id].sequence # 0 => ledger'.loans[<<s, id>>].sequence # 0
        /\ ledger'.sources[s].checkpointEpoch <= MaxEpoch
        /\ ledger'.sources[s].checkpointTimestamp <= now
        /\ \E i \in 1..Len(receipts) : \E j \in 1..Len(receipts[i]) :
             LastCheckpoint(ledger', s, receipts[i][j])
    BY DEF LedgerFits, Checkpointed
  <2>2. s \in Sources
    BY RegisteredSource
  <2>3. Grows(loans[s], books[s], loans'[s], books'[s])
    BY <2>2 DEF SourceGrows
  <2>4. books'[s].sealedSource /\ \A id \in LoanIds :
          loans'[s][id].sequence # 0 => ledger'.loans[<<s, id>>].sequence # 0
    BY <2>1, <2>3 DEF Grows
  <2>5. ledger'.sources[s].checkpointTimestamp \in Nat
    BY StateFields DEF LedgerFits
  <2>6. ledger'.sources[s].checkpointTimestamp <= now'
    BY <2>1, <2>5
  <2>7. \E i \in 1..Len(receipts') : \E j \in 1..Len(receipts'[i]) :
          LastCheckpoint(ledger', s, receipts'[i][j])
    <3>1. PICK i \in 1..Len(receipts) : \E j \in 1..Len(receipts[i]) :
             LastCheckpoint(ledger', s, receipts[i][j])
      BY <2>1
    <3>2. receipts'[i] = receipts[i] /\ i \in 1..Len(receipts')
      BY DEF SourceGrows, SourceTypeOK
    <3> QED BY <3>1, <3>2
  <2> QED BY <2>0, <2>1, <2>4, <2>6, <2>7 DEF Checkpointed, LastCheckpoint
<1>3. DebtsFit(ledger)'
  <2>1. \A d : CanonicalDebtId(d)' = CanonicalDebtId(d)
    BY DEF CanonicalDebtId
  <2>2. /\ Opened(ledger'.loans) \subseteq ledger'.relationLocked
        /\ \A d \in Debts : Balanced(ledger'.loans[d])
        /\ \A c \in CanonicalIds : CanonicalFits(ledger', c)
        /\ ledger'.totalDebt = UniqueDebtOf(ledger'.loans)
    BY DEF LedgerFits, DebtsFit
  <2>3. ASSUME NEW c \in CanonicalIds PROVE CanonicalFits(ledger, c)'
    <3>1. AliasesOf(ledger'.loans, c) = AliasesOf(ledger.loans, c)'
      BY <2>1 DEF AliasesOf, Opened
    <3> QED BY <2>2, <3>1 DEF CanonicalFits
  <2> QED BY <2>2, <2>3, SameUniqueDebt DEF DebtsFit, Opened
<1>4. ledger' \in Ledger
  BY DEF LedgerFits
<1> QED BY <1>1, <1>2, <1>3, <1>4 DEF LedgerFits

(* Relations are set before the first event of a debt. *)
LEMMA RelateKeeps ==
  ASSUME LedgerTypeOK, LedgerFits(ledger), Relate
  PROVE  /\ LedgerFits(ledger)' /\ LedgerTypeOK'
         /\ UNCHANGED <<sourceVars, ledger, snapshot, processedQueries, now>>
<1>1. PICK debt \in Debts, canonicalId \in RelationTargets :
        SetDebtRelation(debt, canonicalId)
  BY DEF Relate
<1>2. /\ debt \notin ledger.relationLocked
      /\ canonicalIds' = [canonicalIds EXCEPT ![debt] = canonicalId]
      /\ UNCHANGED <<sourceVars, ledger, snapshot, processedQueries, now>>
  BY <1>1 DEF SetDebtRelation, Relate
<1>3. UNCHANGED <<loans, books, receipts>>
  BY <1>2 DEF sourceVars
<1>4. LedgerTypeOK'
  <2>1. canonicalId \in CanonicalIds
    BY LedgerConstants
  <2> QED BY <1>2, <2>1 DEF LedgerTypeOK
<1>5. \A d \in Opened(ledger.loans) : CanonicalDebtId(d)' = CanonicalDebtId(d)
  <2>1. \A d \in Opened(ledger.loans) : d \in Debts /\ d # debt
    BY <1>2 DEF LedgerFits, DebtsFit, Opened
  <2> QED BY <1>2, <2>1 DEF LedgerTypeOK, CanonicalDebtId
<1>6. Opened(ledger.loans)' = Opened(ledger.loans)
  BY <1>2 DEF Opened
<1>7. ASSUME NEW c PROVE AliasesOf(ledger.loans, c)' = AliasesOf(ledger.loans, c)
  BY <1>2, <1>5, <1>6 DEF AliasesOf
<1>8. UniqueDebtOf(ledger.loans)' = UniqueDebtOf(ledger.loans)
  <2> DEFINE opened == {d \in Debts : ledger.loans[d].sequence # 0}
             ids == {CanonicalDebtId(d) : d \in opened}
             ids2 == {CanonicalDebtId(d)' : d \in opened}
  <2>1. opened = Opened(ledger.loans)
    BY DEF Opened
  <2>2. ids2 = ids
    BY <1>5, <2>1
  <2>3. ASSUME NEW c
        PROVE  {e \in opened : CanonicalDebtId(e)' = c} = {e \in opened : CanonicalDebtId(e) = c}
    BY <1>5, <2>1
  <2>4. UniqueDebts(ledger.loans) =
          [c \in ids |-> Min({ledger.loans[d].outstanding :
                                d \in {e \in opened : CanonicalDebtId(e) = c}})]
    BY DEF UniqueDebts
  <2>5. UniqueDebts(ledger.loans)' =
          [c \in ids2 |-> Min({ledger.loans[d].outstanding :
                                d \in {e \in opened : CanonicalDebtId(e)' = c}})]
    BY <1>2 DEF UniqueDebts
  <2> HIDE DEF opened
  <2>6. [c \in ids2 |-> Min({ledger.loans[d].outstanding :
                                d \in {e \in opened : CanonicalDebtId(e)' = c}})]
        = [c \in ids |-> Min({ledger.loans[d].outstanding :
                                d \in {e \in opened : CanonicalDebtId(e) = c}})]
    BY <2>2, <2>3
  <2> QED BY <2>4, <2>5, <2>6 DEF UniqueDebtOf
<1>9. DebtsFit(ledger)'
  <2>1. ASSUME NEW c \in CanonicalIds PROVE CanonicalFits(ledger, c)'
    <3>1. CanonicalFits(ledger, c)
      BY DEF LedgerFits, DebtsFit
    <3> QED BY <1>2, <1>7, <3>1 DEF CanonicalFits
  <2> QED BY <1>2, <1>6, <1>8, <2>1 DEF LedgerFits, DebtsFit
<1>10. \A s \in Registered : (Mirrored(ledger, s) /\ Checkpointed(ledger, s))'
  BY <1>2, <1>3 DEF LedgerFits, Mirrored, LoansOf, HistoryOf, Checkpointed
<1> QED BY <1>2, <1>4, <1>9, <1>10 DEF LedgerFits

(* A receipt is applied once, and no snapshot survives it. *)
LEMMA RelayKeeps ==
  ASSUME IInv, Relay
  PROVE  /\ LedgerFits(ledger') /\ LedgerTypeOK' /\ SnapshotInv' /\ VersionInv'
         /\ \E n \in Nat \ {0} : LaterBy(ledger, ledger', n)
         /\ UNCHANGED <<sourceVars, canonicalIds, snapshot, now>>
<1>1. PICK query \in 1..Len(receipts) :
        SubmitSourceTransaction(query, receipts[query], now)
  BY DEF Relay
<1> DEFINE logs == receipts[query]
           r == Submission(query, logs, now)[Len(logs)]
<1>2. /\ query \notin processedQueries /\ r.ok /\ r.applied # 0 /\ ledger' = r.ledger
      /\ processedQueries' = processedQueries \cup {query}
      /\ UNCHANGED <<sourceVars, canonicalIds, snapshot, now>>
  BY <1>1 DEF SubmitSourceTransaction, Relay
<1>3. r.applied \in 0..Len(logs) /\ LedgerFits(r.ledger) /\ LaterBy(ledger, r.ledger, r.applied)
  BY <1>2, SubmissionKeeps DEF IInv, TypeOK
<1> HIDE DEF r
<1>4. /\ LedgerFits(ledger') /\ LaterBy(ledger, ledger', r.applied)
      /\ Len(logs) \in Nat /\ Len(logs) <= MaxTxLogs
      /\ r.applied \in Nat \ {0} /\ r.applied <= MaxTxLogs
  <2>1. logs \in Seq(Log) /\ Len(logs) <= MaxTxLogs
    BY DEF IInv, TypeOK, SourceTypeOK, LogsInv
  <2>2. Len(logs) \in Nat
    BY <2>1
  <2> HIDE DEF logs
  <2> QED BY <1>2, <1>3, <2>1, <2>2, SourceConstants
<1>5. receipts' = receipts /\ Len(receipts) \in Nat
  BY <1>2 DEF sourceVars, IInv, TypeOK, SourceTypeOK
<1>6. /\ ledger.stateVersion \in Nat
      /\ ledger'.stateVersion = ledger.stateVersion + r.applied
  BY <1>4, LedgerFields DEF IInv, LedgerFits, LaterBy
<1>7. LedgerTypeOK'
  <2>1. processedQueries' \subseteq Nat
    BY <1>2, <1>5 DEF IInv, TypeOK, LedgerTypeOK
  <2> QED BY <1>2, <1>4, <2>1 DEF IInv, TypeOK, LedgerTypeOK, LedgerFits
<1>8. SnapshotInv'
  <2>1. /\ snapshot.stateVersion \in Nat /\ snapshot' = snapshot
        /\ snapshot.epoch <= MaxEpoch /\ snapshot.stateVersion <= ledger.stateVersion
    BY <1>2 DEF IInv, SnapshotInv, TypeOK, LedgerTypeOK
  <2>2. snapshot'.stateVersion < ledger'.stateVersion
    BY <1>4, <1>6, <2>1
  <2>3. ledger'.stateVersion \in Nat /\ snapshot'.stateVersion <= ledger'.stateVersion
    BY <1>4, <1>6, <2>1, <2>2
  <2>4. ~SnapshotComplete'
    BY <2>1, <2>2, <2>3 DEF SnapshotComplete
  <2> QED BY <2>1, <2>3, <2>4 DEF SnapshotInv
<1>9. VersionInv'
  <2>1. /\ processedQueries \subseteq 1..Len(receipts)
        /\ ledger.stateVersion <= Cardinality(processedQueries) * MaxTxLogs
    BY DEF IInv, VersionInv
  <2>2. IsFiniteSet(1..Len(receipts))
    BY <1>5, FS_Interval
  <2>3. IsFiniteSet(processedQueries) /\ Cardinality(processedQueries) \in Nat
    BY <2>1, <2>2, FS_Subset, FS_CardinalityType
  <2>4. Cardinality(processedQueries') = Cardinality(processedQueries) + 1
    BY <1>2, <2>3, FS_AddElement
  <2>5. \A k, m, v, a \in Nat : v <= k * m /\ a <= m => v + a <= (k + 1) * m
    OBVIOUS
  <2>6. ledger'.stateVersion <= Cardinality(processedQueries') * MaxTxLogs
    <3>1. MaxTxLogs \in Nat /\ r.applied \in Nat
      BY <1>4, SourceConstants
    <3> QED BY <1>4, <1>6, <2>1, <2>3, <2>4, <2>5, <3>1
  <2>7. processedQueries' \subseteq 1..Len(receipts')
    BY <1>2, <1>5, <2>1
  <2> QED BY <2>6, <2>7 DEF VersionInv
<1> QED BY <1>2, <1>4, <1>7, <1>8, <1>9

LEMMA FinalizeKeeps ==
  ASSUME IInv, Finalize
  PROVE  /\ LedgerTypeOK' /\ SnapshotInv'
         /\ UNCHANGED <<sourceVars, ledger, canonicalIds, processedQueries, now>>
<1>1. PICK s \in Registered : FinalizeSnapshot(ledger.sources[s].checkpointEpoch, now)
  BY DEF Finalize
<1> DEFINE epoch == ledger.sources[s].checkpointEpoch
<1>2. /\ epoch > snapshot.epoch /\ \A t \in Registered : Covered(t, epoch)
      /\ snapshot' = [epoch |-> epoch, stateVersion |-> ledger.stateVersion,
                      validUntil |-> OldestCheckpoint + MaxAge]
      /\ UNCHANGED <<sourceVars, ledger, canonicalIds, processedQueries, now>>
  BY <1>1 DEF FinalizeSnapshot, Finalize
<1>3. /\ ledger \in Ledger /\ epoch \in Nat /\ ledger.stateVersion \in Nat
      /\ \A t \in Registered : ledger.sources[t].checkpointTimestamp \in Nat
  BY StateFields, LedgerFields DEF IInv, LedgerFits
<1>4. epoch <= MaxEpoch
  BY <1>2 DEF IInv, LedgerFits, Checkpointed, Covered
<1>5. OldestCheckpoint \in Nat
      /\ \A t \in Registered : OldestCheckpoint <= ledger.sources[t].checkpointTimestamp
  <2>1. CheckpointTimes \in SUBSET Nat /\ CheckpointTimes # {}
        /\ \A t \in Registered : ledger.sources[t].checkpointTimestamp \in CheckpointTimes
    BY <1>3 DEF CheckpointTimes
  <2>2. OldestCheckpoint \in CheckpointTimes
        /\ \A x \in CheckpointTimes : OldestCheckpoint <= x
    BY <2>1, MinOfNat DEF OldestCheckpoint
  <2> QED BY <2>1, <2>2
<1>6. MaxAge \in Nat
  BY LedgerConstants
<1> HIDE DEF epoch
<1>7. LedgerTypeOK'
  <2>1. snapshot' \in [epoch : Nat, stateVersion : Nat, validUntil : Nat]
    BY <1>2, <1>3, <1>5, <1>6
  <2> QED BY <1>2, <2>1 DEF IInv, TypeOK, LedgerTypeOK
<1>8. SnapshotInv'
  <2>1. /\ snapshot'.epoch = epoch /\ snapshot'.stateVersion = ledger'.stateVersion
        /\ snapshot'.validUntil = OldestCheckpoint + MaxAge
    BY <1>2
  <2>2. ASSUME NEW t \in Registered
        PROVE  /\ Covered(t, snapshot.epoch)'
               /\ snapshot'.validUntil <= ledger'.sources[t].checkpointTimestamp + MaxAge
    <3>1. Covered(t, epoch)
      BY <1>2
    <3>2. Covered(t, snapshot.epoch)'
      BY <1>2, <2>1, <3>1 DEF Covered
    <3>3. ledger'.sources[t].checkpointTimestamp = ledger.sources[t].checkpointTimestamp
      BY <1>2
    <3> QED BY <1>3, <1>5, <1>6, <2>1, <3>2, <3>3
  <2> QED BY <1>2, <1>3, <1>4, <2>1, <2>2 DEF SnapshotInv
<1> QED BY <1>2, <1>7, <1>8

-----------------------------------------------------------------------------
(* The first state. *)
LEMMA NothingTold ==
  ASSUME NEW loanOf, loanOf = [id \in LoanIds |-> NoLoan]
  PROVE  ViewOf(loanOf, NoTotals) = SourceAfter(<<>>)
<1> DEFINE zero == [id \in LoanIds |-> 0]
<1>1. /\ \A id : EventsOf(<<>>, id) = {}
      /\ {<<>>[k].loanId : k \in 1..Len(<<>>)} = {}
  BY DEF EventsOf
<1>2. \A id : LoanAfter(<<>>, id) = NoLoan
  BY <1>1 DEF LoanAfter
<1>3. /\ [id \in LoanIds |-> LoanAfter(<<>>, id)] = loanOf
      /\ [id \in LoanIds |-> LoanAfter(<<>>, id).principal] = zero
      /\ [id \in LoanIds |-> LoanAfter(<<>>, id).repaid] = zero
  BY <1>2 DEF NoLoan
<1>4. SumOf(zero) = 0
  <2> DEFINE T == {A \in SUBSET LoanIds : SumFunctionOnSet(zero, A) = 0}
  <2>1. ASSUME NEW A \in SUBSET LoanIds, \A x \in A : A \ {x} \in T PROVE A \in T
    <3>1. IsFiniteSet(A)
      BY SourceConstants, FS_Subset
    <3>2. CASE A = {}
      BY <3>1, <3>2, SumStep
    <3>3. CASE A # {}
      <4>1. PickOf(A) \in A
        BY <3>3, PickIn
      <4>2. SumFunctionOnSet(zero, A \ {PickOf(A)}) = 0
        BY <2>1, <4>1
      <4>3. zero[PickOf(A)] = 0
        BY <4>1
      <4>4. SumFunctionOnSet(zero, A) = 0
        BY <3>1, <3>3, <4>2, <4>3, SumStep
      <4> QED BY <4>4
    <3> QED BY <3>2, <3>3
  <2>2. LoanIds \in SUBSET LoanIds /\ IsFiniteSet(LoanIds)
    BY SourceConstants
  <2> HIDE DEF T
  <2>3. LoanIds \in T
    BY <2>1, <2>2, SubsetInduction
  <2>4. SumOf(zero) = SumFunctionOnSet(zero, DOMAIN zero)
    BY SumOfFunction DEF SumOf
  <2> QED BY <2>3, <2>4 DEF T
<1>5. Cardinality({}) = 0
  BY FS_EmptySet
<1> HIDE DEF zero
<1>6. SourceAfter(<<>>) = [loans |-> loanOf, loanCount |-> 0, totalIssued |-> 0, totalRepaid |-> 0]
  BY <1>1, <1>3, <1>4, <1>5 DEF SourceAfter, SumOf
<1> QED BY <1>6 DEF ViewOf, NoTotals

LEMMA NoTotalsType ==
  /\ NoTotals \in Totals /\ NoTotals.historyRoot = <<>> /\ NoTotals.eventCount = 0
<1>1. <<>> \in History
  BY DEF History
<1> QED BY <1>1, Numbers DEF NoTotals, Totals

LEMMA InitFits == ASSUME ExposureInit PROVE IInv
<1>1. /\ loans = [s \in Sources |-> [id \in LoanIds |-> NoLoan]]
      /\ books = [s \in Sources |-> [sealedSource |-> FALSE, epoch |-> 0, totals |-> NoTotals]]
      /\ sourceTime = 1 /\ txLogs = <<>> /\ receipts = <<>> /\ now = 1
  BY DEF ExposureInit, SourceInit
<1>2. /\ ledger = [sources |-> [s \in Registered |-> NewSourceState],
                   loans |-> [d \in Debts |-> NoLoan],
                   canonical |-> [c \in CanonicalIds |-> NoLoan],
                   relationLocked |-> {}, totalDebt |-> 0, stateVersion |-> 0]
      /\ canonicalIds = [d \in Debts |-> Unset]
      /\ snapshot = [epoch |-> 0, stateVersion |-> 0, validUntil |-> 0]
      /\ processedQueries = {}
  BY DEF ExposureInit, LedgerInit
<1>3. SourceTypeOK
  BY <1>1, NoLoanType, NoTotalsType DEF SourceTypeOK
<1>4. NewSourceState \in SourceState
  BY NoTotalsType DEF NewSourceState, SourceState, Position
<1>5. ledger \in Ledger
  BY <1>2, <1>4, NoLoanType, Numbers DEF Ledger
<1>6. LedgerTypeOK
  BY <1>2, <1>5 DEF LedgerTypeOK
<1>7. ChainInv
  <2>1. ASSUME NEW s \in Sources PROVE SourceFits(loans[s], books[s])
    <3>1. /\ loans[s] = [id \in LoanIds |-> NoLoan] /\ books[s].totals = NoTotals
          /\ books[s].epoch = 0
      BY <1>1
    <3>2. ViewOf(loans[s], NoTotals) = SourceAfter(<<>>)
      BY <3>1, NothingTold
    <3>3. \A id \in LoanIds : Balanced(loans[s][id])
      BY <3>1 DEF NoLoan, Balanced
    <3>4. MaxEpoch \in Nat
      BY SourceConstants
    <3> QED BY <3>1, <3>2, <3>3, <3>4, NoTotalsType DEF SourceFits
  <2> QED BY <2>1 DEF ChainInv
<1>8. LogsInv
  BY <1>1, SourceConstants DEF LogsInv, GenuineLogs
<1>9. ASSUME NEW s \in Registered PROVE Mirrored(ledger, s) /\ Checkpointed(ledger, s)
  <2>1. /\ ledger.sources[s].totals = NoTotals /\ ~ledger.sources[s].sealedSource
        /\ ledger.sources[s].checkpointEventCount = 0
        /\ LoansOf(ledger, s) = [id \in LoanIds |-> NoLoan]
    BY <1>2 DEF NewSourceState, LoansOf, Debts
  <2>2. ViewOf(LoansOf(ledger, s), NoTotals) = SourceAfter(<<>>)
    BY <2>1, NothingTold
  <2>3. HistoryOf(s) = <<>>
    BY <1>1, RegisteredSource, NoTotalsType DEF HistoryOf
  <2> QED BY <2>1, <2>2, <2>3, NoTotalsType DEF Mirrored, MirrorFits, Checkpointed
<1>10. DebtsFit(ledger)
  <2>1. Opened(ledger.loans) = {} /\ Reported(ledger.loans) = {}
    BY <1>2 DEF Opened, Reported, NoLoan
  <2>2. \A c \in CanonicalIds : CanonicalFits(ledger, c)
    BY <1>2, <2>1 DEF CanonicalFits, AliasesOf
  <2>3. /\ ledger.loans \in [Debts -> Loan] /\ ledger.canonical \in [CanonicalIds -> Loan]
    BY <1>5, LedgerFields
  <2>4. UniqueDebtOf(ledger.loans) = SumFunctionOnSet(CanonicalDebt(ledger), {})
    BY <1>6, <2>1, <2>2, <2>3, CountedDebt
  <2>5. UniqueDebtOf(ledger.loans) = 0
    BY <2>4, FS_EmptySet, SumStep
  <2>6. \A d \in Debts : Balanced(ledger.loans[d])
    BY <1>2 DEF NoLoan, Balanced
  <2> QED BY <1>2, <2>1, <2>2, <2>5, <2>6 DEF DebtsFit
<1>11. SnapshotInv
  BY <1>2, SourceConstants DEF SnapshotInv, SnapshotComplete
<1>12. VersionInv
  BY <1>2, SourceConstants, FS_EmptySet DEF VersionInv
<1> QED BY <1>1, <1>3, <1>5, <1>6, <1>7, <1>8, <1>9, <1>10, <1>11, <1>12
    DEF IInv, TypeOK, LedgerFits

-----------------------------------------------------------------------------
(* Steps. *)
LEMMA SourceStepKeeps ==
  ASSUME SourceTypeOK, ChainInv, LogsInv, SourceNext
  PROVE  SourceKept
<1>1. ASSUME NEW s \in Sources, NEW id \in LoanIds, NEW parties \in Parties,
             NEW principal \in Principals, OpenLoan(s, id, parties, principal)
      PROVE  SourceKept
  BY <1>1, OpenLoanKeeps
<1>2. ASSUME NEW s \in Sources, NEW id \in LoanIds, NEW amount \in Uint, Repay(s, id, amount)
      PROVE  SourceKept
  BY <1>2, RepayKeeps
<1>3. ASSUME NEW s \in Sources, Seal(s) PROVE SourceKept
  BY <1>3, SealKeeps
<1>4. ASSUME NEW s \in Sources, TakeCheckpoint(s) PROVE SourceKept
  BY <1>4, CheckpointKeeps
<1>5. CASE EndTransaction
  BY <1>5, EndTransactionKeeps
<1>6. CASE TickSource
  BY <1>6, ChainKept DEF TickSource, SourceTypeOK
<1> QED BY <1>1, <1>2, <1>3, <1>4, <1>5, <1>6 DEF SourceNext

(* The ledger is left alone, the chain grows and time goes on. *)
LEMMA LedgerLeftAlone ==
  ASSUME IInv, SourceKept, UNCHANGED ledgerVars, now' \in Nat, now <= now'
  PROVE  IInv'
<1>1. /\ ledger' = ledger /\ canonicalIds' = canonicalIds /\ snapshot' = snapshot
      /\ processedQueries' = processedQueries
  BY DEF ledgerVars
<1>2. SourceTypeOK /\ SourceTypeOK' /\ SourceGrows /\ now \in Nat
  BY DEF IInv, TypeOK, SourceKept
<1>3. LedgerFits(ledger)'
  BY <1>1, <1>2, LedgerCarries DEF IInv
<1>4. SnapshotInv'
  BY <1>1 DEF IInv, SnapshotInv, SnapshotComplete, Covered
<1>5. VersionInv'
  <2>1. Len(receipts) \in Nat /\ Len(receipts') \in Nat /\ Len(receipts) <= Len(receipts')
    BY <1>2 DEF SourceTypeOK, SourceGrows
  <2> QED BY <1>1, <2>1 DEF IInv, VersionInv
<1>6. TypeOK'
  BY <1>1, <1>2 DEF IInv, TypeOK, LedgerTypeOK
<1> QED BY <1>3, <1>4, <1>5, <1>6 DEF IInv, SourceKept

LEMMA StepKeeps == ASSUME IInv, [ExposureNext]_exposureVars PROVE IInv'
<1>1. now \in Nat /\ SourceTypeOK /\ ChainInv /\ LogsInv /\ LedgerTypeOK
      /\ LedgerFits(ledger) /\ SnapshotInv /\ VersionInv
  BY DEF IInv, TypeOK
<1>2. ASSUME UNCHANGED <<loans, books, txLogs, receipts, sourceTime>> PROVE SourceKept
  BY <1>1, <1>2, ChainKept DEF SourceTypeOK
<1>3. CASE Source
  <2>1. SourceKept
    BY <1>1, <1>3, SourceStepKeeps DEF Source
  <2> QED BY <1>1, <1>3, <2>1, LedgerLeftAlone DEF Source
<1>4. CASE Relay
  <2>1. /\ LedgerFits(ledger') /\ LedgerTypeOK' /\ SnapshotInv' /\ VersionInv'
        /\ UNCHANGED <<sourceVars, canonicalIds, snapshot, now>>
    BY <1>4, RelayKeeps
  <2>2. SourceKept
    BY <1>2, <2>1 DEF sourceVars
  <2>3. LedgerFits(ledger)'
    BY <1>1, <2>1, <2>2, LedgerCarries DEF SourceKept
  <2> QED BY <1>1, <2>1, <2>2, <2>3 DEF IInv, TypeOK, SourceKept
<1>5. CASE Relate
  <2>1. /\ LedgerFits(ledger)' /\ LedgerTypeOK'
        /\ UNCHANGED <<sourceVars, ledger, snapshot, processedQueries, now>>
    BY <1>1, <1>5, RelateKeeps
  <2>2. SourceKept
    BY <1>2, <2>1 DEF sourceVars
  <2>3. SnapshotInv' /\ VersionInv'
    BY <1>1, <2>1 DEF SnapshotInv, SnapshotComplete, Covered, VersionInv, sourceVars
  <2> QED BY <1>1, <2>1, <2>2, <2>3 DEF IInv, TypeOK, SourceKept
<1>6. CASE Finalize
  <2>1. /\ LedgerTypeOK' /\ SnapshotInv'
        /\ UNCHANGED <<sourceVars, ledger, canonicalIds, processedQueries, now>>
    BY <1>6, FinalizeKeeps
  <2>2. SourceKept
    BY <1>2, <2>1 DEF sourceVars
  <2>3. LedgerFits(ledger)'
    BY <1>1, <2>1, <2>2, LedgerCarries DEF SourceKept
  <2>4. VersionInv'
    BY <1>1, <2>1 DEF VersionInv, sourceVars
  <2> QED BY <1>1, <2>1, <2>2, <2>3, <2>4 DEF IInv, TypeOK, SourceKept
<1>7. CASE Tick
  <2>1. UNCHANGED <<sourceVars, ledgerVars>> /\ now' = now + 1
    BY <1>7 DEF Tick
  <2>2. SourceKept
    BY <1>2, <2>1 DEF sourceVars
  <2> QED BY <1>1, <2>1, <2>2, LedgerLeftAlone
<1>8. CASE UNCHANGED exposureVars
  <2>1. UNCHANGED <<sourceVars, ledgerVars, now>>
    BY <1>8 DEF exposureVars
  <2>2. SourceKept
    BY <1>2, <2>1 DEF sourceVars
  <2> QED BY <1>1, <2>1, <2>2, LedgerLeftAlone
<1> QED BY <1>3, <1>4, <1>5, <1>6, <1>7, <1>8 DEF ExposureNext

(* Whatever the sources do and in whatever order their receipts are relayed, *)
(* sources, logs, ledger and snapshot fit together.                          *)
THEOREM Invariance == ExposureSpec => []IInv
<1>1. ExposureInit => IInv
  BY InitFits
<1>2. IInv /\ [ExposureNext]_exposureVars => IInv'
  BY StepKeeps
<1> QED BY <1>1, <1>2, PTL DEF ExposureSpec

(* Every value keeps its width: no counter, total or unique debt leaves the *)
(* range of the contracts' integers.                                        *)
THEOREM TypeCorrect == ExposureSpec => []TypeOK
<1>1. IInv => TypeOK
  BY DEF IInv
<1> QED BY <1>1, Invariance, PTL

(* totalDebt counts each unique debt once, at its least reported balance.   *)
THEOREM UniqueDebtCounted == ExposureSpec => []CountsEachDebtOnce
<1>1. IInv => CountsEachDebtOnce
  BY DEF IInv, LedgerFits, DebtsFit, CountsEachDebtOnce
<1> QED BY <1>1, Invariance, PTL

-----------------------------------------------------------------------------
(* The debt the sources carry. *)
TrueLoans == [d \in Debts |-> loans[d[1]][d[2]]]

LEMMA TrueLoan ==
  ASSUME IInv, NEW d \in Debts,
         \A s \in Registered : ledger.sources[s].sealedSource
  PROVE  /\ TrueLoans[d] \in Loan
         /\ TrueLoans[d].sequence # 0 <=> ledger.loans[d].sequence # 0
         /\ ledger.loans[d].sequence # 0
              => TrueLoans[d].outstanding <= ledger.loans[d].outstanding
<1>1. PICK s \in Registered, id \in LoanIds : d = <<s, id>>
  BY DEF Debts
<1>2. TrueLoans[d] = loans[s][id]
  BY <1>1 DEF TrueLoans
<1>3. s \in Sources /\ SourceTypeOK /\ ChainInv /\ ledger \in Ledger
  BY RegisteredSource DEF IInv, TypeOK, LedgerFits
<1>4. loans[s][id] \in Loan
  BY <1>3 DEF SourceTypeOK
<1>5. loans[s][id].sequence # 0 => ledger.loans[d].sequence # 0
  BY <1>1 DEF IInv, LedgerFits, Checkpointed
<1>6. LoansOf(ledger, s)[id] = ledger.loans[d]
  BY <1>1 DEF LoansOf
<1>7. ledger.loans[d].sequence # 0 => Follows(loans[s][id], ledger.loans[d])
  <2>1. MirrorFits(LoansOf(ledger, s), ledger.sources[s].totals, HistoryOf(s))
    BY DEF IInv, LedgerFits, Mirrored
  <2>2. ledger.sources[s].totals.historyRoot \in History
    BY <1>3, StateFields
  <2> QED BY <1>3, <1>6, <2>1, <2>2, MirrorTells
<1> QED BY <1>2, <1>4, <1>5, <1>7 DEF Follows

LEMMA TrueDebtBelow ==
  ASSUME IInv, \A s \in Registered : ledger.sources[s].sealedSource
  PROVE  TrueDebt \in Nat /\ TrueDebt <= ledger.totalDebt
<1> DEFINE ids == Reported(ledger.loans)
           f == CanonicalDebt(ledger)
           least == [c \in ids |->
                       Min({TrueLoans[d].outstanding : d \in AliasesOf(TrueLoans, c)})]
<1>1. /\ ledger.loans \in [Debts -> Loan] /\ ledger.canonical \in [CanonicalIds -> Loan]
      /\ \A c \in CanonicalIds : CanonicalFits(ledger, c)
      /\ ledger.totalDebt = UniqueDebtOf(ledger.loans) /\ LedgerTypeOK
  BY LedgerFields DEF IInv, LedgerFits, DebtsFit, TypeOK
<1>2. /\ \A d \in Debts : TrueLoans[d].outstanding \in Nat
      /\ Opened(TrueLoans) = Opened(ledger.loans)
      /\ \A d \in Opened(ledger.loans) :
           TrueLoans[d].outstanding <= ledger.loans[d].outstanding
  BY TrueLoan, LoanAmounts DEF Opened
<1>3. Reported(TrueLoans) = ids
  BY <1>2 DEF Reported
<1>4. \A c : AliasesOf(TrueLoans, c) = AliasesOf(ledger.loans, c)
  BY <1>2 DEF AliasesOf
<1>5. /\ UniqueDebtOf(ledger.loans) = SumFunctionOnSet(f, ids)
      /\ f \in [CanonicalIds -> Nat] /\ ids \in SUBSET CanonicalIds
  BY <1>1, CountedDebt
<1>6. ASSUME NEW c \in ids
      PROVE  /\ least[c] \in Nat
             /\ \E d \in AliasesOf(TrueLoans, c) : TrueLoans[d].outstanding = least[c]
             /\ \A d \in AliasesOf(TrueLoans, c) : least[c] <= TrueLoans[d].outstanding
             /\ least[c] <= f[c] /\ f[c] \in Nat
  <2> DEFINE A == AliasesOf(TrueLoans, c)
             S == {TrueLoans[d].outstanding : d \in A}
  <2>1. A # {} /\ A \subseteq Opened(ledger.loans) /\ A \subseteq Debts
    BY <1>2, <1>4 DEF Reported, AliasesOf, Opened
  <2>2. S \in SUBSET Nat /\ S # {}
    BY <1>2, <2>1
  <2>3. least[c] = Min(S)
    OBVIOUS
  <2> HIDE DEF least, ids
  <2>4. Min(S) \in S /\ \A x \in S : Min(S) <= x
    BY <2>2, MinOfNat
  <2>5. /\ least[c] \in Nat
        /\ \E d \in A : TrueLoans[d].outstanding = least[c]
        /\ \A d \in A : least[c] <= TrueLoans[d].outstanding
    BY <2>2, <2>3, <2>4
  <2>6. PICK d \in A : ledger.loans[d].outstanding = f[c]
    <3>1. c \in CanonicalIds /\ f[c] = ledger.canonical[c].outstanding
      BY <1>5 DEF CanonicalDebt
    <3> QED BY <1>1, <1>4, <2>1, <3>1 DEF CanonicalFits
  <2>7. TrueLoans[d].outstanding <= f[c] /\ TrueLoans[d].outstanding \in Nat
    BY <1>2, <2>1, <2>6
  <2>8. least[c] <= TrueLoans[d].outstanding
    BY <2>5
  <2>9. f[c] \in Nat
    BY <1>5
  <2> HIDE DEF A, f, S
  <2>10. least[c] <= f[c]
    BY <2>5, <2>7, <2>8, <2>9
  <2> QED BY <2>5, <2>9, <2>10 DEF A
<1> HIDE DEF least, f
<1>7. UniqueDebtOf(TrueLoans) = SumFunctionOnSet(least, ids)
  BY <1>2, <1>3, <1>6, UniqueDebtIs
<1>8. SumFunctionOnSet(least, ids) <= SumFunctionOnSet(f, ids)
  <2>1. IsFiniteSet(ids)
    BY ReportedFinite
  <2> HIDE DEF ids
  <2> QED BY <1>6, <2>1, SumMonotone
<1>9. SumFunctionOnSet(least, ids) \in Nat
  <2>1. IsFiniteSet(ids)
    BY ReportedFinite
  <2> HIDE DEF ids
  <2> QED BY <1>6, <2>1, SumNat
<1> QED BY <1>1, <1>5, <1>7, <1>8, <1>9 DEF TrueDebt, TrueLoans

(* Once every source's seal is proven, the ledger never understates what    *)
(* the borrowers owe at the sources.                                        *)
THEOREM NeverUnderstated == ExposureSpec => []SealedNeverUnderstated
<1>1. IInv => SealedNeverUnderstated
  BY TrueDebtBelow DEF SealedNeverUnderstated
<1> QED BY <1>1, Invariance, PTL

LEMMA SnapshotCovers == IInv => SnapshotCoversSources
<1> SUFFICES ASSUME IInv, SnapshotComplete, NEW s \in Registered
             PROVE  \E i \in 1..Len(receipts) : \E j \in 1..Len(receipts[i]) :
                      LET log == receipts[i][j]
                      IN  /\ log.type = "Checkpoint" /\ log.emitter = s
                          /\ log.epoch = snapshot.epoch
                          /\ log.totals = ledger.sources[s].totals
                          /\ snapshot.validUntil <= log.timestamp + MaxAge
  BY DEF SnapshotCoversSources
<1>1. /\ Covered(s, snapshot.epoch)
      /\ snapshot.validUntil <= ledger.sources[s].checkpointTimestamp + MaxAge
  BY DEF IInv, SnapshotInv
<1>2. PICK i \in 1..Len(receipts) : \E j \in 1..Len(receipts[i]) :
        LastCheckpoint(ledger, s, receipts[i][j])
  BY <1>1 DEF IInv, LedgerFits, Checkpointed, Covered
<1>3. PICK j \in 1..Len(receipts[i]) : LastCheckpoint(ledger, s, receipts[i][j])
  BY <1>2
<1>4. LET log == receipts[i][j]
      IN  /\ log.type = "Checkpoint" /\ log.emitter = s
          /\ log.epoch = snapshot.epoch
          /\ log.totals = ledger.sources[s].totals
          /\ snapshot.validUntil <= log.timestamp + MaxAge
  BY <1>1, <1>3 DEF LastCheckpoint, Covered
<1> QED BY <1>4

(* A complete snapshot is, source by source, what a proven checkpoint of    *)
(* its epoch committed to, and none of these is older than it may be.       *)
THEOREM SnapshotsCover == ExposureSpec => []SnapshotCoversSources
BY Invariance, SnapshotCovers, PTL

-----------------------------------------------------------------------------
(* The replica of each source. *)
Told(history) == [k \in 1..Len(history) |-> SourceAfter(SubSeq(history, 1, k))]

LEMMA PrefixIs ==
  ASSUME NEW S, NEW h \in Seq(S), NEW n \in 0..Len(h), NEW known \in Seq(S),
         Len(known) = n, \A k \in 1..n : known[k] = h[k]
  PROVE  SubSeq(h, 1, n) = known
<1>1. /\ SubSeq(h, 1, n) \in Seq(S) /\ Len(SubSeq(h, 1, n)) = n
      /\ \A k \in 1..n : SubSeq(h, 1, n)[k] = h[k]
  OBVIOUS
<1> QED BY <1>1, SeqEqual

LEMMA ToldGrows ==
  ASSUME NEW h \in History, NEW g \in History, Len(h) <= Len(g),
         \A k \in 1..Len(h) : g[k] = h[k]
  PROVE  /\ Len(Told(h)) = Len(h) /\ Len(Told(g)) = Len(g)
         /\ \A k \in 1..Len(h) : Told(g)[k] = Told(h)[k]
<1>1. Len(h) \in Nat /\ Len(g) \in Nat
  BY DEF History
<1>2. ASSUME NEW k \in 1..Len(h) PROVE SubSeq(g, 1, k) = SubSeq(h, 1, k)
  <2>1. k \in 0..Len(g) /\ k <= Len(h)
    BY <1>1
  <2>2. SubSeq(h, 1, k) \in History /\ Len(SubSeq(h, 1, k)) = k
    <3> DEFINE E == [loanId : LoanIds, loan : Loan]
    <3>1. h \in Seq(E) /\ 1 \in Int /\ k \in Int /\ 1 <= k
      BY <1>1 DEF History
    <3>2. \A i \in 1..k : h[i] \in E
      <4>1. ASSUME NEW i \in 1..k PROVE i \in 1..Len(h)
        BY <1>1, <2>1
      <4> HIDE DEF E
      <4> QED BY <3>1, <4>1
    <3> HIDE DEF E
    <3>3. SubSeq(h, 1, k) \in Seq(E) /\ Len(SubSeq(h, 1, k)) = k
      BY <3>1, <3>2, SubSeqProperties
    <3> QED BY <3>3 DEF E, History
  <2>3. ASSUME NEW j \in 1..k PROVE SubSeq(h, 1, k)[j] = g[j]
    <3>1. j \in 1..Len(h)
      BY <1>1, <2>1
    <3>2. SubSeq(h, 1, k)[j] = h[j]
      BY <1>1 DEF History
    <3> QED BY <3>1, <3>2
  <2> QED BY <2>1, <2>2, <2>3, PrefixIs DEF History
<1>3. Len(Told(h)) = Len(h) /\ Len(Told(g)) = Len(g)
  BY <1>1 DEF Told
<1>4. ASSUME NEW k \in 1..Len(h) PROVE Told(g)[k] = Told(h)[k]
  <2>1. k \in 1..Len(g)
    BY <1>1
  <2> QED BY <1>2, <2>1 DEF Told
<1> QED BY <1>3, <1>4

LEMMA SourceHistoryIs ==
  ASSUME NEW s \in Registered
  PROVE  /\ SourceHistory(s) = Told(HistoryOf(s))
         /\ SourceHistory(s)' = Told(HistoryOf(s)')
         /\ LedgerView(s) = ViewOf(LoansOf(ledger, s), ledger.sources[s].totals)
         /\ LedgerView(s)' = ViewOf(LoansOf(ledger', s), ledger'.sources[s].totals)
BY DEF SourceHistory, Told, HistoryOf, LedgerView, ViewOf, LoansOf

(* The ledger shows the source as it was after the events it knows. *)
LEMMA ViewTold ==
  ASSUME SourceTypeOK, NEW L, LedgerFits(L), NEW s \in Registered
  PROVE  LET n == L.sources[s].totals.eventCount
             h == HistoryOf(s)
         IN  /\ h \in History /\ Len(h) \in Nat /\ n \in 0..Len(h)
             /\ ViewOf(LoansOf(L, s), L.sources[s].totals) = SourceAfter(SubSeq(h, 1, n))
<1> DEFINE totals == L.sources[s].totals
           h == HistoryOf(s)
           known == totals.historyRoot
<1>1. h \in History /\ Len(h) \in Nat
  BY RegisteredSource, BookOf
<1>2. known \in History /\ Len(known) \in Nat
  BY StateFields, TotalsFields DEF LedgerFits
<1>3. /\ totals.eventCount = Len(known) /\ Len(known) <= Len(h)
      /\ \A k \in 1..Len(known) : known[k] = h[k]
      /\ ViewOf(LoansOf(L, s), totals) = SourceAfter(known)
  BY DEF LedgerFits, Mirrored, MirrorFits
<1> HIDE DEF h, known, totals
<1>4. totals.eventCount \in 0..Len(h)
  BY <1>1, <1>2, <1>3
<1>5. SubSeq(h, 1, totals.eventCount) = known
  BY <1>1, <1>2, <1>3, <1>4, PrefixIs DEF History
<1> QED BY <1>1, <1>3, <1>4, <1>5 DEF h, totals

LEMMA ReplicaStarts == ASSUME ExposureInit, NEW s \in Registered PROVE Replica(s)!Init
<1>1. /\ books[s].totals = NoTotals /\ ledger.sources[s].totals = NoTotals
      /\ LoansOf(ledger, s) = [id \in LoanIds |-> NoLoan]
  BY RegisteredSource
    DEF ExposureInit, SourceInit, LedgerInit, NewSourceState, LoansOf, Debts
<1>2. HistoryOf(s) = <<>> /\ ledger.sources[s].totals.eventCount = 0
  BY <1>1, NoTotalsType DEF HistoryOf
<1>3. LedgerView(s) = SourceAfter(<<>>)
  BY <1>1, NothingTold, SourceHistoryIs
<1>4. SourceHistory(s) = <<>>
  BY <1>2, SourceHistoryIs DEF Told
<1> QED BY <1>2, <1>3, <1>4 DEF Replica!Init

(* An event emitted, or nothing the replica shows. *)
LEMMA ReplicaPublishes ==
  ASSUME SourceTypeOK, SourceTypeOK', SourceGrows, ledger' = ledger, NEW s \in Registered
  PROVE  [Replica(s)!Next]_(Replica(s)!replicaVars)
<1> DEFINE h == HistoryOf(s)
           g == HistoryOf(s)'
<1>1. h \in History /\ Len(h) \in Nat
  BY RegisteredSource, BookOf
<1>2. g \in History /\ Len(g) \in Nat
  <2>1. books'[s] \in Book
    BY RegisteredSource DEF SourceTypeOK, Book
  <2> QED BY <2>1 DEF Book, Totals, History, HistoryOf
<1>3. /\ Len(h) <= Len(g) /\ Len(g) <= Len(h) + 1
      /\ \A k \in 1..Len(h) : g[k] = h[k]
  BY RegisteredSource DEF SourceGrows, Grows, HistoryOf
<1>4. /\ LedgerView(s)' = LedgerView(s)
      /\ SourceHistory(s) = Told(h) /\ SourceHistory(s)' = Told(g)
  BY SourceHistoryIs
<1> HIDE DEF h, g
<1>5. /\ Len(Told(h)) = Len(h) /\ Len(Told(g)) = Len(g)
      /\ \A k \in 1..Len(h) : Told(g)[k] = Told(h)[k]
  BY <1>1, <1>2, <1>3, ToldGrows
<1>6. CASE Len(g) = Len(h)
  <2>1. g = h
    BY <1>1, <1>2, <1>3, <1>6, SeqEqual DEF History
  <2> QED BY <1>4, <2>1 DEF Replica!replicaVars
<1>7. CASE Len(g) = Len(h) + 1
  <2>1. Replica(s)!Publish
    BY <1>4, <1>5, <1>7 DEF Replica!Publish
  <2> QED BY <2>1 DEF Replica!Next
<1> QED BY <1>1, <1>2, <1>3, <1>6, <1>7

(* The events a receipt brought, or nothing of this source. *)
LEMMA ReplicaCatchesUp ==
  ASSUME IInv, Relay, NEW s \in Registered
  PROVE  [Replica(s)!Next]_(Replica(s)!replicaVars)
<1> DEFINE h == HistoryOf(s)
           n == ledger.sources[s].totals.eventCount
           m == ledger'.sources[s].totals.eventCount
<1>1. /\ LedgerFits(ledger) /\ LedgerFits(ledger') /\ SourceTypeOK /\ books' = books
  BY RelayKeeps DEF IInv, TypeOK, sourceVars
<1>2. n <= m
  BY RelayKeeps DEF LaterBy
<1>3. /\ SourceHistory(s) = Told(h) /\ SourceHistory(s)' = Told(h)
      /\ LedgerView(s) = ViewOf(LoansOf(ledger, s), ledger.sources[s].totals)
      /\ LedgerView(s)' = ViewOf(LoansOf(ledger', s), ledger'.sources[s].totals)
  BY <1>1, SourceHistoryIs DEF HistoryOf
<1>4. /\ Len(h) \in Nat /\ n \in 0..Len(h) /\ m \in 0..Len(h)
      /\ LedgerView(s) = SourceAfter(SubSeq(h, 1, n))
      /\ LedgerView(s)' = SourceAfter(SubSeq(h, 1, m))
  BY <1>1, <1>3, ViewTold
<1>5. CASE n = m
  BY <1>3, <1>4, <1>5 DEF Replica!replicaVars
<1>6. CASE n < m
  <2>1. m \in (n + 1)..Len(h) /\ Len(Told(h)) = Len(h) /\ Told(h)[m] = LedgerView(s)'
    BY <1>4, <1>6 DEF Told
  <2>2. Replica(s)!CatchUp
    BY <1>3, <2>1 DEF Replica!CatchUp
  <2> QED BY <2>2 DEF Replica!Next
<1> QED BY <1>2, <1>4, <1>5, <1>6

LEMMA ReplicaSteps ==
  ASSUME IInv, IInv', [ExposureNext]_exposureVars, NEW s \in Registered
  PROVE  [Replica(s)!Next]_(Replica(s)!replicaVars)
<1>1. SourceTypeOK /\ SourceTypeOK' /\ ChainInv /\ LogsInv
  BY DEF IInv, TypeOK
<1>2. ASSUME UNCHANGED <<books, ledger>> PROVE UNCHANGED (Replica(s)!replicaVars)
  <2>1. HistoryOf(s)' = HistoryOf(s)
    BY <1>2 DEF HistoryOf
  <2> QED BY <1>2, <2>1, SourceHistoryIs DEF Replica!replicaVars
<1>3. CASE Source
  <2>1. SourceGrows
    BY <1>1, <1>3, SourceStepKeeps DEF Source, SourceKept
  <2> QED BY <1>1, <1>3, <2>1, ReplicaPublishes DEF Source, ledgerVars
<1>4. CASE Relay
  BY <1>4, ReplicaCatchesUp
<1>5. CASE Relate
  BY <1>1, <1>2, <1>5, RelateKeeps DEF IInv, TypeOK, sourceVars
<1>6. CASE Finalize
  BY <1>2, <1>6, FinalizeKeeps DEF sourceVars
<1>7. CASE Tick \/ UNCHANGED exposureVars
  BY <1>2, <1>7 DEF Tick, exposureVars, sourceVars, ledgerVars
<1> QED BY <1>3, <1>4, <1>5, <1>6, <1>7 DEF ExposureNext

(* However receipts are ordered, repeated, batched or withheld, the ledger  *)
(* shows each registered source as it was after some prefix of its events,  *)
(* and only moves forward: it implements a lagged replica of each.          *)
THEOREM EverySourceMirrored == ExposureSpec => MirrorsEverySource
<1>1. ExposureInit => \A s \in Registered : Replica(s)!Init
  BY ReplicaStarts
<1>2. IInv /\ IInv' /\ [ExposureNext]_exposureVars =>
        [\A s \in Registered : [Replica(s)!Next]_(Replica(s)!replicaVars)]_exposureVars
  BY ReplicaSteps
<1> QED BY <1>1, <1>2, Invariance, PTL DEF ExposureSpec, MirrorsEverySource

-----------------------------------------------------------------------------
(* The gate over this ledger. *)
Gate == INSTANCE ExposureCreditProofs WITH reading <- Reading

LEMMA ReadingBounds ==
  /\ MaxUint \in Nat \ {0} /\ MaxAge \in Nat \ {0} /\ MaxEpoch \in Nat
  /\ MaxLedgerVersion \in Nat /\ MaxNow \in Nat
BY MaxUintAssumption, SourceConstants, LedgerConstants, LedgerVersions, NowBound

(* Two readings are the same if their getters return the same. *)
Getters == {"stateVersion", "totalDebt", "snapshotId", "snapshotComplete", "validUntil"}

LEMMA SameReading ==
  ASSUME NEW r, NEW q, r = [getter \in Getters |-> r[getter]],
         q = [getter \in Getters |-> q[getter]],
         r.stateVersion = q.stateVersion, r.totalDebt = q.totalDebt,
         r.snapshotId = q.snapshotId, r.snapshotComplete = q.snapshotComplete,
         r.validUntil = q.validUntil
  PROVE  r = q
<1>1. \A getter \in Getters : r[getter] = q[getter]
  BY DEF Getters
<1> QED BY <1>1

LEMMA ReadingIs ==
  /\ Reading = [getter \in Getters |-> Reading[getter]]
  /\ Reading.stateVersion = ledger.stateVersion /\ Reading.totalDebt = ledger.totalDebt
  /\ Reading.snapshotId = snapshot.epoch /\ Reading.snapshotComplete = SnapshotComplete
  /\ Reading.validUntil = snapshot.validUntil
BY DEF Reading, Getters

LEMMA NextReadingIs ==
  /\ Reading' = [getter \in Getters |-> Reading'[getter]]
  /\ Reading'.stateVersion = ledger'.stateVersion /\ Reading'.totalDebt = ledger'.totalDebt
  /\ Reading'.snapshotId = snapshot'.epoch /\ Reading'.snapshotComplete = SnapshotComplete'
  /\ Reading'.validUntil = snapshot'.validUntil
BY DEF Reading, Getters

(* A receipt raises the version, within its bound, and no snapshot is       *)
(* complete afterwards.                                                     *)
LEMMA RelayIngests == ASSUME IInv, IInv', Relay PROVE Credit!Ingest
<1>1. /\ snapshot' = snapshot /\ now' = now /\ receipts' = receipts
      /\ \E n \in Nat \ {0} : ledger'.stateVersion = ledger.stateVersion + n
  BY RelayKeeps DEF LaterBy, sourceVars
<1>2. /\ ledger.stateVersion \in Nat /\ ledger'.stateVersion \in Nat
      /\ ledger'.totalDebt \in Uint
  <2>1. ledger \in Ledger /\ ledger' \in Ledger
    BY DEF IInv, LedgerFits
  <2> QED BY <2>1, LedgerFields
<1>3. /\ snapshot.stateVersion \in Nat /\ snapshot.stateVersion <= ledger.stateVersion
  BY DEF IInv, SnapshotInv, TypeOK, LedgerTypeOK
<1>4. SnapshotComplete' = FALSE
  BY <1>1, <1>2, <1>3 DEF SnapshotComplete
<1>5. ledger'.stateVersion <= MaxLedgerVersion
  <2>1. /\ processedQueries' \subseteq 1..Len(receipts)
        /\ ledger'.stateVersion <= Cardinality(processedQueries') * MaxTxLogs
        /\ Len(receipts) \in Nat /\ Len(receipts) <= MaxTxs
    BY <1>1 DEF IInv, VersionInv, LogsInv, TypeOK, SourceTypeOK
  <2>2. IsFiniteSet(1..Len(receipts)) /\ Cardinality(1..Len(receipts)) = Len(receipts)
    <3> DEFINE n == Len(receipts)
    <3>1. n \in Nat
      BY <2>1
    <3> HIDE DEF n
    <3>2. IsFiniteSet(1..n) /\ Cardinality(1..n) = (IF 1 > n THEN 0 ELSE n - 1 + 1)
      BY <3>1, FS_Interval
    <3> QED BY <3>1, <3>2 DEF n
  <2>3. /\ Cardinality(processedQueries') \in Nat
        /\ Cardinality(processedQueries') <= MaxTxs
    <3>1. /\ IsFiniteSet(processedQueries')
          /\ Cardinality(processedQueries') <= Cardinality(1..Len(receipts))
      BY <2>1, <2>2, FS_Subset
    <3>2. Cardinality(processedQueries') \in Nat
      BY <3>1, FS_CardinalityType
    <3> QED BY <2>1, <2>2, <3>1, <3>2, SourceConstants
  <2>4. \A k, n, m \in Nat : k <= n => k * m <= n * m
    OBVIOUS
  <2>5. /\ MaxTxs \in Nat /\ MaxTxLogs \in Nat /\ MaxLedgerVersion \in Nat
        /\ MaxTxs * MaxTxLogs <= MaxLedgerVersion
    BY SourceConstants, LedgerVersions
  <2>6. Cardinality(processedQueries') * MaxTxLogs <= MaxTxs * MaxTxLogs
    BY <2>3, <2>4, <2>5
  <2> QED BY <1>2, <2>1, <2>3, <2>5, <2>6
<1>6. ledger'.stateVersion \in (ledger.stateVersion + 1)..MaxLedgerVersion
  BY <1>1, <1>2, <1>5, ReadingBounds
<1>7. Reading.stateVersion = ledger.stateVersion
  BY DEF Reading
<1>8. Reading' = [Reading EXCEPT !.stateVersion = ledger'.stateVersion,
                                 !.totalDebt = ledger'.totalDebt,
                                 !.snapshotComplete = FALSE]
  <2> DEFINE next == [Reading EXCEPT !.stateVersion = ledger'.stateVersion,
                                     !.totalDebt = ledger'.totalDebt,
                                     !.snapshotComplete = FALSE]
  <2>1. /\ next = [getter \in Getters |-> next[getter]]
        /\ next.stateVersion = ledger'.stateVersion /\ next.totalDebt = ledger'.totalDebt
        /\ next.snapshotId = Reading.snapshotId /\ next.snapshotComplete = FALSE
        /\ next.validUntil = Reading.validUntil
    BY ReadingIs DEF Getters
  <2> HIDE DEF next
  <2>2. Reading'.snapshotComplete = FALSE
    BY <1>4 DEF Reading
  <2>3. Reading'.snapshotId = Reading.snapshotId /\ Reading'.validUntil = Reading.validUntil
    BY <1>1 DEF Reading
  <2>4. Reading' = next
    BY <2>1, <2>2, <2>3, NextReadingIs, SameReading
  <2> QED BY <2>4 DEF next
<1> QED BY <1>1, <1>2, <1>6, <1>7, <1>8 DEF Credit!Ingest, Credit!Uint, Uint

(* A snapshot has an epoch of its own and expires MaxAge after the oldest   *)
(* of its checkpoints, none of which is ahead of the ledger's clock.        *)
LEMMA FinalizeCertifies == ASSUME IInv, IInv', Finalize PROVE Credit!Certify
<1>1. PICK s \in Registered : FinalizeSnapshot(ledger.sources[s].checkpointEpoch, now)
  BY DEF Finalize
<1> DEFINE epoch == ledger.sources[s].checkpointEpoch
           expiry == OldestCheckpoint + MaxAge
<1>2. /\ epoch > snapshot.epoch /\ \A t \in Registered : Covered(t, epoch)
      /\ now <= expiry /\ ledger' = ledger /\ now' = now
      /\ snapshot' = [epoch |-> epoch, stateVersion |-> ledger.stateVersion,
                      validUntil |-> expiry]
  BY <1>1 DEF FinalizeSnapshot, Finalize
<1>3. /\ epoch \in Nat /\ snapshot.epoch \in Nat /\ now \in Nat
      /\ \A t \in Registered : ledger.sources[t].checkpointTimestamp \in Nat
  BY StateFields DEF IInv, LedgerFits, TypeOK, LedgerTypeOK
<1>4. \A t \in Registered : /\ ledger.sources[t].checkpointTimestamp <= now
                            /\ ledger.sources[t].checkpointEpoch <= MaxEpoch
  BY <1>2 DEF IInv, LedgerFits, Checkpointed, Covered
<1>5. OldestCheckpoint \in Nat /\ OldestCheckpoint <= now
  <2>1. /\ CheckpointTimes \subseteq Nat /\ CheckpointTimes # {}
        /\ \A c \in CheckpointTimes : c <= now
    BY <1>3, <1>4 DEF CheckpointTimes
  <2>2. OldestCheckpoint \in CheckpointTimes
    BY <2>1, MinOfNat DEF OldestCheckpoint
  <2> QED BY <2>1, <2>2
<1>6. expiry \in now..(now + MaxAge) /\ epoch \in (snapshot.epoch + 1)..MaxEpoch
  BY <1>2, <1>3, <1>4, <1>5, ReadingBounds
<1>7. SnapshotComplete' = TRUE
  BY <1>2, <1>3, <1>6 DEF SnapshotComplete
<1>8. Reading' = [Reading EXCEPT !.snapshotId = epoch, !.snapshotComplete = TRUE,
                                 !.validUntil = expiry]
  <2> DEFINE next == [Reading EXCEPT !.snapshotId = epoch, !.snapshotComplete = TRUE,
                                     !.validUntil = expiry]
  <2> HIDE DEF epoch, expiry
  <2>1. /\ next = [getter \in Getters |-> next[getter]]
        /\ next.stateVersion = Reading.stateVersion /\ next.totalDebt = Reading.totalDebt
        /\ next.snapshotId = epoch /\ next.snapshotComplete = TRUE
        /\ next.validUntil = expiry
    BY ReadingIs DEF Getters
  <2> HIDE DEF next
  <2>2. Reading' = next
    BY <1>2, <1>7, <2>1, ReadingIs, NextReadingIs, SameReading
  <2> QED BY <2>2 DEF next
<1>9. Reading.snapshotId = snapshot.epoch
  BY DEF Reading
<1> HIDE DEF epoch, expiry
<1> QED BY <1>2, <1>6, <1>8, <1>9 DEF Credit!Certify

LEMMA LedgerPromises ==
  ASSUME IInv, IInv', [ExposureNext]_exposureVars
  PROVE  [Credit!ReadingNext]_(Credit!readingVars)
<1>1. ASSUME UNCHANGED <<ledger, snapshot>> PROVE Reading' = Reading
  BY <1>1 DEF Reading, SnapshotComplete
<1>2. CASE Source \/ UNCHANGED exposureVars
  BY <1>1, <1>2 DEF Source, exposureVars, ledgerVars, Credit!readingVars
<1>3. CASE Relay
  BY <1>3, RelayIngests DEF Credit!ReadingNext
<1>4. CASE Relate
  BY <1>1, <1>4, RelateKeeps DEF IInv, TypeOK, Credit!readingVars
<1>5. CASE Finalize
  BY <1>5, FinalizeCertifies DEF Credit!ReadingNext
<1>6. CASE Tick
  BY <1>1, <1>6 DEF Tick, ledgerVars, Credit!ReadingNext, Credit!Pass
<1> QED BY <1>2, <1>3, <1>4, <1>5, <1>6 DEF ExposureNext

-----------------------------------------------------------------------------
(* The whole system. *)
LEMMA SystemStep ==
  ASSUME IInv, IInv', [SystemNext]_systemVars
  PROVE  [Credit!LedgerStep \/ Credit!GateStep]_(Credit!creditSpecVars)
<1>1. CASE ExposureNext /\ UNCHANGED <<gateVars, held>>
  <2>1. [Credit!ReadingNext]_(Credit!readingVars)
    BY <1>1, LedgerPromises
  <2>2. UNCHANGED Credit!gateVars /\ held' = held
    BY <1>1 DEF gateVars, Credit!gateVars
  <2> QED BY <2>1, <2>2 DEF Credit!LedgerStep, Credit!creditSpecVars
<1>2. CASE UNCHANGED exposureVars /\ Credit!GateStep
  BY <1>2
<1>3. CASE UNCHANGED systemVars
  <2>1. Reading' = Reading /\ now' = now
    BY <1>3 DEF systemVars, exposureVars, ledgerVars, Reading, SnapshotComplete
  <2>2. UNCHANGED Credit!gateVars /\ held' = held
    BY <1>3 DEF systemVars, gateVars, Credit!gateVars
  <2> QED BY <2>1, <2>2 DEF Credit!creditSpecVars, Credit!readingVars
<1> QED BY <1>1, <1>2, <1>3 DEF SystemNext

LEMMA SystemStarts == SystemInit => Credit!CreditInit
<1> SUFFICES ASSUME SystemInit PROVE Credit!CreditInit
  OBVIOUS
<1>1. Credit!ReadingInit
  <2>1. /\ ledger.stateVersion = 0 /\ ledger.totalDebt = 0 /\ now = 1
        /\ snapshot = [epoch |-> 0, stateVersion |-> 0, validUntil |-> 0]
    BY DEF SystemInit, ExposureInit, LedgerInit
  <2>2. SnapshotComplete = FALSE
    BY <2>1 DEF SnapshotComplete
  <2> QED BY <2>1, <2>2 DEF Reading, Credit!ReadingInit
<1>2. Credit!GateInit
  BY DEF SystemInit, GateInit, Credit!GateInit
<1> QED BY <1>1, <1>2 DEF SystemInit, Credit!CreditInit

(* The invariant of sources and ledger, whatever the gate does. *)
LEMMA SystemInvariant == SystemSpec => []IInv
<1>1. SystemInit => IInv
  BY InitFits DEF SystemInit
<1>2. IInv /\ [SystemNext]_systemVars => IInv'
  <2>1. [SystemNext]_systemVars => [ExposureNext]_exposureVars
    BY DEF SystemNext, systemVars
  <2> QED BY <2>1, StepKeeps
<1> QED BY <1>1, <1>2, PTL DEF SystemSpec

(* Sources and ledger together keep the promise of ExposureReading, so the  *)
(* gate's theorems, proved over any such ledger, hold of the system.        *)
THEOREM PromiseKept == SystemSpec => KeepsThePromise
<1>1. IInv /\ IInv' /\ [SystemNext]_systemVars
        => [Credit!LedgerStep \/ Credit!GateStep]_(Credit!creditSpecVars)
  BY SystemStep
<1> QED BY <1>1, SystemStarts, SystemInvariant, PTL
    DEF SystemSpec, KeepsThePromise, Credit!CreditSpec

LEMMA GateIsCredit ==
  /\ Credit!CreditInit => Gate!CreditInit
  /\ Credit!LedgerStep => Gate!LedgerStep
  /\ Credit!GateStep => Gate!GateStep
  /\ UNCHANGED Credit!creditSpecVars => UNCHANGED Gate!creditSpecVars
<1>1. Credit!CreditInit => Gate!CreditInit
  BY DEF Credit!CreditInit, Gate!CreditInit, Credit!ReadingInit, Gate!ReadingInit,
         Credit!GateInit, Gate!GateInit
<1>2. Credit!LedgerStep => Gate!LedgerStep
  BY DEF Credit!LedgerStep, Gate!LedgerStep, Credit!ReadingNext, Gate!ReadingNext,
         Credit!Ingest, Gate!Ingest, Credit!Certify, Gate!Certify, Credit!Pass, Gate!Pass,
         Credit!Uint, Gate!Uint, Credit!gateVars, Gate!gateVars
<1>3. Credit!GateStep => Gate!GateStep
  BY DEF Credit!GateStep, Gate!GateStep, Credit!SetPolicies, Gate!SetPolicies,
         Credit!SetAllocator, Gate!SetAllocator, Credit!SetExecutor, Gate!SetExecutor,
         Credit!SetPolicy, Gate!SetPolicy, Credit!Authorized, Gate!Authorized,
         Credit!Observe, Gate!Observe, Credit!Decision, Gate!Decision,
         Credit!Reason, Gate!Reason, Credit!Headroom, Gate!Headroom,
         Credit!Minus, Gate!Minus, Credit!Fresh, Gate!Fresh,
         Credit!ExposureStateVersion, Gate!ExposureStateVersion,
         Credit!ReserveHeld, Gate!ReserveHeld, Credit!Reserve, Gate!Reserve,
         Credit!ExecuteHeld, Gate!ExecuteHeld, Credit!RepayHeld, Gate!RepayHeld,
         Credit!ExecuteReservation, Gate!ExecuteReservation,
         Credit!RepayExecution, Gate!RepayExecution, Credit!MayUse, Gate!MayUse,
         Credit!Bind, Gate!Bind, Credit!StatusAfter, Gate!StatusAfter,
         Credit!Uint, Gate!Uint, Credit!readingVars, Gate!readingVars,
         Credit!gateVars, Gate!gateVars, Credit!policyVars, Gate!policyVars,
         Credit!creditVars, Gate!creditVars
<1>4. UNCHANGED Credit!creditSpecVars => UNCHANGED Gate!creditSpecVars
  BY DEF Credit!creditSpecVars, Gate!creditSpecVars, Credit!readingVars, Gate!readingVars,
         Credit!gateVars, Gate!gateVars
<1> QED BY <1>1, <1>2, <1>3, <1>4

(* What the gate's theorems assume of its constants. *)
LEMMA GateAssumptions ==
  Gate!MaxUintAssumption /\ Gate!ReadingConstants /\ Gate!GateConstants
<1>1. \A S : IsFiniteSet(S) => Gate!IsFiniteSet(S)
  BY DEF IsFiniteSet, Gate!IsFiniteSet
<1>2. Gate!Uint = Uint /\ Gate!ProofUse = ProofUse
  BY DEF Gate!Uint, Uint, Gate!ProofUse, ProofUse
<1>3. Gate!GateConstants
  BY <1>1, <1>2, GateConstants DEF Gate!GateConstants
<1>4. Gate!MaxUintAssumption
  BY MaxUintAssumption DEF Gate!MaxUintAssumption
<1>5. Gate!ReadingConstants
  BY ReadingBounds DEF Gate!ReadingConstants
<1> QED BY <1>3, <1>4, <1>5

(* Whatever the ledger makes of the sources, decisions are worth their      *)
(* versions and the gate's totals are what its commitments and proof        *)
(* references add up to.                                                    *)
THEOREM GateOverLedger == SystemSpec => []Gate!IInv
<1>1. Gate!CreditInit => Gate!IInv
  BY GateAssumptions, Gate!InitInv
    DEF Gate!MaxUintAssumption, Gate!ReadingConstants, Gate!GateConstants
<1>2. Gate!IInv /\ [Gate!LedgerStep \/ Gate!GateStep]_(Gate!creditSpecVars) => Gate!IInv'
  BY GateAssumptions, Gate!StepInv
    DEF Gate!MaxUintAssumption, Gate!ReadingConstants, Gate!GateConstants
<1>3. SystemInit => Gate!CreditInit
  BY SystemStarts, GateIsCredit
<1>4. IInv /\ IInv' /\ [SystemNext]_systemVars
        => [Gate!LedgerStep \/ Gate!GateStep]_(Gate!creditSpecVars)
  BY SystemStep, GateIsCredit
<1> QED BY <1>1, <1>2, <1>3, <1>4, SystemInvariant, PTL DEF SystemSpec

LEMMA GateAmounts ==
  ASSUME Gate!IInv
  PROVE  /\ creditLimit \in Nat /\ reservedCredit \in Nat /\ executedCredit \in Nat
         /\ \A c \in Commitments : reservations[c].amount \in Nat
         /\ \A h \in Holders : held[h] # NoDecision => held[h].amount \in Nat
<1>1. /\ Gate!GateTypeOK
      /\ held \in [Holders -> Gate!DecisionView \cup {NoDecision}]
  BY DEF Gate!IInv, Gate!CreditTypeOK
<1>2. Gate!Uint \subseteq Nat
  BY DEF Gate!Uint
<1>3. \A d \in Gate!DecisionView : d.amount \in Nat
  BY <1>2 DEF Gate!DecisionView
<1>4. /\ creditLimit \in Nat /\ reservedCredit \in Nat /\ executedCredit \in Nat
      /\ \A c \in Commitments : reservations[c].amount \in Nat
  BY <1>1, <1>2 DEF Gate!GateTypeOK
<1>5. \A h \in Holders : held[h] # NoDecision => held[h].amount \in Nat
  BY <1>1, <1>3
<1> QED BY <1>4, <1>5

(* What the gate decides on is level with a checkpoint of every source.     *)
LEMMA FreshIsCovered ==
  ASSUME IInv, Credit!Fresh(Reading, now)
  PROVE  \A s \in Registered :
           /\ Covered(s, snapshot.epoch)
           /\ now <= ledger.sources[s].checkpointTimestamp + MaxAge
<1>1. SnapshotComplete /\ now <= snapshot.validUntil
  BY ReadingIs DEF Credit!Fresh
<1>2. \A s \in Registered :
        /\ Covered(s, snapshot.epoch)
        /\ snapshot.validUntil <= ledger.sources[s].checkpointTimestamp + MaxAge
  BY <1>1 DEF IInv, SnapshotInv
<1>3. /\ now \in Nat /\ snapshot.validUntil \in Nat
      /\ \A s \in Registered : ledger.sources[s].checkpointTimestamp \in Nat
  BY StateFields DEF IInv, LedgerFits, TypeOK, LedgerTypeOK
<1>4. MaxAge \in Nat
  BY LedgerConstants
<1> QED BY <1>1, <1>2, <1>3, <1>4

LEMMA TrueDebtCovered ==
  ASSUME IInv, Credit!Fresh(Reading, now)
  PROVE  TrueDebt \in Nat /\ TrueDebt <= ledger.totalDebt
BY FreshIsCovered, TrueDebtBelow DEF SealedNeverUnderstated, Covered

LEMMA AllowedIsFresh ==
  ASSUME IInv, NEW amount, Credit!Reason(amount, Reading, now) = "ALLOW"
  PROVE  Credit!Fresh(Reading, now)
<1>1. now \in Nat /\ Reading.validUntil \in Nat
  BY ReadingIs DEF IInv, TypeOK, LedgerTypeOK
<1>2. Reading.snapshotComplete
  BY DEF Credit!Reason, Credit!Fresh
<1>3. ~(now > Reading.validUntil)
  BY <1>2 DEF Credit!Reason, Credit!Fresh
<1> QED BY <1>1, <1>2, <1>3 DEF Credit!Fresh

(* Only reservations, executions and repayments move credit, on a fresh     *)
(* and complete snapshot; only reservations raise what is reserved.         *)
LEMMA CreditMoves ==
  ASSUME IInv, Gate!IInv, [SystemNext]_systemVars
  PROVE  /\ reservationVersion' # reservationVersion => Credit!Fresh(Reading, now)
         /\ reservedCredit' > reservedCredit =>
              \E h \in Holders :
                /\ held[h] # NoDecision
                /\ reservedCredit' = reservedCredit + held[h].amount
                /\ executedCredit' = executedCredit
                /\ Credit!Reason(held[h].amount, Reading, now) = "ALLOW"
<1>1. reservedCredit \in Nat
  BY GateAmounts
<1>2. CASE UNCHANGED gateVars
  BY <1>1, <1>2 DEF gateVars
<1>3. CASE Credit!SetPolicies
  <2>1. reservationVersion' = reservationVersion /\ reservedCredit' = reservedCredit
    BY <1>3 DEF Credit!SetPolicies, Credit!SetAllocator, Credit!SetExecutor,
      Credit!SetPolicy, Credit!creditVars
  <2> QED BY <1>1, <2>1
<1>4. ASSUME NEW h \in Holders, Credit!ReserveHeld(h)
      PROVE  /\ Credit!Fresh(Reading, now)
             /\ held[h] # NoDecision
             /\ reservedCredit' = reservedCredit + held[h].amount
             /\ executedCredit' = executedCredit
             /\ Credit!Reason(held[h].amount, Reading, now) = "ALLOW"
  <2>1. /\ held[h] # NoDecision
        /\ reservedCredit' = reservedCredit + held[h].amount
        /\ executedCredit' = executedCredit
        /\ Credit!Reason(held[h].amount, Reading, now) = "ALLOW"
    BY <1>4 DEF Credit!ReserveHeld, Credit!Reserve
  <2>2. Credit!Fresh(Reading, now)
    BY <2>1, AllowedIsFresh
  <2> QED BY <2>1, <2>2
<1>5. ASSUME NEW h \in Holders, Credit!ExecuteHeld(h)
      PROVE  Credit!Fresh(Reading, now) /\ ~(reservedCredit' > reservedCredit)
  <2>1. PICK by \in Accounts, c \in Commitments, p \in ProofIds :
          Credit!ExecuteReservation(by, c, p, held[h].exposureStateVersion, Reading, now)
    BY <1>5 DEF Credit!ExecuteHeld
  <2>2. /\ Credit!Fresh(Reading, now)
        /\ reservedCredit' = reservedCredit - reservations[c].amount
    BY <2>1 DEF Credit!ExecuteReservation, Credit!MayUse
  <2> QED BY <1>1, <2>2, GateAmounts
<1>6. ASSUME NEW h \in Holders, Credit!RepayHeld(h)
      PROVE  Credit!Fresh(Reading, now) /\ ~(reservedCredit' > reservedCredit)
  <2>1. Credit!Fresh(Reading, now) /\ reservedCredit' = reservedCredit
    BY <1>6 DEF Credit!RepayHeld, Credit!RepayExecution, Credit!MayUse
  <2> QED BY <1>1, <2>1
<1>7. ASSUME NEW h \in Holders, Credit!Observe(h) PROVE UNCHANGED gateVars
  BY <1>7 DEF Credit!Observe, Credit!gateVars, gateVars
<1> QED BY <1>2, <1>3, <1>4, <1>5, <1>6, <1>7 DEF SystemNext, systemVars, Credit!GateStep

LEMMA Allowed ==
  ASSUME IInv, ledger.totalDebt \in Nat, NEW amount \in Nat,
         creditLimit \in Nat, reservedCredit \in Nat, executedCredit \in Nat,
         Credit!Reason(amount, Reading, now) = "ALLOW"
  PROVE  /\ Credit!Fresh(Reading, now)
         /\ ledger.totalDebt + (reservedCredit + amount) + executedCredit <= creditLimit
<1>1. Credit!Fresh(Reading, now)
  BY AllowedIsFresh
<1>2. amount # 0 /\ ~(amount > Credit!Headroom(Reading))
  BY <1>1 DEF Credit!Reason, Credit!Fresh
<1>3. Credit!Headroom(Reading)
        = Credit!Minus(Credit!Minus(Credit!Minus(creditLimit, ledger.totalDebt),
                                    reservedCredit), executedCredit)
  BY ReadingIs DEF Credit!Headroom
<1> QED BY <1>1, <1>2, <1>3 DEF Credit!Minus

(* Credit is reserved only if the limit covers what the borrowers owe at    *)
(* the sources, ingested or not, next to all other credit.                  *)
THEOREM TrueDebtCoveredByLimit == SystemSpec => ReservationsCoverTrueDebt
<1>1. IInv /\ Gate!IInv /\ [SystemNext]_systemVars =>
        [reservedCredit' > reservedCredit
           => TrueDebt + reservedCredit' + executedCredit' <= creditLimit]_systemVars
  <2> SUFFICES ASSUME IInv, Gate!IInv, [SystemNext]_systemVars, reservedCredit' > reservedCredit
               PROVE  TrueDebt + reservedCredit' + executedCredit' <= creditLimit
    OBVIOUS
  <2>1. PICK h \in Holders :
          /\ held[h] # NoDecision
          /\ reservedCredit' = reservedCredit + held[h].amount
          /\ executedCredit' = executedCredit
          /\ Credit!Reason(held[h].amount, Reading, now) = "ALLOW"
    BY CreditMoves
  <2>2. /\ held[h].amount \in Nat /\ reservedCredit \in Nat
        /\ executedCredit \in Nat /\ creditLimit \in Nat
    BY <2>1, GateAmounts
  <2>3. ledger.totalDebt \in Nat
    BY LedgerFields, Numbers DEF IInv, LedgerFits
  <2>4. /\ Credit!Fresh(Reading, now)
        /\ ledger.totalDebt + (reservedCredit + held[h].amount) + executedCredit
             <= creditLimit
    BY <2>1, <2>2, <2>3, Allowed
  <2>5. TrueDebt \in Nat /\ TrueDebt <= ledger.totalDebt
    BY <2>4, TrueDebtCovered
  <2> QED BY <2>1, <2>2, <2>3, <2>4, <2>5
<1> QED BY <1>1, SystemInvariant, GateOverLedger, PTL DEF SystemSpec, ReservationsCoverTrueDebt

(* Credit moves only while the ledger knows no event of a source later than *)
(* its last checkpoint, and no checkpoint is older than MaxAge.             *)
THEOREM CreditMovesOnFreshCoverage == SystemSpec => CreditOnFreshCoverage
<1>1. IInv /\ Gate!IInv /\ [SystemNext]_systemVars =>
        [reservationVersion' # reservationVersion
           => \A s \in Registered :
                /\ ledger.sources[s].checkpointEventCount
                     = ledger.sources[s].totals.eventCount
                /\ now <= ledger.sources[s].checkpointTimestamp + MaxAge]_systemVars
  BY CreditMoves, FreshIsCovered DEF Covered
<1> QED BY <1>1, SystemInvariant, GateOverLedger, PTL DEF SystemSpec, CreditOnFreshCoverage

-----------------------------------------------------------------------------
(* The page. *)

(* A source's debt is what its loans leave open. *)
LEMMA SourceDebt ==
  ASSUME IInv, NEW s \in Registered
  PROVE  LET totals == ledger.sources[s].totals
             open == [id \in LoanIds |-> ledger.loans[<<s, id>>].outstanding]
         IN  /\ totals.totalIssued - totals.totalRepaid = SumFunctionOnSet(open, LoanIds)
             /\ SumFunctionOnSet(open, LoanIds) \in Nat
<1> DEFINE totals == ledger.sources[s].totals
           loanOf == LoansOf(ledger, s)
           issued == [id \in LoanIds |-> loanOf[id].principal]
           repaid == [id \in LoanIds |-> loanOf[id].repaid]
           open == [id \in LoanIds |-> ledger.loans[<<s, id>>].outstanding]
<1>1. ledger \in Ledger /\ DebtsFit(ledger) /\ Mirrored(ledger, s)
  BY DEF IInv, LedgerFits
<1>2. /\ loanOf \in [LoanIds -> Loan]
      /\ \A id \in LoanIds : <<s, id>> \in Debts /\ loanOf[id] = ledger.loans[<<s, id>>]
  BY <1>1, LedgerFields, LoansOfType
<1>3. \A id \in LoanIds : loanOf[id] \in Loan /\ Balanced(loanOf[id])
  BY <1>1, <1>2 DEF DebtsFit
<1>4. totals.totalIssued = SumOf(issued) /\ totals.totalRepaid = SumOf(repaid)
  <2>1. totals.historyRoot \in History
    BY <1>1, StateFields
  <2>2. ViewOf(loanOf, totals) = SourceAfter(totals.historyRoot)
    BY <1>1 DEF Mirrored, MirrorFits
  <2> HIDE DEF totals, loanOf
  <2> QED BY <1>2, <2>1, <2>2, TotalsOfView
<1>5. ASSUME NEW id \in LoanIds
      PROVE  /\ repaid[id] \in Nat /\ open[id] \in Nat
             /\ issued[id] = repaid[id] + open[id]
  <2>1. /\ loanOf[id].repaid \in Nat /\ loanOf[id].outstanding \in Nat
        /\ loanOf[id].principal = loanOf[id].repaid + loanOf[id].outstanding
    BY <1>3, LoanAmounts DEF Balanced
  <2>2. open[id] = loanOf[id].outstanding
    BY <1>2
  <2> HIDE DEF loanOf, open
  <2> QED BY <2>1, <2>2
<1>6. SumOf(issued) = SumFunctionOnSet(issued, LoanIds)
      /\ SumOf(repaid) = SumFunctionOnSet(repaid, LoanIds)
  <2>1. DOMAIN issued = LoanIds /\ DOMAIN repaid = LoanIds
    OBVIOUS
  <2> HIDE DEF issued, repaid
  <2> QED BY <2>1, SumOfFunction DEF SumOf
<1> HIDE DEF issued, repaid, open, loanOf
<1>7. IsFiniteSet(LoanIds)
  BY SourceConstants
<1>8. SumFunctionOnSet(issued, LoanIds)
        = SumFunctionOnSet(repaid, LoanIds) + SumFunctionOnSet(open, LoanIds)
  BY <1>5, <1>7, SumAdds
<1>9. SumFunctionOnSet(repaid, LoanIds) \in Nat /\ SumFunctionOnSet(open, LoanIds) \in Nat
  BY <1>5, <1>7, SumNat
<1>10. totals.totalIssued - totals.totalRepaid = SumFunctionOnSet(open, LoanIds)
  BY <1>4, <1>6, <1>8, <1>9
<1> QED BY <1>9, <1>10 DEF open

(* Without aliases the total is the sum of all open balances. *)
LEMMA TotalWithoutAliases ==
  ASSUME IInv, \A d \in Debts : canonicalIds[d] = Unset
  PROVE  /\ ledger.totalDebt
              = SumFunctionOnSet([d \in Debts |-> ledger.loans[d].outstanding], Debts)
         /\ \A d \in Debts : ledger.loans[d].outstanding \in Nat
<1> DEFINE open == [d \in Debts |-> ledger.loans[d].outstanding]
           loanOf == ledger.loans
<1>1. ledger \in Ledger /\ DebtsFit(ledger)
  BY DEF IInv, LedgerFits
<1>2. \A d \in Debts : loanOf[d].outstanding \in Nat /\ open[d] = loanOf[d].outstanding
  BY <1>1, LedgerFields, LoanAmounts
<1>3. \A d \in Debts : CanonicalDebtId(d) = d
  BY DEF CanonicalDebtId
<1>4. Reported(loanOf) = Opened(loanOf) /\ Opened(loanOf) \in SUBSET Debts
  BY <1>3 DEF Reported, Opened
<1>5. \A c \in Opened(loanOf) : AliasesOf(loanOf, c) = {c}
  BY <1>3, <1>4 DEF AliasesOf
<1>6. \A d \in Debts \ Opened(loanOf) : open[d] = 0
  <2> TAKE d \in Debts \ Opened(loanOf)
  <2>1. PICK s \in Registered, id \in LoanIds : d = <<s, id>>
    BY DEF Debts
  <2>2. LoansOf(ledger, s)[id] = loanOf[d]
    BY <2>1 DEF LoansOf
  <2>3. /\ SourceTypeOK /\ ChainInv /\ s \in Sources
        /\ ledger.sources[s].totals.historyRoot \in History
        /\ MirrorFits(LoansOf(ledger, s), ledger.sources[s].totals, HistoryOf(s))
    BY <1>1, RegisteredSource, StateFields DEF IInv, TypeOK, LedgerFits, Mirrored
  <2>4. LoansOf(ledger, s)[id].sequence = 0 => LoansOf(ledger, s)[id] = NoLoan
    BY <2>3, MirrorTells
  <2>5. loanOf[d].sequence = 0
    BY DEF Opened
  <2> QED BY <1>2, <2>2, <2>4, <2>5 DEF NoLoan
<1> HIDE DEF open
<1>7. UniqueDebtOf(loanOf) = SumFunctionOnSet(open, Opened(loanOf))
  <2>1. \A c \in Reported(loanOf) :
          /\ \E d \in AliasesOf(loanOf, c) : loanOf[d].outstanding = open[c]
          /\ \A d \in AliasesOf(loanOf, c) : open[c] <= loanOf[d].outstanding
    BY <1>2, <1>4, <1>5
  <2> HIDE DEF loanOf
  <2> QED BY <1>2, <1>4, <2>1, UniqueDebtIs
<1>8. SumFunctionOnSet(open, Debts) = SumFunctionOnSet(open, Opened(loanOf))
  <2> HIDE DEF loanOf
  <2> QED BY <1>2, <1>4, <1>6, DebtsFinite, SumWithoutZeros
<1> QED BY <1>1, <1>2, <1>7, <1>8 DEF DebtsFit, open

(* Then the sources' debts, added up, are the ledger's total. *)
LEMMA SourcesAddUp ==
  ASSUME IInv, \A d \in Debts : canonicalIds[d] = Unset,
         NEW debt \in [Registered -> Int],
         \A s \in Registered : LET totals == ledger.sources[s].totals
                               IN  debt[s] = totals.totalIssued - totals.totalRepaid
  PROVE  FoldFunction(+, 0, debt) = ledger.totalDebt
<1> DEFINE open == [d \in Debts |-> ledger.loans[d].outstanding]
<1>1. ASSUME NEW s \in Registered
      PROVE  debt[s] = RowSum(open, s, LoanIds)
  <2>1. [id \in LoanIds |-> open[<<s, id>>]]
          = [id \in LoanIds |-> ledger.loans[<<s, id>>].outstanding]
    BY DEF Debts
  <2> HIDE DEF open
  <2> QED BY <2>1, SourceDebt DEF RowSum
<1>2. \A p \in Registered \X LoanIds : open[p] \in Nat
  BY TotalWithoutAliases DEF Debts
<1>3. ledger.totalDebt = SumFunctionOnSet(open, Registered \X LoanIds)
  BY TotalWithoutAliases DEF Debts
<1> HIDE DEF open
<1>4. IsFiniteSet(Registered) /\ IsFiniteSet(LoanIds)
  BY LedgerConstants, SourceConstants DEF ValidScope
<1>5. SumFunctionOnSet(open, Registered \X LoanIds) = SumFunctionOnSet(debt, Registered)
  BY <1>1, <1>2, <1>4, SumOfRows
<1>6. FoldFunction(+, 0, debt) = SumFunctionOnSet(debt, Registered)
  BY SumOfFunction
<1> QED BY <1>3, <1>5, <1>6

(* The epoch the page works out is the complete snapshot's own. *)
LEMMA TargetOfComplete ==
  ASSUME IInv, SnapshotComplete
  PROVE  TargetEpoch = snapshot.epoch
<1> DEFINE S == {1, snapshot.epoch}
                  \cup {ledger.sources[s].checkpointEpoch : s \in Registered}
<1>1. snapshot.epoch \in Nat /\ snapshot.epoch # 0
  BY DEF IInv, TypeOK, LedgerTypeOK, SnapshotComplete
<1>2. \A s \in Registered : ledger.sources[s].checkpointEpoch = snapshot.epoch
  BY DEF IInv, SnapshotInv, Covered
<1>3. S = {1, snapshot.epoch}
  BY <1>2
<1>4. /\ S \in SUBSET Int /\ snapshot.epoch \in S
      /\ \A x \in S : x <= snapshot.epoch
  BY <1>1, <1>3
<1>5. TargetEpoch = Max(S)
  BY DEF TargetEpoch
<1> HIDE DEF S
<1> QED BY <1>4, <1>5, MaxIs

(* Headroom and reason, worked out from the report. *)
LEMMA DecisionWorkedOut ==
  ASSUME IInv, creditLimit \in Nat, reservedCredit \in Nat, executedCredit \in Nat,
         NEW amount \in Uint
  PROVE  LET r == CollectAggregateStatus(amount)
         IN  r.decision.headroom = Available(r) /\ r.decision.reason = ReasonIn(r)
<1> DEFINE r == CollectAggregateStatus(amount)
           debt == ledger.totalDebt
<1>1. /\ creditLimit \in Nat /\ reservedCredit \in Nat /\ executedCredit \in Nat
      /\ debt \in Nat /\ amount \in Nat /\ now \in Nat /\ snapshot.validUntil \in Nat
  BY LedgerFields, Numbers DEF IInv, LedgerFits, TypeOK, LedgerTypeOK
<1>2. /\ r.decision = Decision(amount, Reading, now) /\ r.reading = Reading
      /\ r.limit = creditLimit /\ r.timestamp = now
  BY DEF CollectAggregateStatus
<1>3. /\ r.decision.amount = amount /\ r.decision.totalDebt = debt
      /\ r.decision.reservedCredit = reservedCredit
      /\ r.decision.executedCredit = executedCredit
      /\ r.decision.headroom = Headroom(Reading)
      /\ r.decision.reason = Reason(amount, Reading, now)
  <2>1. Reading.totalDebt = debt
    BY ReadingIs
  <2> HIDE DEF r, debt
  <2> QED BY <1>2, <2>1 DEF Decision
<1> HIDE DEF r
<1>4. Headroom(Reading) = Minus(Minus(Minus(creditLimit, debt), reservedCredit),
                                executedCredit)
  BY ReadingIs DEF Headroom
<1> HIDE DEF debt
<1>5. Available(r) = IF creditLimit > debt + reservedCredit + executedCredit
                     THEN creditLimit - (debt + reservedCredit + executedCredit) ELSE 0
  BY <1>2, <1>3 DEF Available
<1>6. Headroom(Reading) = Available(r)
  BY <1>1, <1>4, <1>5 DEF Minus
<1>7. /\ r.reading.snapshotComplete = SnapshotComplete
      /\ r.reading.validUntil = snapshot.validUntil
      /\ Reading.snapshotComplete = SnapshotComplete
      /\ Reading.validUntil = snapshot.validUntil
  BY <1>2, ReadingIs
<1>8. Fresh(Reading, now) <=> SnapshotComplete /\ ~(now > snapshot.validUntil)
  BY <1>1, <1>7 DEF Fresh
<1>9. ReasonIn(r) = Reason(amount, Reading, now)
  <2>1. CASE ~SnapshotComplete
    BY <1>7, <1>8, <2>1 DEF ReasonIn, Reason
  <2>2. CASE SnapshotComplete /\ now > snapshot.validUntil
    BY <1>2, <1>7, <1>8, <2>2 DEF ReasonIn, Reason
  <2>3. CASE SnapshotComplete /\ ~(now > snapshot.validUntil) /\ amount = 0
    BY <1>2, <1>3, <1>7, <1>8, <2>3 DEF ReasonIn, Reason
  <2>4. CASE /\ SnapshotComplete /\ ~(now > snapshot.validUntil) /\ amount # 0
             /\ amount > Available(r)
    BY <1>2, <1>3, <1>6, <1>7, <1>8, <2>4 DEF ReasonIn, Reason
  <2>5. CASE /\ SnapshotComplete /\ ~(now > snapshot.validUntil) /\ amount # 0
             /\ ~(amount > Available(r))
    BY <1>2, <1>3, <1>6, <1>7, <1>8, <2>5 DEF ReasonIn, Reason
  <2> QED BY <2>1, <2>2, <2>3, <2>4, <2>5
<1> QED BY <1>3, <1>6, <1>9 DEF r

LEMMA PageFits ==
  ASSUME IInv, creditLimit \in Nat, reservedCredit \in Nat, executedCredit \in Nat,
         \A d \in Debts : canonicalIds[d] = Unset, NEW amount \in Uint
  PROVE  PageShows(CollectAggregateStatus(amount))
<1> DEFINE r == CollectAggregateStatus(amount)
           debt == [s \in Registered |-> r.sources[s].debt]
<1>1. /\ r.sources = [s \in Registered |-> SourceReport(s)]
      /\ r.reading = Reading /\ r.targetEpoch = TargetEpoch
      /\ r.decision.totalDebt = ledger.totalDebt
  BY ReadingIs DEF CollectAggregateStatus, Decision
<1> HIDE DEF r
<1>2. ASSUME NEW s \in Registered
      PROVE  LET state == ledger.sources[s]
             IN  /\ r.sources[s].debt = state.totals.totalIssued - state.totals.totalRepaid
                 /\ r.sources[s].events = state.totals.eventCount
                 /\ r.sources[s].sealedSource = state.sealedSource
                 /\ r.sources[s].checkpointEpoch = state.checkpointEpoch
                 /\ r.sources[s].checkpointEvents = state.checkpointEventCount
  BY <1>1 DEF SourceReport
<1>3. ASSUME NEW s \in Registered
      PROVE  /\ r.sources[s].debt \in Nat
             /\ r.sources[s].checkpointEvents <= r.sources[s].events
  <2>1. ledger.sources[s].checkpointEventCount <= ledger.sources[s].totals.eventCount
    BY DEF IInv, LedgerFits, Checkpointed
  <2> QED BY <1>2, <2>1, SourceDebt
<1>4. FoldFunction(+, 0, debt) = r.decision.totalDebt
  <2>1. debt \in [Registered -> Int]
    BY <1>3
  <2>2. \A s \in Registered : LET totals == ledger.sources[s].totals
                              IN  debt[s] = totals.totalIssued - totals.totalRepaid
    BY <1>2
  <2> HIDE DEF debt
  <2> QED BY <1>1, <2>1, <2>2, SourcesAddUp
<1>5. ASSUME r.reading.snapshotComplete
      PROVE  r.reading.snapshotId = r.targetEpoch /\ \A s \in Registered : CoveredIn(r, s)
  <2>1. SnapshotComplete /\ r.reading.snapshotId = snapshot.epoch
    BY <1>1, <1>5, ReadingIs
  <2>2. r.targetEpoch = snapshot.epoch
    BY <1>1, <2>1, TargetOfComplete
  <2>3. \A s \in Registered : Covered(s, snapshot.epoch)
    BY <2>1 DEF IInv, SnapshotInv
  <2> QED BY <1>2, <2>1, <2>2, <2>3 DEF Covered, CoveredIn
<1>6. r.decision.headroom = Available(r) /\ r.decision.reason = ReasonIn(r)
  BY DecisionWorkedOut DEF r
<1>7. PageShows(r)
  <2>1. \A s \in Registered :
          r.sources[s].debt >= 0 /\ r.sources[s].checkpointEvents <= r.sources[s].events
    BY <1>3
  <2> QED BY <1>4, <1>5, <1>6, <2>1, Zenon DEF PageShows
<1> QED BY <1>7 DEF r

(* No report of the contracts' state is one the page refuses, as long as no *)
(* two sources report one debt: what the gate decided can be worked out     *)
(* from the sources alone.                                                  *)
THEOREM PageShowsReports == SystemSpec => []PageShowsEveryReport
<1>1. IInv /\ Gate!IInv => PageShowsEveryReport
  BY GateAmounts, PageFits DEF PageShowsEveryReport
<1> QED BY <1>1, SystemInvariant, GateOverLedger, PTL

-----------------------------------------------------------------------------
(* The scenario of a Phase 2 run (Phase2Scenario), over the same sources,   *)
(* ledger and gate: what its process writes and reads back, whatever the    *)
(* contracts answer it.                                                     *)
Sent(k) == manifest.steps[<<"submit", k>>]

(* The fields of the manifest, whatever they hold. *)
FieldsFit ==
  /\ manifest = [status |-> manifest.status, steps |-> manifest.steps,
                 deployments |-> manifest.deployments, proofs |-> manifest.proofs,
                 submissionProofs |-> manifest.submissionProofs,
                 observations |-> manifest.observations]
  /\ manifest.steps = [s \in Steps |-> manifest.steps[s]]
  /\ \A s \in Steps :
       manifest.steps[s] = [status |-> manifest.steps[s].status,
                            bundle |-> manifest.steps[s].bundle,
                            receipt |-> manifest.steps[s].receipt]
  /\ manifest.proofs = [k \in Proven |-> manifest.proofs[k]]
  /\ manifest.submissionProofs = [k \in Proven |-> manifest.submissionProofs[k]]
  /\ manifest.observations = [o \in Observed |-> manifest.observations[o]]
  /\ mined = [s \in Steps |-> mined[s]]

(* Proof files hold what was verified when they were written. *)
FilesFit ==
  /\ horizon \in Nat \ {0}
  /\ \A k \in Proven : \A p \in manifest.proofs[k] :
       p.bundle = p.verifiedAt /\ p.bundle \in 1..horizon

(* What each entry was not written without. *)
EntriesFit ==
  /\ \A s \in Steps : manifest.steps[s].status = "CONFIRMED" => mined[s] = "SUCCESS"
  /\ \A d \in manifest.deployments :
       <<"deploy", d>> \in Steps => manifest.steps[<<"deploy", d>>].status = "CONFIRMED"
  /\ \A k \in Proven : Sent(k).status # "NONE" =>
       /\ manifest.submissionProofs[k] \in manifest.proofs[k]
       /\ Sent(k).bundle = manifest.submissionProofs[k].bundle
  /\ \A o \in Observed :
       LET r == manifest.observations[o]
       IN r # NoReport => AsExpected(o, r.decision, r.reading.snapshotComplete)

(* What the process knows where it is: the proof in its hand is on disk. *)
ProcessFits ==
  /\ manifest.status \in {"INITIALIZED", "COMPLETE"}
  /\ manifest.status = "COMPLETE" => at = "off" /\ Left = {}
  /\ at = "acquired" =>
       /\ NeedsProof(Current)
       /\ hand \in manifest.proofs[ProofOf(Current)]
  /\ at = "ready" =>
       /\ Current[1] = "submit" /\ manifest.steps[Current].status = "NONE"
       /\ hand = manifest.submissionProofs[Current[2]]
       /\ hand \in manifest.proofs[Current[2]]

RunInv == FieldsFit /\ FilesFit /\ EntriesFit /\ ProcessFits

-----------------------------------------------------------------------------
(* The plan. *)
LEMMA PlanItems ==
  /\ DOMAIN Plan = 1..31
  /\ \A i \in 1..31 : /\ Plan[i] = <<Plan[i][1], Plan[i][2]>>
                      /\ Plan[i][1] \in {"deploy", "write", "submit", "observe"}
<1>1. DOMAIN Plan = 1..31
  BY DEF Plan
<1>2. \A i \in 1..31 : Plan[i] = <<Plan[i][1], Plan[i][2]>>
  BY DEF Plan
<1>3. \A i \in 1..31 : Plan[i][1] \in {"deploy", "write", "submit", "observe"}
  BY DEF Plan
<1> QED BY <1>1, <1>2, <1>3

LEMMA ItemsArePairs ==
  \A x \in Items :
    x = <<x[1], x[2]>> /\ x[1] \in {"deploy", "write", "submit", "observe"}
BY PlanItems DEF Items

LEMMA ProvenSteps ==
  /\ \A k \in Proven : <<"submit", k>> \in Steps
  /\ \A x \in Items : x[1] = "submit" => x[2] \in Proven
<1>1. \A x \in Items : x[1] = "submit" => x[2] \in Proven
  BY DEF Proven
<1>2. ASSUME NEW k \in Proven PROVE <<"submit", k>> \in Steps
  <2>1. PICK x \in Items : x[1] = "submit" /\ x[2] = k
    BY DEF Proven
  <2>2. x = <<"submit", k>>
    BY <2>1, ItemsArePairs
  <2> QED BY <2>1, <2>2 DEF Steps
<1> QED BY <1>1, <1>2

LEMMA ObservedItems ==
  /\ \A o \in Observed : <<"observe", o>> \in Items
  /\ \A x \in Items : x[1] = "observe" => x[2] \in Observed
<1>1. \A x \in Items : x[1] = "observe" => x[2] \in Observed
  BY DEF Observed, Steps
<1>2. ASSUME NEW o \in Observed PROVE <<"observe", o>> \in Items
  <2>1. PICK x \in Items : x[1] = "observe" /\ x[2] = o
    BY DEF Observed, Steps
  <2>2. x = <<"observe", o>>
    BY <2>1, ItemsArePairs
  <2> QED BY <2>1, <2>2
<1> QED BY <1>1, <1>2

(* What the plan names. *)
LEMMA PlanNames ==
  /\ "B-repay" \in Proven
  /\ \A d \in {"A", "B", "registry", "decoder", "ledger", "gate"} : <<"deploy", d>> \in Items
<1>1. /\ Plan[21] = <<"submit", "B-repay">>
      /\ Plan[1] = <<"deploy", "A">> /\ Plan[2] = <<"deploy", "B">>
      /\ Plan[3] = <<"deploy", "registry">> /\ Plan[4] = <<"deploy", "decoder">>
      /\ Plan[5] = <<"deploy", "ledger">> /\ Plan[6] = <<"deploy", "gate">>
  BY DEF Plan
<1>2. \A i \in 1..31 : Plan[i] \in Items
  BY PlanItems DEF Items
<1>3. <<"submit", "B-repay">> \in Items
  BY <1>1, <1>2
<1>4. "B-repay" \in Proven
  BY <1>3, ProvenSteps
<1> QED BY <1>1, <1>2, <1>4

(* The step the process is at is one of the plan, and not done. *)
LEMMA CurrentItem ==
  \/ Left = {} /\ Current = <<"complete", "">>
  \/ Current \in Items /\ ~Done(Current)
<1>1. CASE Left = {}
  BY <1>1 DEF Current
<1>2. CASE Left # {}
  <2>1. Left \in SUBSET Nat
    BY PlanItems DEF Left
  <2>2. \E n \in Left : \A i \in Left : n =< i
    BY <1>2, <2>1, LeastNatural
  <2>3. Current = Plan[Min(Left)]
    BY <1>2 DEF Current
  <2>4. Min(Left) \in Left
    BY <2>2 DEF Min
  <2> QED BY <2>3, <2>4 DEF Left, Items
<1> QED BY <1>1, <1>2

(* It is the same as long as steps, deployments and observations are. *)
LEMMA SameCurrent ==
  ASSUME manifest'.steps = manifest.steps, manifest'.deployments = manifest.deployments,
         manifest'.observations = manifest.observations
  PROVE  Current' = Current /\ Left' = Left
<1>1. \A x : Done(x)' = Done(x)
  BY DEF Done
<1>2. Left' = Left
  BY <1>1 DEF Left
<1> QED BY <1>2 DEF Current

-----------------------------------------------------------------------------
LEMMA InitRun == Init => RunInv
<1> SUFFICES ASSUME Init PROVE RunInv
  OBVIOUS
<1>1. /\ manifest.status = "INITIALIZED" /\ manifest.deployments = {}
      /\ manifest.steps = [s \in Steps |-> NoStep]
      /\ manifest.proofs = [k \in Proven |-> {}]
      /\ manifest.submissionProofs = [k \in Proven |-> NoProof]
      /\ manifest.observations = [o \in Observed |-> NoReport]
      /\ mined = [s \in Steps |-> "NONE"] /\ at = "off" /\ horizon = 1
  BY DEF Init
<1>2. manifest = [status |-> manifest.status, steps |-> manifest.steps,
                  deployments |-> manifest.deployments, proofs |-> manifest.proofs,
                  submissionProofs |-> manifest.submissionProofs,
                  observations |-> manifest.observations]
  BY DEF Init
<1>3. FieldsFit
  BY <1>1, <1>2 DEF FieldsFit, NoStep
<1>4. FilesFit
  BY <1>1 DEF FilesFit
<1>5. EntriesFit
  BY <1>1, ProvenSteps DEF EntriesFit, Sent, NoStep
<1>6. ProcessFits
  BY <1>1 DEF ProcessFits
<1> QED BY <1>3, <1>4, <1>5, <1>6 DEF RunInv

(* A step that leaves the manifest and what was mined alone. *)
LEMMA RunStutter ==
  ASSUME RunInv, UNCHANGED <<manifest, mined>>, horizon' \in Nat, horizon' >= horizon,
         at' = "off" \/ UNCHANGED <<at, hand>>
  PROVE  RunInv'
<1>1. Current' = Current /\ Left' = Left
  BY SameCurrent
<1>2. NeedsProof(Current)' = NeedsProof(Current)
  BY <1>1 DEF NeedsProof
<1>3. FieldsFit' /\ EntriesFit'
  BY DEF RunInv, FieldsFit, EntriesFit, Sent
<1>4. FilesFit'
  BY DEF RunInv, FilesFit
<1>5. ProcessFits'
  BY <1>1, <1>2 DEF RunInv, ProcessFits, ProofOf
<1> QED BY <1>3, <1>4, <1>5 DEF RunInv

LEMMA StartInv ==
  ASSUME RunInv, Start
  PROVE  RunInv'
<1>1. /\ at' = "on" /\ manifest.status # "COMPLETE" /\ UNCHANGED <<manifest, mined, horizon>>
  BY DEF Start, Saves, Goes
<1>2. FieldsFit' /\ EntriesFit' /\ FilesFit'
  BY <1>1 DEF RunInv, FieldsFit, EntriesFit, Sent, FilesFit
<1>3. ProcessFits'
  BY <1>1 DEF RunInv, ProcessFits
<1> QED BY <1>2, <1>3 DEF RunInv

(* The bundle acquired is one the verifier accepts now. *)
LEMMA BundleIsFresh ==
  ASSUME NEW saved, horizon \in Nat, \A p \in saved : p.bundle \in 1..horizon
  PROVE  AcquireBundle(saved) = horizon
<1>1. ASSUME NEW q \in saved, q.bundle = horizon
      PROVE  Max({p.bundle : p \in saved}) = horizon
  <2> DEFINE B == {p.bundle : p \in saved}
  <2>1. horizon \in B /\ \A b \in B : b \in Int /\ b <= horizon
    BY <1>1
  <2> HIDE DEF B
  <2>2. \E x \in B : \A y \in B : x >= y
    BY <2>1
  <2>3. Max(B) \in B /\ \A y \in B : Max(B) >= y
    BY <2>2 DEF Max
  <2>4. ASSUME NEW m \in B, \A y \in B : m >= y PROVE m = horizon
    <3>1. m \in Int /\ m <= horizon /\ m >= horizon
      BY <2>1, <2>4
    <3> QED BY <3>1
  <2>5. Max(B) = horizon
    BY <2>3, <2>4
  <2> QED BY <2>5 DEF B
<1> QED BY <1>1 DEF AcquireBundle

(* Where the process needs a proof it is one of the plan's. *)
LEMMA ProofOfPlan ==
  ASSUME NeedsProof(Current)
  PROVE  /\ ProofOf(Current) \in Proven
         /\ Current[1] = "submit" =>
              /\ Current \in Items
              /\ Current = <<"submit", Current[2]>>
              /\ Current[2] \in Proven /\ Current \in Steps
              /\ manifest.steps[Current].status = "NONE"
<1>1. CASE Current[1] = "submit"
  <2>1. Current # <<"complete", "">>
    <3> DEFINE done == <<"complete", "">>
    <3>1. done[1] = "complete"
      OBVIOUS
    <3> QED BY <1>1, <3>1
  <2>2. Current \in Items
    BY <2>1, CurrentItem
  <2>3. Current = <<"submit", Current[2]>> /\ Current[2] \in Proven
    BY <1>1, <2>2, ItemsArePairs, ProvenSteps
  <2>4. Current \in Steps
    BY <2>3, ProvenSteps
  <2>5. manifest.steps[Current].status = "NONE"
    BY <1>1 DEF NeedsProof
  <2> QED BY <1>1, <2>2, <2>3, <2>4, <2>5 DEF ProofOf
<1>2. CASE Current[1] # "submit"
  BY <1>2, PlanNames DEF ProofOf
<1> QED BY <1>1, <1>2

LEMMA AcquireInv ==
  ASSUME RunInv, AcquireProof
  PROVE  RunInv'
<1> DEFINE key == ProofOf(Current)
           proof == [bundle |-> AcquireBundle(manifest.proofs[key]), verifiedAt |-> horizon]
<1>1. /\ at = "on" /\ NeedsProof(Current) /\ at' = "acquired" /\ hand' = proof
      /\ manifest' = [manifest EXCEPT !.proofs[key] = @ \cup {proof}]
      /\ UNCHANGED <<mined, horizon>>
  BY DEF AcquireProof, Saves
<1>2. key \in Proven
  BY <1>1, ProofOfPlan
<1>3. proof.bundle = proof.verifiedAt /\ proof.bundle = horizon
  BY <1>2, BundleIsFresh DEF RunInv, FilesFit
<1> HIDE DEF key, proof
<1>4. /\ manifest'.status = manifest.status /\ manifest'.steps = manifest.steps
      /\ manifest'.deployments = manifest.deployments
      /\ manifest'.submissionProofs = manifest.submissionProofs
      /\ manifest'.observations = manifest.observations
      /\ manifest'.proofs = [manifest.proofs EXCEPT ![key] = @ \cup {proof}]
      /\ manifest' = [status |-> manifest'.status, steps |-> manifest'.steps,
                      deployments |-> manifest'.deployments, proofs |-> manifest'.proofs,
                      submissionProofs |-> manifest'.submissionProofs,
                      observations |-> manifest'.observations]
  BY <1>1 DEF RunInv, FieldsFit
<1>5. /\ manifest'.proofs = [k \in Proven |-> manifest'.proofs[k]]
      /\ \A k \in Proven : manifest'.proofs[k] =
           IF k = key THEN manifest.proofs[k] \cup {proof} ELSE manifest.proofs[k]
  BY <1>4 DEF RunInv, FieldsFit
<1>6. Current' = Current /\ Left' = Left
  BY <1>4, SameCurrent
<1>7. FieldsFit'
  BY <1>1, <1>4, <1>5 DEF RunInv, FieldsFit
<1>8. FilesFit'
  <2>1. horizon \in Nat \ {0} /\ horizon' = horizon
    BY <1>1 DEF RunInv, FilesFit
  <2>2. ASSUME NEW k \in Proven, NEW p \in manifest'.proofs[k]
        PROVE  p.bundle = p.verifiedAt /\ p.bundle \in 1..horizon
    <3>1. CASE p \in manifest.proofs[k]
      BY <3>1 DEF RunInv, FilesFit
    <3>2. CASE p = proof
      <4>1. p.bundle = p.verifiedAt /\ p.bundle = horizon
        BY <1>3, <3>2, Zenon
      <4>2. horizon \in 1..horizon
        BY <2>1
      <4> QED BY <4>1, <4>2, Zenon
    <3> QED BY <1>5, <3>1, <3>2
  <2> QED BY <2>1, <2>2 DEF FilesFit
<1>9. EntriesFit'
  BY <1>1, <1>4, <1>5 DEF RunInv, EntriesFit, Sent
<1>10. hand' \in manifest'.proofs[key]
  BY <1>1, <1>2, <1>5
<1>11. NeedsProof(Current)'
  BY <1>1, <1>4, <1>6 DEF NeedsProof
<1>12. ProofOf(Current)' = key
  BY <1>6 DEF key, ProofOf
<1>13. ProcessFits'
  BY <1>1, <1>4, <1>6, <1>10, <1>11, <1>12 DEF RunInv, ProcessFits
<1> QED BY <1>7, <1>8, <1>9, <1>13 DEF RunInv

LEMMA BindInv ==
  ASSUME RunInv, BindProof
  PROVE  RunInv'
<1> DEFINE key == Current[2]
<1>1. /\ at = "acquired" /\ Current[1] = "submit" /\ at' = "ready" /\ hand' = hand
      /\ manifest' = [manifest EXCEPT !.submissionProofs[key] = hand]
      /\ UNCHANGED <<mined, horizon>>
  BY DEF BindProof, Saves, Goes
<1>2. /\ NeedsProof(Current) /\ hand \in manifest.proofs[ProofOf(Current)]
  BY <1>1 DEF RunInv, ProcessFits
<1>3. /\ key \in Proven /\ Current = <<"submit", key>>
      /\ manifest.steps[Current].status = "NONE"
  BY <1>1, <1>2, ProofOfPlan
<1>4. hand \in manifest.proofs[key]
  BY <1>1, <1>2 DEF ProofOf
<1> HIDE DEF key
<1>5. /\ manifest'.status = manifest.status /\ manifest'.steps = manifest.steps
      /\ manifest'.deployments = manifest.deployments
      /\ manifest'.submissionProofs = [manifest.submissionProofs EXCEPT ![key] = hand]
      /\ manifest'.observations = manifest.observations
      /\ manifest'.proofs = manifest.proofs
      /\ manifest' = [status |-> manifest'.status, steps |-> manifest'.steps,
                      deployments |-> manifest'.deployments, proofs |-> manifest'.proofs,
                      submissionProofs |-> manifest'.submissionProofs,
                      observations |-> manifest'.observations]
  BY <1>1 DEF RunInv, FieldsFit
<1>6. /\ manifest'.submissionProofs = [k \in Proven |-> manifest'.submissionProofs[k]]
      /\ \A k \in Proven : manifest'.submissionProofs[k] =
           IF k = key THEN hand ELSE manifest.submissionProofs[k]
  BY <1>5 DEF RunInv, FieldsFit
<1>7. Current' = Current /\ Left' = Left
  BY <1>5, SameCurrent
<1>8. FieldsFit'
  BY <1>1, <1>5, <1>6 DEF RunInv, FieldsFit
<1>9. FilesFit'
  BY <1>1, <1>5 DEF RunInv, FilesFit
<1>10. EntriesFit'
  BY <1>1, <1>3, <1>5, <1>6 DEF RunInv, EntriesFit, Sent
<1>11. Current'[2] = key
  BY <1>7 DEF key
<1>12. ProcessFits'
  BY <1>1, <1>3, <1>4, <1>5, <1>6, <1>7, <1>11 DEF RunInv, ProcessFits
<1> QED BY <1>8, <1>9, <1>10, <1>12 DEF RunInv

(* At what is not the completion the process is at an item of the plan. *)
LEMMA AtAnItem ==
  ASSUME Current[1] # "complete"
  PROVE  /\ Current \in Items /\ Current = <<Current[1], Current[2]>>
         /\ ~Done(Current)
<1>1. Current # <<"complete", "">>
  <2> DEFINE done == <<"complete", "">>
  <2>1. done[1] = "complete"
    OBVIOUS
  <2> QED BY <2>1
<1>2. Current \in Items /\ ~Done(Current)
  BY <1>1, CurrentItem
<1> QED BY <1>2, ItemsArePairs

(* A write to the entry of the step the process is at. *)
LEMMA StepWritten ==
  ASSUME RunInv, at # "off", at' \in {"off", "on"}, UNCHANGED <<mined, horizon>>,
         Current \in Steps, NEW rec,
         rec = [status |-> rec.status, bundle |-> rec.bundle, receipt |-> rec.receipt],
         manifest' = [manifest EXCEPT !.steps = [@ EXCEPT ![Current] = rec]],
         rec.status = "CONFIRMED" => mined[Current] = "SUCCESS",
         manifest.steps[Current].status = "CONFIRMED" => rec.status = "CONFIRMED",
         \A k \in Proven : Current = <<"submit", k>> =>
           /\ manifest.submissionProofs[k] \in manifest.proofs[k]
           /\ rec.bundle = manifest.submissionProofs[k].bundle
  PROVE  RunInv'
<1> DEFINE step == Current
<1> HIDE DEF step
<1>1. step \in Steps
  BY DEF step
<1>2. /\ manifest'.status = manifest.status /\ manifest'.proofs = manifest.proofs
      /\ manifest'.deployments = manifest.deployments
      /\ manifest'.submissionProofs = manifest.submissionProofs
      /\ manifest'.observations = manifest.observations
      /\ manifest'.steps = [manifest.steps EXCEPT ![step] = rec]
      /\ manifest' = [status |-> manifest'.status, steps |-> manifest'.steps,
                      deployments |-> manifest'.deployments, proofs |-> manifest'.proofs,
                      submissionProofs |-> manifest'.submissionProofs,
                      observations |-> manifest'.observations]
  BY DEF RunInv, FieldsFit, step
<1>3. /\ manifest'.steps = [s \in Steps |-> manifest'.steps[s]]
      /\ \A s \in Steps : manifest'.steps[s] = IF s = step THEN rec ELSE manifest.steps[s]
  BY <1>1, <1>2 DEF RunInv, FieldsFit
<1>4. FieldsFit'
  BY <1>2, <1>3 DEF RunInv, FieldsFit
<1>5. FilesFit'
  BY <1>2 DEF RunInv, FilesFit
<1>6. EntriesFit'
  <2>1. \A s \in Steps : manifest'.steps[s].status = "CONFIRMED" => mined'[s] = "SUCCESS"
    BY <1>3 DEF RunInv, EntriesFit, step
  <2>2. \A d \in manifest'.deployments :
          <<"deploy", d>> \in Steps => manifest'.steps[<<"deploy", d>>].status = "CONFIRMED"
    BY <1>2, <1>3 DEF RunInv, EntriesFit, step
  <2>3. ASSUME NEW k \in Proven, manifest'.steps[<<"submit", k>>].status # "NONE"
        PROVE  /\ manifest'.submissionProofs[k] \in manifest'.proofs[k]
               /\ manifest'.steps[<<"submit", k>>].bundle = manifest'.submissionProofs[k].bundle
    <3>1. <<"submit", k>> \in Steps
      BY ProvenSteps
    <3>2. CASE <<"submit", k>> = step
      BY <1>2, <1>3, <3>1, <3>2 DEF step
    <3>3. CASE <<"submit", k>> # step
      BY <1>2, <1>3, <2>3, <3>1, <3>3 DEF RunInv, EntriesFit, Sent
    <3> QED BY <3>2, <3>3
  <2>4. \A o \in Observed :
          LET r == manifest'.observations[o]
          IN r # NoReport => AsExpected(o, r.decision, r.reading.snapshotComplete)
    BY <1>2 DEF RunInv, EntriesFit
  <2> QED BY <2>1, <2>2, <2>3, <2>4 DEF EntriesFit, Sent
<1>7. ProcessFits'
  BY <1>2 DEF RunInv, ProcessFits
<1> QED BY <1>4, <1>5, <1>6, <1>7 DEF RunInv

LEMMA PrepareInv ==
  ASSUME RunInv, Prepare
  PROVE  RunInv'
<1> DEFINE rec == [status |-> "PREPARED", bundle |-> hand.bundle, receipt |-> 0]
<1>1. /\ at = (IF Current[1] = "submit" THEN "ready" ELSE "on")
      /\ Current \in Steps /\ manifest.steps[Current].status = "NONE"
      /\ UNCHANGED <<mined, horizon>>
      /\ \/ at' = "on" /\ manifest' = [manifest EXCEPT !.steps[Current] = rec]
         \/ at' = "off" /\ manifest' = manifest
  BY DEF Prepare, Saves, Stops
<1>2. at # "off"
  BY <1>1
<1>3. CASE manifest' = manifest /\ at' = "off"
  BY <1>1, <1>3, RunStutter DEF RunInv, FilesFit
<1>4. CASE manifest' = [manifest EXCEPT !.steps[Current] = rec] /\ at' = "on"
  <2>1. \A k \in Proven : Current = <<"submit", k>> =>
          /\ manifest.submissionProofs[k] \in manifest.proofs[k]
          /\ rec.bundle = manifest.submissionProofs[k].bundle
    <3> SUFFICES ASSUME NEW k \in Proven, Current = <<"submit", k>>
                 PROVE  /\ manifest.submissionProofs[k] \in manifest.proofs[k]
                        /\ rec.bundle = manifest.submissionProofs[k].bundle
      OBVIOUS
    <3>1. Current[1] = "submit" /\ Current[2] = k
      OBVIOUS
    <3>2. at = "ready"
      BY <1>1, <3>1
    <3>3. hand = manifest.submissionProofs[k] /\ hand \in manifest.proofs[k]
      BY <3>1, <3>2 DEF RunInv, ProcessFits
    <3> QED BY <3>3
  <2>2. rec = [status |-> rec.status, bundle |-> rec.bundle, receipt |-> rec.receipt]
        /\ rec.status = "PREPARED"
    OBVIOUS
  <2> HIDE DEF rec
  <2>3. manifest' = [manifest EXCEPT !.steps = [@ EXCEPT ![Current] = rec]]
    BY <1>4
  <2> QED BY <1>1, <1>2, <1>4, <2>1, <2>2, <2>3, StepWritten
<1> QED BY <1>1, <1>3, <1>4

(* An entry confirmed: its status and its receipt. *)
LEMMA ConfirmWrites ==
  ASSUME RunInv, NEW c \in Steps, NEW len
  PROVE  [manifest EXCEPT !.steps[c].status = "CONFIRMED", !.steps[c].receipt = len]
           = [manifest EXCEPT !.steps = [@ EXCEPT ![c] =
               [status |-> "CONFIRMED", bundle |-> manifest.steps[c].bundle,
                receipt |-> len]]]
<1> DEFINE f == manifest.steps
           rec == [status |-> "CONFIRMED", bundle |-> f[c].bundle, receipt |-> len]
           g == [f EXCEPT ![c].status = "CONFIRMED"]
           written == [manifest EXCEPT !.steps[c].status = "CONFIRMED",
                                       !.steps[c].receipt = len]
           m == [manifest EXCEPT !.steps[c].status = "CONFIRMED"]
<1>1. f = [s \in Steps |-> f[s]]
  BY DEF RunInv, FieldsFit
<1>2. PICK status, bundle, receipt :
        f[c] = [status |-> status, bundle |-> bundle, receipt |-> receipt]
  <2>1. f[c] = [status |-> f[c].status, bundle |-> f[c].bundle, receipt |-> f[c].receipt]
    BY DEF RunInv, FieldsFit
  <2> HIDE DEF f
  <2> QED BY <2>1
<1>3. PICK st, d, p, q, o :
        manifest = [status |-> st, steps |-> f, deployments |-> d, proofs |-> p,
                    submissionProofs |-> q, observations |-> o]
  BY DEF RunInv, FieldsFit
<1>4. rec = [status |-> "CONFIRMED", bundle |-> bundle, receipt |-> len]
  BY <1>2
<1>5. written = [m EXCEPT !.steps[c].receipt = len]
  OBVIOUS
<1> HIDE DEF f, rec
<1>6. /\ g[c] = [status |-> "CONFIRMED", bundle |-> bundle, receipt |-> receipt]
      /\ g = [s \in Steps |-> g[s]] /\ \A s \in Steps : s # c => g[s] = f[s]
  BY <1>1, <1>2
<1>7. m = [status |-> st, steps |-> g, deployments |-> d, proofs |-> p,
           submissionProofs |-> q, observations |-> o]
  BY <1>3
<1> HIDE DEF g, m, written
<1>8. written = [status |-> st, steps |-> [g EXCEPT ![c].receipt = len],
                   deployments |-> d, proofs |-> p, submissionProofs |-> q,
                   observations |-> o]
  BY <1>5, <1>7
<1>9. [g EXCEPT ![c].receipt = len] = [f EXCEPT ![c] = rec]
  <2>1. [g EXCEPT ![c].receipt = len]
          = [s \in Steps |-> IF s = c THEN [g[c] EXCEPT !.receipt = len] ELSE g[s]]
    BY <1>6
  <2>2. [g[c] EXCEPT !.receipt = len] = rec
    BY <1>4, <1>6
  <2>3. [f EXCEPT ![c] = rec] = [s \in Steps |-> IF s = c THEN rec ELSE f[s]]
    BY <1>1
  <2> QED BY <1>1, <1>6, <2>1, <2>2, <2>3
<1>10. written = [manifest EXCEPT !.steps = [f EXCEPT ![c] = rec]]
  <2> DEFINE h == [f EXCEPT ![c] = rec]
  <2>1. written = [status |-> st, steps |-> h, deployments |-> d, proofs |-> p,
                     submissionProofs |-> q, observations |-> o]
    BY <1>8, <1>9
  <2> HIDE DEF h
  <2>2. written = [manifest EXCEPT !.steps = h]
    BY <1>3, <2>1
  <2> QED BY <2>2 DEF h
<1>11. /\ f = manifest.steps
       /\ rec = [status |-> "CONFIRMED", bundle |-> manifest.steps[c].bundle, receipt |-> len]
  BY DEF f, rec
<1> QED BY <1>10, <1>11 DEF written

LEMMA ConfirmInv ==
  ASSUME RunInv, Confirm
  PROVE  RunInv'
<1> DEFINE old == manifest.steps[Current]
           rec == [status |-> "CONFIRMED", bundle |-> old.bundle, receipt |-> Len(receipts)]
<1>1. /\ at = "on" /\ Current \in Steps /\ old.status = "PREPARED"
      /\ UNCHANGED <<mined, horizon>>
      /\ \/ /\ mined[Current] = "SUCCESS" /\ at' = "on"
            /\ manifest' = [manifest EXCEPT !.steps[Current].status = "CONFIRMED",
                                            !.steps[Current].receipt = Len(receipts)]
         \/ at' = "off" /\ manifest' = manifest
  BY DEF Confirm, Saves, Stops, Goes
<1>2. CASE manifest' = manifest /\ at' = "off"
  BY <1>1, <1>2, RunStutter DEF RunInv, FilesFit
<1>3. CASE /\ mined[Current] = "SUCCESS" /\ at' = "on"
           /\ manifest' = [manifest EXCEPT !.steps[Current].status = "CONFIRMED",
                                           !.steps[Current].receipt = Len(receipts)]
  <2>1. manifest' = [manifest EXCEPT !.steps = [@ EXCEPT ![Current] = rec]]
    BY <1>1, <1>3, ConfirmWrites
  <2>2. \A k \in Proven : Current = <<"submit", k>> =>
          /\ manifest.submissionProofs[k] \in manifest.proofs[k]
          /\ rec.bundle = manifest.submissionProofs[k].bundle
    BY <1>1 DEF RunInv, EntriesFit, Sent
  <2>3. rec = [status |-> rec.status, bundle |-> rec.bundle, receipt |-> rec.receipt]
        /\ rec.status = "CONFIRMED"
    OBVIOUS
  <2> HIDE DEF rec
  <2> QED BY <1>1, <1>3, <2>1, <2>2, <2>3, StepWritten
<1> QED BY <1>1, <1>2, <1>3

LEMMA DeployedInv ==
  ASSUME RunInv, Deployed
  PROVE  RunInv'
<1> DEFINE name == Current[2]
<1>1. /\ at = "on" /\ Current[1] = "deploy" /\ at' = "on"
      /\ manifest.steps[Current].status = "CONFIRMED"
      /\ manifest' = [manifest EXCEPT !.deployments = @ \cup {name}]
      /\ UNCHANGED <<mined, horizon>>
  BY DEF Deployed, Saves, Goes
<1>2. Current = <<"deploy", name>>
  BY <1>1, AtAnItem
<1>3. manifest.steps[<<"deploy", name>>].status = "CONFIRMED"
  BY <1>1, <1>2
<1> HIDE DEF name
<1>4. /\ manifest'.status = manifest.status /\ manifest'.steps = manifest.steps
      /\ manifest'.deployments = manifest.deployments \cup {name}
      /\ manifest'.submissionProofs = manifest.submissionProofs
      /\ manifest'.observations = manifest.observations
      /\ manifest'.proofs = manifest.proofs
      /\ manifest' = [status |-> manifest'.status, steps |-> manifest'.steps,
                      deployments |-> manifest'.deployments, proofs |-> manifest'.proofs,
                      submissionProofs |-> manifest'.submissionProofs,
                      observations |-> manifest'.observations]
  BY <1>1 DEF RunInv, FieldsFit
<1>5. FieldsFit'
  BY <1>1, <1>4 DEF RunInv, FieldsFit
<1>6. FilesFit'
  BY <1>1, <1>4 DEF RunInv, FilesFit
<1>7. EntriesFit'
  BY <1>1, <1>3, <1>4 DEF RunInv, EntriesFit, Sent
<1>8. ProcessFits'
  BY <1>1, <1>4 DEF RunInv, ProcessFits
<1> QED BY <1>5, <1>6, <1>7, <1>8 DEF RunInv

LEMMA ObserveInv ==
  ASSUME RunInv, Observe
  PROVE  RunInv'
<1> DEFINE key == Current[2]
           report == CollectAggregateStatus(AmountOf(key))
<1>1. /\ at = (IF NeedsProof(Current) THEN "acquired" ELSE "on")
      /\ Current[1] = "observe" /\ UNCHANGED <<mined, horizon>>
      /\ \/ /\ AsExpected(key, report.decision, report.reading.snapshotComplete)
            /\ at' = "on" /\ manifest' = [manifest EXCEPT !.observations[key] = report]
         \/ at' = "off" /\ manifest' = manifest
  BY DEF Observe, Saves, Stops
<1>2. at # "off"
  BY <1>1
<1>3. CASE at' = "off" /\ manifest' = manifest
  BY <1>1, <1>3, RunStutter DEF RunInv, FilesFit
<1>4. CASE /\ AsExpected(key, report.decision, report.reading.snapshotComplete)
           /\ at' = "on" /\ manifest' = [manifest EXCEPT !.observations[key] = report]
  <2>1. key \in Observed
    BY <1>1, AtAnItem, ObservedItems
  <2> HIDE DEF key, report
  <2>2. /\ manifest'.status = manifest.status /\ manifest'.steps = manifest.steps
        /\ manifest'.deployments = manifest.deployments
        /\ manifest'.submissionProofs = manifest.submissionProofs
        /\ manifest'.observations = [manifest.observations EXCEPT ![key] = report]
        /\ manifest'.proofs = manifest.proofs
        /\ manifest' = [status |-> manifest'.status, steps |-> manifest'.steps,
                        deployments |-> manifest'.deployments, proofs |-> manifest'.proofs,
                        submissionProofs |-> manifest'.submissionProofs,
                        observations |-> manifest'.observations]
    BY <1>4 DEF RunInv, FieldsFit
  <2>3. /\ manifest'.observations = [o \in Observed |-> manifest'.observations[o]]
        /\ \A o \in Observed : manifest'.observations[o] =
             IF o = key THEN report ELSE manifest.observations[o]
    BY <2>1, <2>2 DEF RunInv, FieldsFit
  <2>4. FieldsFit'
    BY <1>1, <2>2, <2>3 DEF RunInv, FieldsFit
  <2>5. FilesFit'
    BY <1>1, <2>2 DEF RunInv, FilesFit
  <2>6. ASSUME NEW o \in Observed, manifest'.observations[o] # NoReport
        PROVE  AsExpected(o, manifest'.observations[o].decision,
                              manifest'.observations[o].reading.snapshotComplete)
    <3>1. CASE o = key
      BY <1>4, <2>3, <3>1
    <3>2. CASE o # key
      BY <2>3, <2>6, <3>2 DEF RunInv, EntriesFit
    <3> QED BY <3>1, <3>2
  <2>7. EntriesFit'
    BY <1>1, <2>2, <2>6 DEF RunInv, EntriesFit, Sent
  <2>8. ProcessFits'
    BY <1>2, <1>4, <2>2 DEF RunInv, ProcessFits
  <2> QED BY <2>4, <2>5, <2>7, <2>8 DEF RunInv
<1> QED BY <1>1, <1>3, <1>4

LEMMA CompleteInv ==
  ASSUME RunInv, Complete
  PROVE  RunInv'
<1>1. /\ Current[1] = "complete" /\ at' = "off"
      /\ manifest' = [manifest EXCEPT !.status = "COMPLETE"] /\ UNCHANGED <<mined, horizon>>
  BY DEF Complete, Saves, Stops
<1>2. Left = {}
  BY <1>1, CurrentItem, ItemsArePairs
<1>3. /\ manifest'.status = "COMPLETE" /\ manifest'.steps = manifest.steps
      /\ manifest'.deployments = manifest.deployments
      /\ manifest'.submissionProofs = manifest.submissionProofs
      /\ manifest'.observations = manifest.observations
      /\ manifest'.proofs = manifest.proofs
      /\ manifest' = [status |-> manifest'.status, steps |-> manifest'.steps,
                      deployments |-> manifest'.deployments, proofs |-> manifest'.proofs,
                      submissionProofs |-> manifest'.submissionProofs,
                      observations |-> manifest'.observations]
  BY <1>1 DEF RunInv, FieldsFit
<1>4. Left' = {}
  BY <1>2, <1>3, SameCurrent
<1>5. FieldsFit'
  BY <1>1, <1>3 DEF RunInv, FieldsFit
<1>6. FilesFit'
  BY <1>1, <1>3 DEF RunInv, FilesFit
<1>7. EntriesFit'
  BY <1>1, <1>3 DEF RunInv, EntriesFit, Sent
<1>8. ProcessFits'
  BY <1>1, <1>3, <1>4 DEF RunInv, ProcessFits
<1> QED BY <1>5, <1>6, <1>7, <1>8 DEF RunInv

LEMMA MineInv ==
  ASSUME RunInv, NEW step \in Steps, Mine(step)
  PROVE  RunInv'
<1>1. /\ mined[step] = "NONE" /\ UNCHANGED <<manifest, at, hand, horizon>>
      /\ \E fate : mined' = [mined EXCEPT ![step] = fate]
  BY DEF Mine
<1>2. PICK fate : mined' = [mined EXCEPT ![step] = fate]
  BY <1>1
<1>3. /\ mined' = [s \in Steps |-> mined'[s]]
      /\ \A s \in Steps : mined[s] = "SUCCESS" => mined'[s] = "SUCCESS"
  BY <1>1, <1>2 DEF RunInv, FieldsFit
<1>4. Current' = Current /\ Left' = Left
  BY <1>1, SameCurrent
<1>5. NeedsProof(Current)' = NeedsProof(Current)
  BY <1>1, <1>4 DEF NeedsProof
<1>6. FieldsFit'
  BY <1>1, <1>3 DEF RunInv, FieldsFit
<1>7. FilesFit'
  BY <1>1 DEF RunInv, FilesFit
<1>8. EntriesFit'
  BY <1>1, <1>3 DEF RunInv, EntriesFit, Sent
<1>9. ProcessFits'
  BY <1>1, <1>4, <1>5 DEF RunInv, ProcessFits, ProofOf
<1> QED BY <1>6, <1>7, <1>8, <1>9 DEF RunInv

LEMMA RunNext ==
  ASSUME RunInv, [Next]_vars
  PROVE  RunInv'
<1>0. horizon \in Nat
  BY DEF RunInv, FilesFit
<1>1. CASE Process
  BY <1>1, StartInv, AcquireInv, BindInv, PrepareInv, ConfirmInv, DeployedInv, ObserveInv,
     CompleteInv DEF Process
<1>2. CASE Crash
  BY <1>0, <1>2, RunStutter DEF Crash, Stops
<1>3. CASE World
  <2>1. CASE \E step \in Steps : Mine(step)
    BY <2>1, MineInv
  <2>2. CASE FinishSource
    BY <1>0, <2>2, RunStutter DEF FinishSource, runVars
  <2> QED BY <1>3, <2>1, <2>2 DEF World
<1>4. CASE Stranger
  BY <1>0, <1>4, RunStutter DEF Stranger
<1>5. CASE Delay
  BY <1>0, <1>5, RunStutter DEF Delay
<1>6. CASE Expire
  BY <1>0, <1>6, RunStutter DEF Expire
<1>7. CASE UNCHANGED vars
  BY <1>0, <1>7, RunStutter DEF vars, runVars
<1> QED BY <1>1, <1>2, <1>3, <1>4, <1>5, <1>6, <1>7 DEF Next

(* Nothing of the plan is left of a complete run, and every entry it left   *)
(* is of something that happened.                                           *)
LEMMA FinishedRunPasses ==
  ASSUME RunInv, manifest.status = "COMPLETE"
  PROVE  Audit
<1>1. ASSUME NEW x \in Items PROVE Done(x)
  BY DEF RunInv, ProcessFits, Left, Items
<1>2. ASSUME NEW s \in Steps
      PROVE  manifest.steps[s].status = "CONFIRMED" /\ mined[s] = "SUCCESS"
  <2>1. /\ s \in Items /\ s[1] # "observe" /\ Done(s)
        /\ s = <<s[1], s[2]>>
    BY <1>1, ItemsArePairs DEF Steps
  <2>2. manifest.steps[s].status = "CONFIRMED"
    <3>1. CASE s[1] = "deploy"
      <4>1. s[2] \in manifest.deployments
        BY <2>1, <3>1 DEF Done
      <4>2. <<"deploy", s[2]>> = s
        BY <2>1, <3>1
      <4> QED BY <4>1, <4>2 DEF RunInv, EntriesFit
    <3>2. CASE s[1] # "deploy"
      BY <2>1, <3>2 DEF Done
    <3> QED BY <3>1, <3>2
  <2> QED BY <2>2 DEF RunInv, EntriesFit
<1>3. {"A", "B", "registry", "decoder", "ledger", "gate"} \subseteq manifest.deployments
  <2>1. ASSUME NEW d, <<"deploy", d>> \in Items PROVE d \in manifest.deployments
    <3> DEFINE x == <<"deploy", d>>
    <3>1. x[1] = "deploy" /\ x[2] = d
      OBVIOUS
    <3>2. Done(x)
      BY <1>1, <2>1
    <3> HIDE DEF x
    <3> QED BY <3>1, <3>2 DEF Done
  <2> QED BY <2>1, PlanNames
<1>4. ASSUME NEW k \in Proven
      PROVE  /\ manifest.submissionProofs[k] \in manifest.proofs[k]
             /\ Sent(k).status = "CONFIRMED"
             /\ Sent(k).bundle = manifest.submissionProofs[k].bundle
             /\ manifest.submissionProofs[k] # NoProof
  <2>1. Sent(k).status = "CONFIRMED"
    BY <1>2, ProvenSteps DEF Sent
  <2>2. /\ manifest.submissionProofs[k] \in manifest.proofs[k]
        /\ Sent(k).bundle = manifest.submissionProofs[k].bundle
    BY <2>1 DEF RunInv, EntriesFit
  <2>3. manifest.submissionProofs[k].bundle \in 1..horizon
    BY <2>2 DEF RunInv, FilesFit
  <2>4. manifest.submissionProofs[k].bundle # 0
    BY <2>3 DEF RunInv, FilesFit
  <2> QED BY <2>1, <2>2, <2>4 DEF NoProof
<1>5. ASSUME NEW o \in Observed
      PROVE  LET r == manifest.observations[o]
             IN /\ r # NoReport
                /\ AsExpected(o, r.decision, r.reading.snapshotComplete)
  <2> DEFINE x == <<"observe", o>>
  <2>1. x[1] = "observe" /\ x[2] = o
    OBVIOUS
  <2>2. Done(x)
    BY <1>1, ObservedItems
  <2> HIDE DEF x
  <2>3. manifest.observations[o] # NoReport
    BY <2>1, <2>2 DEF Done
  <2> QED BY <2>3 DEF RunInv, EntriesFit
<1>6. ValidateCompletion
  BY <1>2, <1>3, <1>4, <1>5 DEF ValidateCompletion
<1>7. \A k \in Proven : \A p \in manifest.proofs[k] : p.bundle = p.verifiedAt
  BY DEF RunInv, FilesFit
<1>8. \A k \in Proven : BindingHolds(k)
  BY <1>4 DEF BindingHolds, Sent, NoStep
<1> QED BY <1>2, <1>6, <1>7, <1>8 DEF Audit

(* A run of the scenario that calls itself complete passes its audit: all   *)
(* of its plan is confirmed and was mined, every report it wrote down is    *)
(* what was expected, and every submission carries the proof bound to it,   *)
(* whatever the contracts answered and however often the process was killed *)
(* (audit and validateCompletion in src/phase2-runtime.js).                 *)
THEOREM ScenarioPassesAudit == Spec => []CompleteRunPassesAudit
<1>1. RunInv => CompleteRunPassesAudit
  BY FinishedRunPasses DEF CompleteRunPassesAudit
<1>2. RunInv /\ [Next]_vars => RunInv'
  BY RunNext
<1> QED BY InitRun, <1>1, <1>2, PTL DEF Spec
-----------------------------------------------------------------------------
(* The scenario as a user of the contracts.  Submissions and the            *)
(* reservation come after what they rest on.                                *)
OrderFits ==
  /\ \A k \in Proven : Sent(k).status # "NONE"
       => manifest.steps[<<"write", k>>].status = "CONFIRMED"
  /\ manifest.steps[<<"write", "reserve-20">>].status # "NONE"
       => manifest.observations["epoch-2"] # NoReport

(* What a confirmed transaction of a source logged is in its receipt. *)
ReceiptsFit ==
  \A s \in Steps : OnSource(s) =>
    /\ mined[s] = "SUCCESS" => txLogs # << >> \/ receipts # << >>
    /\ manifest.steps[s].status = "CONFIRMED"
         => manifest.steps[s].receipt \in 1..Len(receipts)

ReportsFit ==
  \A o \in Observed : manifest.observations[o] # NoReport =>
    /\ PageShows(manifest.observations[o])
    /\ "amount" \in DOMAIN manifest.observations[o].decision

(* What a transaction of the run brings about. *)
Effect(outcome, key, amount) == IF outcome[<<"write", key>>] = "SUCCESS" THEN amount ELSE 0

(* The gate as the run leaves it. *)
GateFits ==
  /\ creditLimit = 60 /\ executedCredit = 0
  /\ reservedCredit = Effect(mined, "reserve-20", 20)

NoAliases == \A d \in Debts : canonicalIds[d] = Unset

(* What is open at the sources is what the run's transactions opened and    *)
(* repaid.                                                                  *)
LoansFit ==
  /\ loans["A"]["A"].outstanding = Effect(mined, "A-open", 30)
  /\ loans["B"]["B"].outstanding = Effect(mined, "B-open", 20) - Effect(mined, "B-repay", 10)

ScenarioInv ==
  /\ ScenarioConstants /\ RunInv /\ IInv
  /\ OrderFits /\ ReceiptsFit /\ ReportsFit /\ GateFits /\ NoAliases /\ LoansFit

(* The plan's order. *)
LEMMA PlanOrder ==
  /\ \A j \in 1..31 : Plan[j][1] = "submit" =>
       \E i \in 1..31 : i < j /\ Plan[i] = <<"write", Plan[j][2]>> /\ OnSource(Plan[i])
  /\ \A j \in 1..31 : Plan[j][1] = "write" /\ Plan[j][2] = "reserve-20" =>
       \E i \in 1..31 : i < j /\ Plan[i] = <<"observe", "epoch-2">>
<1>1. /\ \A j \in 1..31 : Plan[j][1] = "submit" => j \in {13, 14, 16, 17, 21, 25, 26}
      /\ \A j \in 1..31 : Plan[j][1] = "write" /\ Plan[j][2] = "reserve-20" => j = 29
  <2>1. \A j \in 1..31 : Plan[j][1] = "submit" => j \in {13, 14, 16, 17, 21, 25, 26}
    BY DEF Plan
  <2>2. \A j \in 1..31 : Plan[j][1] = "write" /\ Plan[j][2] = "reserve-20" => j = 29
    BY DEF Plan
  <2> QED BY <2>1, <2>2
<1>2. /\ Plan[7] = <<"write", Plan[13][2]>> /\ Plan[9] = <<"write", Plan[14][2]>>
      /\ Plan[10] = <<"write", Plan[16][2]>> /\ Plan[12] = <<"write", Plan[17][2]>>
      /\ Plan[20] = <<"write", Plan[21][2]>> /\ Plan[23] = <<"write", Plan[25][2]>>
      /\ Plan[24] = <<"write", Plan[26][2]>> /\ Plan[28] = <<"observe", "epoch-2">>
  BY DEF Plan
<1>3. ASSUME NEW i \in {7, 9, 10, 12, 20, 23, 24} PROVE OnSource(Plan[i])
  <2>1. /\ Plan[i][1] = "write"
        /\ Plan[i][2] \in {"A-open", "A-checkpoint-1", "B-open", "B-checkpoint-1", "B-repay",
                           "A-checkpoint-2", "B-checkpoint-2"}
    BY DEF Plan
  <2> DEFINE step == Plan[i]
  <2> HIDE DEF step
  <2>2. /\ step[1] = "write"
        /\ step[2] \in {"A-open", "A-checkpoint-1", "B-open", "B-checkpoint-1", "B-repay",
                        "A-checkpoint-2", "B-checkpoint-2"}
    BY <2>1 DEF step
  <2>3. OnSource(step)
    BY <2>2 DEF OnSource
  <2> QED BY <2>3 DEF step
<1>4. ASSUME NEW j \in {13, 14, 16, 17, 21, 25, 26}
      PROVE  \E i \in 1..31 :
               i < j /\ Plan[i] = <<"write", Plan[j][2]>> /\ OnSource(Plan[i])
  <2>1. CASE j = 13
    <3>1. 7 \in 1..31 /\ 7 < j /\ Plan[7] = <<"write", Plan[j][2]>>
      BY <1>2, <2>1
    <3> QED BY <1>3, <3>1
  <2>2. CASE j = 14
    <3>1. 9 \in 1..31 /\ 9 < j /\ Plan[9] = <<"write", Plan[j][2]>>
      BY <1>2, <2>2
    <3> QED BY <1>3, <3>1
  <2>3. CASE j = 16
    <3>1. 10 \in 1..31 /\ 10 < j /\ Plan[10] = <<"write", Plan[j][2]>>
      BY <1>2, <2>3
    <3> QED BY <1>3, <3>1
  <2>4. CASE j = 17
    <3>1. 12 \in 1..31 /\ 12 < j /\ Plan[12] = <<"write", Plan[j][2]>>
      BY <1>2, <2>4
    <3> QED BY <1>3, <3>1
  <2>5. CASE j = 21
    <3>1. 20 \in 1..31 /\ 20 < j /\ Plan[20] = <<"write", Plan[j][2]>>
      BY <1>2, <2>5
    <3> QED BY <1>3, <3>1
  <2>6. CASE j = 25
    <3>1. 23 \in 1..31 /\ 23 < j /\ Plan[23] = <<"write", Plan[j][2]>>
      BY <1>2, <2>6
    <3> QED BY <1>3, <3>1
  <2>7. CASE j = 26
    <3>1. 24 \in 1..31 /\ 24 < j /\ Plan[24] = <<"write", Plan[j][2]>>
      BY <1>2, <2>7
    <3> QED BY <1>3, <3>1
  <2> QED BY <2>1, <2>2, <2>3, <2>4, <2>5, <2>6, <2>7
<1>5. 28 \in 1..31 /\ 28 < 29
  OBVIOUS
<1>6. \A j \in 1..31 : Plan[j][1] = "write" /\ Plan[j][2] = "reserve-20" =>
        \E i \in 1..31 : i < j /\ Plan[i] = <<"observe", "epoch-2">>
  BY <1>1, <1>2, <1>5
<1>7. \A j \in 1..31 : Plan[j][1] = "submit" =>
        \E i \in 1..31 : i < j /\ Plan[i] = <<"write", Plan[j][2]>> /\ OnSource(Plan[i])
  BY <1>1, <1>4
<1> QED BY <1>6, <1>7

LEMMA ProvenWrites ==
  \A k \in Proven : <<"write", k>> \in Steps /\ OnSource(<<"write", k>>)
<1> SUFFICES ASSUME NEW k \in Proven
             PROVE  <<"write", k>> \in Steps /\ OnSource(<<"write", k>>)
  OBVIOUS
<1>1. PICK j \in 1..31 : Plan[j][1] = "submit" /\ Plan[j][2] = k
  BY PlanItems DEF Proven, Items
<1>2. PICK i \in 1..31 : Plan[i] = <<"write", k>> /\ OnSource(Plan[i])
  BY <1>1, PlanOrder
<1>3. <<"write", k>> \in Items
  BY <1>2, PlanItems DEF Items
<1> QED BY <1>2, <1>3 DEF Steps

(* Whatever comes before the step the process is at is done. *)
LEMMA EarlierIsDone ==
  ASSUME Current[1] # "complete"
  PROVE  \E m \in 1..31 : Current = Plan[m] /\ \A i \in 1..31 : i < m => Done(Plan[i])
<1>1. Left # {}
  <2> DEFINE done == <<"complete", "">>
  <2>1. done[1] = "complete"
    OBVIOUS
  <2> QED BY <2>1 DEF Current
<1>2. Left \in SUBSET Nat
  BY PlanItems DEF Left
<1>3. \E n \in Left : \A i \in Left : n =< i
  BY <1>1, <1>2, LeastNatural
<1>4. PICK m \in Left : m = Min(Left) /\ \A i \in Left : m =< i
  BY <1>3 DEF Min
<1>5. Current = Plan[m]
  BY <1>1, <1>4 DEF Current
<1>6. m \in 1..31 /\ \A i \in 1..31 : i \notin Left => Done(Plan[i])
  BY PlanItems DEF Left
<1>7. \A i \in 1..31 : i < m => i \notin Left
  BY <1>4, <1>6
<1> QED BY <1>5, <1>6, <1>7

LEMMA ReadyToSubmit ==
  ASSUME NEW k \in Proven, Current = <<"submit", k>>
  PROVE  manifest.steps[<<"write", k>>].status = "CONFIRMED"
<1> DEFINE w == <<"write", k>>
<1>1. Current[1] = "submit" /\ Current[2] = k
  OBVIOUS
<1>2. PICK m \in 1..31 : Current = Plan[m] /\ \A i \in 1..31 : i < m => Done(Plan[i])
  BY <1>1, EarlierIsDone
<1>3. PICK i \in 1..31 : i < m /\ Plan[i] = w
  BY <1>1, <1>2, PlanOrder
<1>4. Done(w) /\ w[1] = "write"
  BY <1>2, <1>3
<1> HIDE DEF w
<1>5. manifest.steps[w].status = "CONFIRMED"
  BY <1>4 DEF Done
<1> QED BY <1>5 DEF w

LEMMA ReadyToReserve ==
  ASSUME Current = <<"write", "reserve-20">>
  PROVE  manifest.observations["epoch-2"] # NoReport
<1> DEFINE o == <<"observe", "epoch-2">>
<1>1. Current[1] = "write" /\ Current[2] = "reserve-20"
  OBVIOUS
<1>2. PICK m \in 1..31 : Current = Plan[m] /\ \A i \in 1..31 : i < m => Done(Plan[i])
  BY <1>1, EarlierIsDone
<1>3. PICK i \in 1..31 : i < m /\ Plan[i] = o
  BY <1>1, <1>2, PlanOrder
<1>4. Done(o) /\ o[1] = "observe" /\ o[2] = "epoch-2"
  BY <1>2, <1>3
<1> HIDE DEF o
<1> QED BY <1>4 DEF Done

-----------------------------------------------------------------------------
(* The calls of the scenario are calls of sources and ledger; nobody        *)
(* relates debts, and time may pass.                                        *)
Passes ==
  /\ now' = now + MaxAge + 1 /\ sourceTime' = now'
  /\ UNCHANGED <<loans, books, txLogs, receipts, ledgerVars>>

ContractStep == Source \/ Relay \/ Finalize \/ Passes \/ UNCHANGED exposureVars

LEMMA NamedSources ==
  ASSUME ScenarioConstants
  PROVE  /\ "A" \in Sources /\ "B" \in Sources /\ "A" \in LoanIds /\ "B" \in LoanIds
         /\ "A" \in Registered /\ "B" \in Registered
         /\ 30 \in Principals /\ 20 \in Principals
         /\ 1 \in Uint /\ 10 \in Uint /\ 20 \in Uint
<1>1. /\ "A" \in Sources /\ "B" \in Sources /\ "A" \in LoanIds /\ "B" \in LoanIds
      /\ "A" \in Registered /\ "B" \in Registered
      /\ 30 \in Principals /\ 20 \in Principals
  BY DEF ScenarioConstants
<1>2. 20 \in Uint
  BY <1>1, SourceConstants
<1>3. 1 \in Uint /\ 10 \in Uint
  BY <1>2, MaxUintAssumption DEF Uint
<1> QED BY <1>1, <1>2, <1>3

LEMMA SentToSource ==
  ASSUME ScenarioConstants, NEW key, Sends(key)
  PROVE  SourceNext
<1>1. CASE key = "A-open" /\ \E signer \in Parties : OpenLoan("A", "A", signer, 30)
  BY <1>1, NamedSources DEF SourceNext
<1>2. CASE key = "B-open" /\ \E signer \in Parties : OpenLoan("B", "B", signer, 20)
  BY <1>2, NamedSources DEF SourceNext
<1>3. CASE key = "B-repay" /\ Repay("B", "B", 10)
  BY <1>3, NamedSources DEF SourceNext
<1>4. CASE Seal("A") \/ Seal("B") \/ TakeCheckpoint("A") \/ TakeCheckpoint("B")
  BY <1>4, NamedSources DEF SourceNext
<1> QED BY <1>1, <1>2, <1>3, <1>4 DEF Sends

(* What they leave behind: the transaction has logged. *)
LEMMA SentIsLogged ==
  ASSUME SourceTypeOK, NEW key, Sends(key)
  PROVE  txLogs' # << >> /\ receipts' = receipts
<1>1. \E log : Emit(log)
  <2>1. CASE key = "A-open" /\ \E signer \in Parties : OpenLoan("A", "A", signer, 30)
    BY <2>1 DEF OpenLoan, EmitState
  <2>2. CASE key = "B-open" /\ \E signer \in Parties : OpenLoan("B", "B", signer, 20)
    BY <2>2 DEF OpenLoan, EmitState
  <2>3. CASE key = "B-repay" /\ Repay("B", "B", 10)
    BY <2>3 DEF Repay, EmitState
  <2>4. CASE Seal("A") \/ Seal("B") \/ TakeCheckpoint("A") \/ TakeCheckpoint("B")
    BY <2>4 DEF Seal, TakeCheckpoint
  <2> QED BY <2>1, <2>2, <2>3, <2>4 DEF Sends
<1>2. PICK log : Emit(log)
  BY <1>1
<1>3. txLogs' = Append(txLogs, log) /\ receipts' = receipts /\ txLogs \in Seq(Log)
  BY <1>2 DEF Emit, SourceTypeOK
<1>4. Len(txLogs') = Len(txLogs) + 1 /\ Len(txLogs) \in Nat
  BY <1>3
<1> QED BY <1>3, <1>4

(* The index a submission is made with is one of a receipt. *)
LEMMA SubmitsAReceipt ==
  ASSUME ScenarioInv, NEW k \in Proven, Sent(k).status # "NONE"
  PROVE  manifest.steps[<<"write", k>>].receipt \in 1..Len(receipts)
<1> DEFINE w == <<"write", k>>
<1>1. w \in Steps /\ OnSource(w)
  BY ProvenWrites
<1>2. manifest.steps[w].status = "CONFIRMED"
  BY DEF ScenarioInv, OrderFits
<1> HIDE DEF w
<1>3. manifest.steps[w].receipt \in 1..Len(receipts)
  BY <1>1, <1>2 DEF ScenarioInv, ReceiptsFit
<1> QED BY <1>3 DEF w

(* Certification and reservation are named by no other step. *)
LEMMA OtherNames ==
  ASSUME NEW step \in Steps, step[1] \in {"deploy", "submit"}
  PROVE  step[2] \notin {"finalize-1", "finalize-2", "reserve-20"}
<1>1. PICK i \in 1..31 : step = Plan[i]
  BY PlanItems DEF Steps, Items
<1>2. Plan[i][1] \in {"deploy", "submit"}
        => Plan[i][2] \notin {"finalize-1", "finalize-2", "reserve-20"}
  BY DEF Plan
<1> QED BY <1>1, <1>2

LEMMA CallsAreContractSteps ==
  ASSUME ScenarioInv, NEW step \in Steps, NEW bundle, Call(step, bundle),
         manifest.steps[step].status = "PREPARED"
  PROVE  ContractStep
<1>1. CASE OnSource(step)
  <2>1. Sends(step[2]) /\ UNCHANGED <<ledgerVars, now>>
    BY <1>1 DEF Call
  <2>2. SourceNext
    BY <2>1, SentToSource DEF ScenarioInv
  <2> QED BY <2>1, <2>2 DEF Source, ContractStep
<1>2. CASE step[1] = "deploy"
  <2>1. ~OnSource(step) /\ step[2] \notin {"finalize-1", "finalize-2", "reserve-20"}
    BY <1>2, OtherNames DEF OnSource
  <2>2. UNCHANGED <<ledgerVars, sourceVars, now>>
    BY <1>2, <2>1 DEF Call
  <2> QED BY <2>2 DEF ContractStep, exposureVars
<1>3. CASE step[1] = "submit"
  <2> DEFINE k == step[2]
             i == manifest.steps[<<"write", k>>].receipt
  <2>0. ~OnSource(step) /\ step[2] \notin {"finalize-1", "finalize-2", "reserve-20"}
    BY <1>3, OtherNames DEF OnSource
  <2>1. Submits(k, bundle) /\ UNCHANGED <<sourceVars, now>>
    BY <1>3, <2>0 DEF Call
  <2>2. k \in Proven /\ step = <<"submit", k>>
    BY <1>3, ProvenSteps, ItemsArePairs DEF Steps
  <2>3. Sent(k).status # "NONE"
    BY <2>2 DEF Sent
  <2>4. i \in 1..Len(receipts)
    BY <2>2, <2>3, SubmitsAReceipt
  <2>5. SubmitSourceTransaction(i, receipts[i], now)
    BY <2>1 DEF Submits
  <2> HIDE DEF i
  <2>6. Relay
    BY <2>1, <2>4, <2>5 DEF Relay
  <2> QED BY <2>6 DEF ContractStep
<1>4. CASE step[1] = "write" /\ ~OnSource(step)
  <2>1. step[2] \in {"finalize-1", "finalize-2", "reserve-20"} /\ UNCHANGED <<sourceVars, now>>
    BY <1>4 DEF Call, OnSource
  <2>2. CASE step[2] = "reserve-20"
    <3>1. UNCHANGED ledgerVars
      BY <1>4, <2>2 DEF Call
    <3> QED BY <2>1, <3>1 DEF ContractStep, exposureVars
  <2>3. CASE step[2] # "reserve-20"
    <3>1. \E e : FinalizeSnapshot(e, now)
      BY <1>4, <2>1, <2>3 DEF Call
    <3>2. PICK e : FinalizeSnapshot(e, now)
      BY <3>1
    <3>3. "A" \in Registered
      BY NamedSources DEF ScenarioInv
    <3>4. e = ledger.sources["A"].checkpointEpoch
      BY <3>2, <3>3 DEF FinalizeSnapshot, Covered
    <3>5. Finalize
      BY <2>1, <3>2, <3>3, <3>4 DEF Finalize
    <3> QED BY <3>5 DEF ContractStep
  <2> QED BY <2>2, <2>3
<1> QED BY <1>1, <1>2, <1>3, <1>4, ItemsArePairs DEF Steps

LEMMA ScenarioMoves ==
  ASSUME ScenarioInv, [Next]_vars
  PROVE  ContractStep
<1>1. ASSUME NEW step \in Steps, Mine(step) PROVE ContractStep
  <2>1. CASE UNCHANGED <<exposureVars, gateVars>>
    BY <2>1 DEF ContractStep
  <2>2. CASE Call(step, manifest.steps[step].bundle)
    <3>1. manifest.steps[step].status = "PREPARED"
      BY <1>1 DEF Mine
    <3> QED BY <2>2, <3>1, CallsAreContractSteps
  <2>3. Call(step, manifest.steps[step].bundle) \/ UNCHANGED <<exposureVars, gateVars>>
    BY <1>1 DEF Mine
  <2> QED BY <2>1, <2>2, <2>3
<1>2. CASE FinishSource
  BY <1>2 DEF FinishSource, SourceNext, Source, ContractStep
<1>3. CASE Stranger
  BY <1>3 DEF Stranger, ContractStep
<1>4. CASE Delay
  BY <1>4 DEF Delay, Passes, ContractStep
<1>5. CASE UNCHANGED exposureVars
  BY <1>5 DEF ContractStep
<1>6. Process => UNCHANGED exposureVars
  BY DEF Process, Start, AcquireProof, BindProof, Prepare, Confirm, Deployed, Observe,
         Complete, Saves
<1> QED BY <1>1, <1>2, <1>3, <1>4, <1>5, <1>6
    DEF Next, World, Crash, Expire, vars

LEMMA ContractsKeep ==
  ASSUME IInv, ContractStep
  PROVE  IInv'
<1>1. CASE Source \/ Relay \/ Finalize \/ UNCHANGED exposureVars
  BY <1>1, StepKeeps DEF ExposureNext
<1>2. CASE Passes
  <2>1. now \in Nat /\ MaxAge \in Nat /\ SourceTypeOK /\ ChainInv /\ LogsInv
    BY LedgerConstants DEF IInv, TypeOK
  <2>2. now' \in Nat /\ now <= now' /\ sourceTime' \in Nat
    BY <1>2, <2>1 DEF Passes
  <2>3. SourceKept
    BY <1>2, <2>1, <2>2, ChainKept DEF Passes
  <2> QED BY <1>2, <2>2, <2>3, LedgerLeftAlone DEF Passes
<1> QED BY <1>1, <1>2 DEF ContractStep

-----------------------------------------------------------------------------
(* What the process writes in one step: the entry of the step it is at, or  *)
(* a report.                                                                *)
EntryChanges ==
  \/ manifest'.steps = manifest.steps
  \/ /\ Current \in Steps
     /\ \A s \in Steps : s # Current => manifest'.steps[s] = manifest.steps[s]
     /\ manifest.steps[Current].status = "NONE"
     /\ manifest'.steps[Current].status = "PREPARED"
  \/ /\ Current \in Steps
     /\ \A s \in Steps : s # Current => manifest'.steps[s] = manifest.steps[s]
     /\ manifest.steps[Current].status = "PREPARED"
     /\ mined[Current] = "SUCCESS" /\ txLogs = << >>
     /\ manifest'.steps[Current].receipt = Len(receipts)

ReportsChange ==
  \A o \in Observed :
    \/ manifest'.observations[o] = manifest.observations[o]
    \/ \E amount \in {1, 20} : manifest'.observations[o] = CollectAggregateStatus(amount)

LEMMA EntryWritten ==
  ASSUME RunInv, NEW step \in Steps, NEW rec,
         manifest' = [manifest EXCEPT !.steps = [@ EXCEPT ![step] = rec]]
  PROVE  /\ manifest'.steps[step] = rec
         /\ \A s \in Steps : s # step => manifest'.steps[s] = manifest.steps[s]
         /\ manifest'.observations = manifest.observations
<1>1. /\ manifest'.observations = manifest.observations
      /\ manifest'.steps = [manifest.steps EXCEPT ![step] = rec]
  BY DEF RunInv, FieldsFit
<1>2. \A s \in Steps : manifest'.steps[s] = IF s = step THEN rec ELSE manifest.steps[s]
  BY <1>1 DEF RunInv, FieldsFit
<1> QED BY <1>1, <1>2

LEMMA PrepareWrites == ASSUME RunInv, Prepare PROVE EntryChanges /\ ReportsChange
<1> DEFINE rec == [status |-> "PREPARED", bundle |-> hand.bundle, receipt |-> 0]
<1>1. /\ Current \in Steps /\ manifest.steps[Current].status = "NONE"
      /\ \/ manifest' = [manifest EXCEPT !.steps[Current] = rec]
         \/ manifest' = manifest
  BY DEF Prepare, Saves
<1>2. CASE manifest' = manifest
  BY <1>2 DEF EntryChanges, ReportsChange
<1>3. CASE manifest' = [manifest EXCEPT !.steps[Current] = rec]
  <2>1. rec.status = "PREPARED"
    OBVIOUS
  <2> HIDE DEF rec
  <2>2. manifest' = [manifest EXCEPT !.steps = [@ EXCEPT ![Current] = rec]]
    BY <1>3
  <2>3. /\ manifest'.steps[Current] = rec
        /\ \A s \in Steps : s # Current => manifest'.steps[s] = manifest.steps[s]
        /\ manifest'.observations = manifest.observations
    BY <1>1, <2>2, EntryWritten
  <2> QED BY <1>1, <2>1, <2>3 DEF EntryChanges, ReportsChange
<1> QED BY <1>1, <1>2, <1>3

LEMMA ConfirmChanges == ASSUME RunInv, Confirm PROVE EntryChanges /\ ReportsChange
<1> DEFINE rec == [status |-> "CONFIRMED", bundle |-> manifest.steps[Current].bundle,
                   receipt |-> Len(receipts)]
<1>1. /\ Current \in Steps /\ manifest.steps[Current].status = "PREPARED" /\ txLogs = << >>
      /\ \/ /\ mined[Current] = "SUCCESS"
            /\ manifest' = [manifest EXCEPT !.steps[Current].status = "CONFIRMED",
                                            !.steps[Current].receipt = Len(receipts)]
         \/ manifest' = manifest
  BY DEF Confirm, Saves
<1>2. CASE manifest' = manifest
  BY <1>2 DEF EntryChanges, ReportsChange
<1>3. CASE /\ mined[Current] = "SUCCESS"
           /\ manifest' = [manifest EXCEPT !.steps[Current].status = "CONFIRMED",
                                           !.steps[Current].receipt = Len(receipts)]
  <2>1. rec.receipt = Len(receipts)
    OBVIOUS
  <2>2. manifest' = [manifest EXCEPT !.steps = [@ EXCEPT ![Current] = rec]]
    BY <1>1, <1>3, ConfirmWrites
  <2> HIDE DEF rec
  <2>3. /\ manifest'.steps[Current] = rec
        /\ \A s \in Steps : s # Current => manifest'.steps[s] = manifest.steps[s]
        /\ manifest'.observations = manifest.observations
    BY <1>1, <2>2, EntryWritten
  <2> QED BY <1>1, <1>3, <2>1, <2>3 DEF EntryChanges, ReportsChange
<1> QED BY <1>1, <1>2, <1>3

LEMMA ObserveWrites == ASSUME RunInv, Observe PROVE EntryChanges /\ ReportsChange
<1> DEFINE key == Current[2]
           amount == AmountOf(key)
           report == CollectAggregateStatus(amount)
<1>1. \/ manifest' = [manifest EXCEPT !.observations[key] = report]
      \/ manifest' = manifest
  BY DEF Observe, Saves
<1>2. amount \in {1, 20}
  BY DEF AmountOf
<1>3. CASE manifest' = manifest
  BY <1>3 DEF EntryChanges, ReportsChange
<1>4. CASE manifest' = [manifest EXCEPT !.observations[key] = report]
  <2> HIDE DEF key, amount
  <2>1. /\ manifest'.steps = manifest.steps
        /\ manifest'.observations = [manifest.observations EXCEPT ![key] = report]
    BY <1>4 DEF RunInv, FieldsFit
  <2>2. \A o \in Observed :
          manifest'.observations[o] = IF o = key THEN report ELSE manifest.observations[o]
    BY <2>1 DEF RunInv, FieldsFit
  <2> QED BY <1>2, <2>1, <2>2 DEF EntryChanges, ReportsChange
<1> QED BY <1>1, <1>3, <1>4

LEMMA ProcessWrites ==
  ASSUME RunInv, Process
  PROVE  /\ UNCHANGED <<exposureVars, gateVars, mined>>
         /\ EntryChanges /\ ReportsChange
<1>1. UNCHANGED <<exposureVars, gateVars, mined>>
  BY DEF Process, Start, AcquireProof, BindProof, Prepare, Confirm, Deployed, Observe,
         Complete, Saves
<1>2. ASSUME Start \/ AcquireProof \/ BindProof \/ Deployed \/ Complete
      PROVE  manifest'.steps = manifest.steps /\ manifest'.observations = manifest.observations
  BY <1>2 DEF Start, AcquireProof, BindProof, Deployed, Complete, Saves, RunInv, FieldsFit
<1> QED BY <1>1, <1>2, PrepareWrites, ConfirmChanges, ObserveWrites
    DEF Process, EntryChanges, ReportsChange

(* All others leave the manifest alone. *)
LEMMA OthersWriteNothing ==
  ASSUME [Next]_vars, ~Process
  PROVE  manifest' = manifest
BY DEF Next, Crash, World, Mine, FinishSource, Stranger, Delay, Expire, vars, runVars

(* Reports. *)
LEMMA ReportIsOne ==
  ASSUME NEW amount
  PROVE  /\ CollectAggregateStatus(amount) # NoReport
         /\ "amount" \in DOMAIN CollectAggregateStatus(amount).decision
<1> DEFINE r == CollectAggregateStatus(amount)
<1>1. "decision" \in DOMAIN r /\ "amount" \in DOMAIN r.decision
  BY DEF CollectAggregateStatus, Decision
<1> HIDE DEF r
<1>2. r # << >>
  <2>1. DOMAIN << >> = {}
    OBVIOUS
  <2> QED BY <1>1, <2>1
<1> QED BY <1>1, <1>2 DEF r, NoReport

LEMMA ReportsStay ==
  ASSUME ReportsChange, NEW o \in Observed, manifest.observations[o] # NoReport
  PROVE  manifest'.observations[o] # NoReport
BY ReportIsOne DEF ReportsChange

LEMMA ReportsKept ==
  ASSUME ScenarioInv, ReportsChange
  PROVE  ReportsFit'
<1>1. ASSUME NEW amount \in {1, 20}
      PROVE  /\ PageShows(CollectAggregateStatus(amount))
             /\ "amount" \in DOMAIN CollectAggregateStatus(amount).decision
  <2>1. /\ creditLimit \in Nat /\ reservedCredit \in Nat /\ executedCredit \in Nat
        /\ \A d \in Debts : canonicalIds[d] = Unset
    BY DEF ScenarioInv, GateFits, NoAliases, Effect
  <2>2. amount \in Uint
    BY NamedSources DEF ScenarioInv
  <2> QED BY <2>1, <2>2, PageFits, ReportIsOne DEF ScenarioInv
<1>2. ASSUME NEW o \in Observed, manifest'.observations[o] # NoReport
      PROVE  /\ PageShows(manifest'.observations[o])
             /\ "amount" \in DOMAIN manifest'.observations[o].decision
  <2>1. CASE manifest'.observations[o] = manifest.observations[o]
    <3>1. /\ PageShows(manifest.observations[o])
          /\ "amount" \in DOMAIN manifest.observations[o].decision
      BY <1>2, <2>1 DEF ScenarioInv, ReportsFit
    <3> QED BY <2>1, <3>1
  <2>2. CASE \E amount \in {1, 20} : manifest'.observations[o] = CollectAggregateStatus(amount)
    <3>1. PICK amount \in {1, 20} : manifest'.observations[o] = CollectAggregateStatus(amount)
      BY <2>2
    <3> QED BY <1>1, <3>1
  <2> QED BY <2>1, <2>2 DEF ReportsChange
<1> QED BY <1>2 DEF ReportsFit

(* Entries of the plan's transactions. *)
LEMMA NamedSteps ==
  /\ <<"write", "A-open">> \in Steps /\ <<"write", "B-open">> \in Steps
  /\ <<"write", "B-repay">> \in Steps /\ <<"write", "reserve-20">> \in Steps
  /\ "epoch-2" \in Observed
<1>1. /\ Plan[7] = <<"write", "A-open">> /\ Plan[10] = <<"write", "B-open">>
      /\ Plan[20] = <<"write", "B-repay">> /\ Plan[29] = <<"write", "reserve-20">>
      /\ Plan[28] = <<"observe", "epoch-2">>
  BY DEF Plan
<1>2. \A i \in 1..31 : Plan[i] \in Items
  BY PlanItems DEF Items
<1>3. \A name : <<"write", name>> \in Items => <<"write", name>> \in Steps
  <2> TAKE name
  <2> DEFINE x == <<"write", name>>
  <2>1. x[1] # "observe"
    OBVIOUS
  <2> QED BY <2>1 DEF Steps
<1>4. "epoch-2" \in Observed
  <2> DEFINE x == <<"observe", "epoch-2">>
  <2>1. x \in Items /\ x[1] = "observe" /\ x[2] = "epoch-2"
    BY <1>1, <1>2
  <2> HIDE DEF x
  <2> QED BY <2>1, ObservedItems
<1> QED BY <1>1, <1>2, <1>3, <1>4

LEMMA OrderKept ==
  ASSUME ScenarioInv, EntryChanges, ReportsChange
  PROVE  OrderFits'
<1> DEFINE r == <<"write", "reserve-20">>
<1>1. ASSUME NEW s \in Steps, manifest.steps[s].status = "CONFIRMED"
      PROVE  manifest'.steps[s].status = "CONFIRMED"
  BY <1>1 DEF EntryChanges
<1>2. ASSUME NEW s \in Steps, manifest'.steps[s].status # "NONE", manifest.steps[s].status = "NONE"
      PROVE  Current = s
  BY <1>2 DEF EntryChanges
<1>3. ASSUME NEW k \in Proven, manifest'.steps[<<"submit", k>>].status # "NONE"
      PROVE  manifest'.steps[<<"write", k>>].status = "CONFIRMED"
  <2>1. <<"submit", k>> \in Steps /\ <<"write", k>> \in Steps
    BY ProvenSteps, ProvenWrites
  <2>2. manifest.steps[<<"write", k>>].status = "CONFIRMED"
    <3>1. CASE manifest.steps[<<"submit", k>>].status # "NONE"
      BY <3>1 DEF ScenarioInv, OrderFits, Sent
    <3>2. CASE manifest.steps[<<"submit", k>>].status = "NONE"
      <4>1. Current = <<"submit", k>>
        BY <1>2, <1>3, <2>1, <3>2
      <4> QED BY <4>1, ReadyToSubmit
    <3> QED BY <3>1, <3>2
  <2> QED BY <1>1, <2>1, <2>2
<1>4. ASSUME manifest'.steps[r].status # "NONE"
      PROVE  manifest'.observations["epoch-2"] # NoReport
  <2>1. manifest.observations["epoch-2"] # NoReport
    <3>1. CASE manifest.steps[r].status # "NONE"
      BY <3>1 DEF ScenarioInv, OrderFits
    <3>2. CASE manifest.steps[r].status = "NONE"
      <4>1. Current = r
        BY <1>2, <1>4, <3>2, NamedSteps
      <4> QED BY <4>1, ReadyToReserve
    <3> QED BY <3>1, <3>2
  <2> QED BY <2>1, ReportsStay, NamedSteps
<1> QED BY <1>3, <1>4 DEF OrderFits, Sent

-----------------------------------------------------------------------------
(* Each transaction takes effect once. *)
LEMMA OutstandingEmitted ==
  ASSUME SourceTypeOK, NEW s \in Sources, NEW id \in LoanIds, NEW loan, NEW totals,
         EmitState(s, id, loan, totals), "outstanding" \in DOMAIN loan
  PROVE  /\ loans'[s][id].outstanding = loan.outstanding
         /\ \A t \in Sources, x \in LoanIds :
              t # s \/ x # id => loans'[t][x] = loans[t][x]
<1> DEFINE stamped == [loan EXCEPT !.eventSequence = totals.eventCount + 1,
                                   !.timestamp = sourceTime]
<1>1. stamped.outstanding = loan.outstanding
  OBVIOUS
<1>2. loans' = [loans EXCEPT ![s][id] = stamped]
  BY DEF EmitState
<1> HIDE DEF stamped
<1>3. loans \in [Sources -> [LoanIds -> Loan]]
  BY DEF SourceTypeOK
<1>4. loans'[s] = [loans[s] EXCEPT ![id] = stamped]
      /\ \A t \in Sources : t # s => loans'[t] = loans[t]
  BY <1>2, <1>3
<1>5. loans'[s][id] = stamped /\ \A x \in LoanIds : x # id => loans'[s][x] = loans[s][x]
  BY <1>3, <1>4
<1> QED BY <1>1, <1>4, <1>5

LEMMA OpenedAmount ==
  ASSUME SourceTypeOK, NEW s \in Sources, NEW id \in LoanIds, NEW parties, NEW principal,
         OpenLoan(s, id, parties, principal)
  PROVE  /\ loans'[s][id].outstanding = principal
         /\ \A t \in Sources, x \in LoanIds :
              t # s \/ x # id => loans'[t][x] = loans[t][x]
<1> DEFINE loan == [NoLoan EXCEPT !.parties = parties, !.sequence = 1,
                       !.principal = principal, !.outstanding = principal]
<1>1. loan.outstanding = principal /\ "outstanding" \in DOMAIN loan
  BY DEF NoLoan
<1>2. \E totals : EmitState(s, id, loan, totals)
  BY DEF OpenLoan
<1> HIDE DEF loan
<1> QED BY <1>1, <1>2, OutstandingEmitted

LEMMA RepaidAmount ==
  ASSUME SourceTypeOK, NEW s \in Sources, NEW id \in LoanIds, NEW amount,
         Repay(s, id, amount)
  PROVE  /\ loans'[s][id].outstanding = loans[s][id].outstanding - amount
         /\ \A t \in Sources, x \in LoanIds :
              t # s \/ x # id => loans'[t][x] = loans[t][x]
<1> DEFINE old == loans[s][id]
           loan == [old EXCEPT !.repaid = @ + amount, !.outstanding = @ - amount,
                               !.sequence = @ + 1]
<1>1. old \in Loan
  BY DEF SourceTypeOK
<1>2. \E totals : EmitState(s, id, loan, totals)
  BY DEF Repay
<1>3. loan.outstanding = old.outstanding - amount /\ "outstanding" \in DOMAIN loan
  <2> HIDE DEF old
  <2> QED BY <1>1 DEF Loan
<1> HIDE DEF loan
<1> QED BY <1>2, <1>3, OutstandingEmitted

LEMMA LoansMined ==
  ASSUME ScenarioInv, NEW step \in Steps, Mine(step)
  PROVE  LoansFit'
<1> DEFINE AO == <<"write", "A-open">>
           BO == <<"write", "B-open">>
           BR == <<"write", "B-repay">>
<1>1. PICK fate \in {"SUCCESS", "REVERTED"} :
        /\ mined[step] = "NONE" /\ mined' = [mined EXCEPT ![step] = fate]
        /\ fate = "SUCCESS" => Call(step, manifest.steps[step].bundle)
        /\ fate = "REVERTED" => UNCHANGED <<exposureVars, gateVars>>
  BY DEF Mine
<1>2. /\ "A" \in Sources /\ "B" \in Sources /\ "A" \in LoanIds /\ "B" \in LoanIds
      /\ SourceTypeOK /\ RunInv
  BY NamedSources DEF ScenarioInv, IInv, TypeOK
<1>3. /\ loans["A"]["A"].outstanding \in Nat /\ loans["B"]["B"].outstanding \in Nat
  BY <1>2, Numbers DEF SourceTypeOK, Loan
<1>4. /\ loans["A"]["A"].outstanding = Effect(mined, "A-open", 30)
      /\ loans["B"]["B"].outstanding = Effect(mined, "B-open", 20) - Effect(mined, "B-repay", 10)
      /\ Effect(mined, "A-open", 30) \in {0, 30} /\ Effect(mined, "B-open", 20) \in {0, 20}
      /\ Effect(mined, "B-repay", 10) \in {0, 10}
  BY DEF ScenarioInv, LoansFit, Effect
<1>5. /\ AO # BO /\ AO # BR /\ BO # BR
      /\ \A s \in Steps : mined'[s] = IF s = step THEN fate ELSE mined[s]
  BY <1>1, <1>2 DEF RunInv, FieldsFit
<1>6. /\ step = AO => /\ Effect(mined, "A-open", 30) = 0
                      /\ fate = "SUCCESS" => Effect(mined', "A-open", 30) = 30
                      /\ fate = "REVERTED" => Effect(mined', "A-open", 30) = 0
      /\ step # AO => Effect(mined', "A-open", 30) = Effect(mined, "A-open", 30)
  <2> HIDE DEF AO
  <2>1. AO \in Steps /\ AO = <<"write", "A-open">>
    BY NamedSteps DEF AO
  <2>2. /\ Effect(mined, "A-open", 30) = (IF mined[AO] = "SUCCESS" THEN 30 ELSE 0)
        /\ Effect(mined', "A-open", 30) = (IF mined'[AO] = "SUCCESS" THEN 30 ELSE 0)
    BY <2>1 DEF Effect
  <2> QED BY <1>1, <1>5, <2>1, <2>2
<1>7. /\ step = BO => /\ Effect(mined, "B-open", 20) = 0
                      /\ fate = "SUCCESS" => Effect(mined', "B-open", 20) = 20
                      /\ fate = "REVERTED" => Effect(mined', "B-open", 20) = 0
      /\ step # BO => Effect(mined', "B-open", 20) = Effect(mined, "B-open", 20)
  <2> HIDE DEF BO
  <2>1. BO \in Steps /\ BO = <<"write", "B-open">>
    BY NamedSteps DEF BO
  <2>2. /\ Effect(mined, "B-open", 20) = (IF mined[BO] = "SUCCESS" THEN 20 ELSE 0)
        /\ Effect(mined', "B-open", 20) = (IF mined'[BO] = "SUCCESS" THEN 20 ELSE 0)
    BY <2>1 DEF Effect
  <2> QED BY <1>1, <1>5, <2>1, <2>2
<1>8. /\ step = BR => /\ Effect(mined, "B-repay", 10) = 0
                      /\ fate = "SUCCESS" => Effect(mined', "B-repay", 10) = 10
                      /\ fate = "REVERTED" => Effect(mined', "B-repay", 10) = 0
      /\ step # BR => Effect(mined', "B-repay", 10) = Effect(mined, "B-repay", 10)
  <2> HIDE DEF BR
  <2>1. BR \in Steps /\ BR = <<"write", "B-repay">>
    BY NamedSteps DEF BR
  <2>2. /\ Effect(mined, "B-repay", 10) = (IF mined[BR] = "SUCCESS" THEN 10 ELSE 0)
        /\ Effect(mined', "B-repay", 10) = (IF mined'[BR] = "SUCCESS" THEN 10 ELSE 0)
    BY <2>1 DEF Effect
  <2> QED BY <1>1, <1>5, <2>1, <2>2
<1>9. ASSUME loans' = loans, step # AO \/ fate = "REVERTED", step # BO \/ fate = "REVERTED",
             step # BR \/ fate = "REVERTED"
      PROVE  LoansFit'
  BY <1>4, <1>6, <1>7, <1>8, <1>9 DEF LoansFit
<1>10. CASE fate = "REVERTED"
  BY <1>1, <1>9, <1>10 DEF exposureVars, sourceVars
<1>11. CASE fate = "SUCCESS" /\ ~OnSource(step)
  <2>1. step # AO /\ step # BO /\ step # BR
    BY <1>11 DEF OnSource
  <2>2. loans' = loans
    BY <1>1, <1>11 DEF Call, sourceVars
  <2> QED BY <1>9, <2>1, <2>2
<1>12. CASE fate = "SUCCESS" /\ OnSource(step)
  <2>1. Sends(step[2])
    BY <1>1, <1>12 DEF Call
  <2>2. step = <<"write", step[2]>>
    BY <1>12, ItemsArePairs DEF OnSource, Steps
  <2>3. CASE step[2] = "A-open" /\ \E signer \in Parties : OpenLoan("A", "A", signer, 30)
    <3>1. step = AO
      BY <2>2, <2>3
    <3>2. loans'["A"]["A"].outstanding = 30 /\ loans'["B"]["B"] = loans["B"]["B"]
      BY <1>2, <2>3, OpenedAmount
    <3> HIDE DEF AO, BO, BR
    <3> QED BY <1>4, <1>5, <1>6, <1>7, <1>8, <1>12, <3>1, <3>2 DEF LoansFit
  <2>4. CASE step[2] = "B-open" /\ \E signer \in Parties : OpenLoan("B", "B", signer, 20)
    <3>1. step = BO
      BY <2>2, <2>4
    <3>2. loans'["B"]["B"].outstanding = 20 /\ loans'["A"]["A"] = loans["A"]["A"]
      BY <1>2, <2>4, OpenedAmount
    <3> HIDE DEF AO, BO, BR
    <3>3. Effect(mined, "B-repay", 10) = 0
      BY <1>3, <1>4, <1>7, <3>1
    <3> QED BY <1>4, <1>5, <1>6, <1>7, <1>8, <1>12, <3>1, <3>2, <3>3 DEF LoansFit
  <2>5. CASE step[2] = "B-repay" /\ Repay("B", "B", 10)
    <3>1. step = BR
      BY <2>2, <2>5
    <3>2. /\ loans'["B"]["B"].outstanding = loans["B"]["B"].outstanding - 10
          /\ loans'["A"]["A"] = loans["A"]["A"]
      BY <1>2, <2>5, RepaidAmount
    <3> HIDE DEF AO, BO, BR
    <3> QED BY <1>4, <1>5, <1>6, <1>7, <1>8, <1>12, <3>1, <3>2 DEF LoansFit
  <2>6. CASE /\ step[2] \notin {"A-open", "B-open", "B-repay"}
             /\ Seal("A") \/ Seal("B") \/ TakeCheckpoint("A") \/ TakeCheckpoint("B")
    <3>1. step # AO /\ step # BO /\ step # BR
      BY <2>6
    <3>2. loans' = loans
      BY <2>6 DEF Seal, TakeCheckpoint
    <3> QED BY <1>9, <3>1, <3>2
  <2> QED BY <2>1, <2>3, <2>4, <2>5, <2>6 DEF Sends
<1> QED BY <1>1, <1>10, <1>11, <1>12

(* The one reservation: of 20, and allowed. *)
LEMMA RunReserves ==
  ASSUME ScenarioInv, NEW step \in Steps, step = <<"write", "reserve-20">>, NEW bundle,
         Call(step, bundle), manifest.steps[step].status = "PREPARED"
  PROVE  /\ reservedCredit' = reservedCredit + 20
         /\ UNCHANGED <<policyVars, executedCredit, exposureVars>>
         /\ Reason(20, Reading, now) = "ALLOW"
<1> DEFINE report == manifest.observations["epoch-2"]
           d == [report.decision EXCEPT !.amount = 20]
<1>1. step[1] = "write" /\ step[2] = "reserve-20" /\ ~OnSource(step)
  BY DEF OnSource
<1>2. Reserves("reservation", report, 20) /\ UNCHANGED <<ledgerVars, sourceVars, now>>
  BY <1>1 DEF Call
<1>3. "epoch-2" \in Observed /\ report # NoReport
  BY NamedSteps DEF ScenarioInv, OrderFits
<1>4. "amount" \in DOMAIN report.decision
  BY <1>3 DEF ScenarioInv, ReportsFit
<1> HIDE DEF report
<1>5. d.amount = 20
  BY <1>4
<1>6. Reserve(GateOwner, "reservation", d, Reading, now)
  BY <1>2 DEF Reserves
<1> HIDE DEF d
<1> QED BY <1>2, <1>5, <1>6 DEF Reserve, exposureVars

(* No other call touches the gate. *)
LEMMA OtherCalls ==
  ASSUME NEW step \in Steps, step # <<"write", "reserve-20">>, NEW bundle,
         Call(step, bundle)
  PROVE  UNCHANGED gateVars
<1>1. CASE OnSource(step)
  BY <1>1 DEF Call
<1>2. CASE step[1] \in {"deploy", "submit"}
  <2>1. ~OnSource(step) /\ step[2] \notin {"finalize-1", "finalize-2", "reserve-20"}
    BY <1>2, OtherNames DEF OnSource
  <2> QED BY <1>2, <2>1 DEF Call
<1>3. CASE step[1] = "write" /\ ~OnSource(step)
  <2>1. step = <<"write", step[2]>>
    BY <1>3, ItemsArePairs DEF Steps
  <2>2. step[2] \in {"finalize-1", "finalize-2"}
    BY <1>3, <2>1 DEF OnSource
  <2> QED BY <1>3, <2>2 DEF Call
<1> QED BY <1>1, <1>2, <1>3, ItemsArePairs DEF Steps

LEMMA GateMined ==
  ASSUME ScenarioInv, NEW step \in Steps, Mine(step)
  PROVE  GateFits'
<1> DEFINE r == <<"write", "reserve-20">>
<1>1. PICK fate \in {"SUCCESS", "REVERTED"} :
        /\ mined[step] = "NONE" /\ mined' = [mined EXCEPT ![step] = fate]
        /\ fate = "SUCCESS" => Call(step, manifest.steps[step].bundle)
        /\ fate = "REVERTED" => UNCHANGED <<exposureVars, gateVars>>
        /\ manifest.steps[step].status = "PREPARED"
  BY DEF Mine
<1>2. /\ creditLimit = 60 /\ executedCredit = 0
      /\ reservedCredit = (IF mined[r] = "SUCCESS" THEN 20 ELSE 0)
  BY DEF ScenarioInv, GateFits, Effect
<1>3. \A s \in Steps : mined'[s] = IF s = step THEN fate ELSE mined[s]
  BY <1>1 DEF ScenarioInv, RunInv, FieldsFit
<1>4. r \in Steps
  BY NamedSteps
<1>5. SUFFICES /\ creditLimit' = 60 /\ executedCredit' = 0
               /\ reservedCredit' = (IF mined'[r] = "SUCCESS" THEN 20 ELSE 0)
  BY DEF GateFits, Effect
<1>6. CASE fate = "REVERTED"
  BY <1>1, <1>2, <1>3, <1>4, <1>6 DEF gateVars
<1>7. CASE fate = "SUCCESS" /\ step = r
  <2>1. /\ reservedCredit' = reservedCredit + 20
        /\ UNCHANGED <<policyVars, executedCredit>>
    BY <1>1, <1>7, RunReserves
  <2> QED BY <1>1, <1>2, <1>3, <1>4, <1>7, <2>1 DEF policyVars
<1>8. CASE fate = "SUCCESS" /\ step # r
  <2>1. UNCHANGED gateVars
    BY <1>1, <1>8, OtherCalls
  <2> QED BY <1>2, <1>3, <1>4, <1>8, <2>1 DEF gateVars
<1> QED BY <1>1, <1>6, <1>7, <1>8

(* The chain only grows. *)
LEMMA ChainGrows ==
  ASSUME IInv, ContractStep
  PROVE  /\ Len(receipts) \in Nat /\ Len(receipts') \in Nat /\ Len(receipts) <= Len(receipts')
         /\ txLogs # << >> \/ receipts # << >> => txLogs' # << >> \/ receipts' # << >>
<1>1. SourceTypeOK /\ IInv' /\ SourceTypeOK' /\ Len(receipts) \in Nat /\ Len(receipts') \in Nat
  BY ContractsKeep DEF IInv, TypeOK, SourceTypeOK
<1>2. CASE UNCHANGED <<txLogs, receipts>>
  BY <1>1, <1>2
<1>3. CASE EndTransaction
  <2>1. receipts' = Append(receipts, txLogs)
    BY <1>3 DEF EndTransaction
  <2>2. Len(receipts') = Len(receipts) + 1
    BY <1>1, <2>1 DEF SourceTypeOK
  <2>3. receipts' # << >>
    BY <1>1, <2>2
  <2> QED BY <1>1, <2>2, <2>3
<1>4. ASSUME NEW log, Emit(log)
      PROVE  receipts' = receipts /\ txLogs' # << >>
  <2>1. txLogs' = Append(txLogs, log) /\ receipts' = receipts
    BY <1>4 DEF Emit
  <2>2. Len(txLogs') = Len(txLogs) + 1 /\ Len(txLogs) \in Nat
    BY <1>1, <2>1 DEF SourceTypeOK
  <2> QED BY <2>1, <2>2
<1>5. CASE Source
  <2>1. ASSUME NEW s, NEW id, NEW loan, NEW totals, EmitState(s, id, loan, totals)
        PROVE  \E log : Emit(log)
    BY <2>1 DEF EmitState
  <2>2. ASSUME NEW s, Seal(s) \/ TakeCheckpoint(s) PROVE \E log : Emit(log)
    BY <2>2 DEF Seal, TakeCheckpoint
  <2>3. ASSUME NEW s, NEW id, NEW parties, NEW principal, OpenLoan(s, id, parties, principal)
        PROVE  \E log : Emit(log)
    BY <2>1, <2>3 DEF OpenLoan
  <2>4. ASSUME NEW s, NEW id, NEW amount, Repay(s, id, amount) PROVE \E log : Emit(log)
    BY <2>1, <2>4 DEF Repay
  <2>5. (\E log : Emit(log)) \/ EndTransaction \/ TickSource
    BY <1>5, <2>2, <2>3, <2>4 DEF Source, SourceNext
  <2> QED BY <1>1, <1>2, <1>3, <1>4, <2>5 DEF TickSource
<1> QED BY <1>2, <1>5 DEF ContractStep, Relay, Finalize, Passes, exposureVars, sourceVars

LEMMA ReceiptsKept ==
  ASSUME ScenarioInv, [Next]_vars
  PROVE  ReceiptsFit'
<1>1. /\ Len(receipts) \in Nat /\ Len(receipts') \in Nat /\ Len(receipts) <= Len(receipts')
      /\ txLogs # << >> \/ receipts # << >> => txLogs' # << >> \/ receipts' # << >>
  BY ScenarioMoves, ChainGrows DEF ScenarioInv
<1>2. ASSUME NEW s \in Steps, OnSource(s), mined'[s] = "SUCCESS"
      PROVE  txLogs' # << >> \/ receipts' # << >>
  <2>1. CASE mined[s] = "SUCCESS"
    BY <1>1, <1>2, <2>1 DEF ScenarioInv, ReceiptsFit
  <2>2. CASE mined[s] # "SUCCESS"
    <3>1. PICK step \in Steps : Mine(step)
      <4>1. mined' # mined
        BY <1>2, <2>2
      <4>2. Process => mined' = mined
        BY ProcessWrites DEF ScenarioInv
      <4> QED BY <4>1, <4>2
        DEF Next, Crash, World, FinishSource, Stranger, Delay, Expire, vars, runVars
    <3>2. PICK fate : mined' = [mined EXCEPT ![step] = fate]
      BY <3>1 DEF Mine
    <3>3. step = s /\ fate = "SUCCESS"
      BY <1>2, <2>2, <3>2 DEF ScenarioInv, RunInv, FieldsFit
    <3>4. Call(s, manifest.steps[s].bundle)
      <4>1. \/ Call(step, manifest.steps[step].bundle)
            \/ mined' = [mined EXCEPT ![step] = "REVERTED"]
        BY <3>1 DEF Mine
      <4>2. mined' # [mined EXCEPT ![s] = "REVERTED"]
        BY <1>2 DEF ScenarioInv, RunInv, FieldsFit
      <4> QED BY <3>3, <4>1, <4>2
    <3>5. Sends(s[2])
      BY <1>2, <3>4 DEF Call
    <3> QED BY <3>5, SentIsLogged DEF ScenarioInv, IInv, TypeOK
  <2> QED BY <2>1, <2>2
<1>3. ASSUME NEW s \in Steps, OnSource(s), manifest'.steps[s].status = "CONFIRMED"
      PROVE  manifest'.steps[s].receipt \in 1..Len(receipts')
  <2>1. CASE manifest'.steps[s] = manifest.steps[s]
    <3>1. manifest.steps[s].receipt \in 1..Len(receipts)
      BY <1>3, <2>1 DEF ScenarioInv, ReceiptsFit
    <3> QED BY <1>1, <2>1, <3>1
  <2>2. CASE manifest'.steps[s] # manifest.steps[s]
    <3>1. Process
      BY <2>2, OthersWriteNothing
    <3>2. EntryChanges /\ UNCHANGED exposureVars
      BY <3>1, ProcessWrites DEF ScenarioInv
    <3>3. /\ mined[s] = "SUCCESS" /\ txLogs = << >>
          /\ manifest'.steps[s].receipt = Len(receipts)
      BY <1>3, <2>2, <3>2 DEF EntryChanges
    <3>4. receipts # << >>
      BY <1>3, <3>3 DEF ScenarioInv, ReceiptsFit
    <3>5. Len(receipts) # 0
      BY <3>4 DEF ScenarioInv, IInv, TypeOK, SourceTypeOK
    <3> QED BY <1>1, <3>3, <3>5
  <2> QED BY <2>1, <2>2
<1> QED BY <1>2, <1>3 DEF ReceiptsFit

-----------------------------------------------------------------------------
LEMMA InitScenario == Init => ScenarioInv
<1> SUFFICES ASSUME Init PROVE ScenarioInv
  OBVIOUS
<1>1. ScenarioConstants /\ ExposureInit /\ GateInit
  BY DEF Init
<1>2. RunInv /\ IInv
  BY <1>1, InitRun, InitFits
<1>3. /\ \A s \in Steps : manifest.steps[s].status = "NONE" /\ mined[s] = "NONE"
      /\ \A o \in Observed : manifest.observations[o] = NoReport
  BY DEF Init, NoStep
<1>4. OrderFits
  BY <1>3, ProvenSteps, NamedSteps DEF OrderFits, Sent
<1>5. ReceiptsFit /\ ReportsFit
  BY <1>3 DEF ReceiptsFit, ReportsFit
<1>6. /\ Effect(mined, "A-open", 30) = 0 /\ Effect(mined, "B-open", 20) = 0
      /\ Effect(mined, "B-repay", 10) = 0 /\ Effect(mined, "reserve-20", 20) = 0
  BY <1>3, NamedSteps DEF Effect
<1>7. GateFits
  BY <1>1, <1>6 DEF GateInit, GateFits, ScenarioConstants
<1>8. NoAliases
  BY <1>1 DEF ExposureInit, LedgerInit, NoAliases
<1>9. LoansFit
  <2>1. loans["A"]["A"] = NoLoan /\ loans["B"]["B"] = NoLoan
    BY <1>1, NamedSources DEF ExposureInit, SourceInit
  <2> QED BY <1>6, <2>1 DEF LoansFit, NoLoan
<1> QED BY <1>1, <1>2, <1>4, <1>5, <1>7, <1>8, <1>9 DEF ScenarioInv

LEMMA ScenarioNext ==
  ASSUME ScenarioInv, [Next]_vars
  PROVE  ScenarioInv'
<1>1. RunInv' /\ IInv' /\ ContractStep
  BY RunNext, ScenarioMoves, ContractsKeep DEF ScenarioInv
<1>2. ScenarioConstants'
  BY DEF ScenarioInv, ScenarioConstants, ScenarioEpochs
<1>3. OrderFits' /\ ReportsFit'
  <2>1. CASE Process
    BY <2>1, ProcessWrites, OrderKept, ReportsKept DEF ScenarioInv
  <2>2. CASE ~Process
    <3>1. manifest' = manifest
      BY <2>2, OthersWriteNothing
    <3> QED BY <3>1 DEF ScenarioInv, OrderFits, ReportsFit, Sent
  <2> QED BY <2>1, <2>2
<1>4. ReceiptsFit'
  BY ReceiptsKept
<1>5. GateFits' /\ LoansFit'
  <2>1. ASSUME NEW step \in Steps, Mine(step) PROVE GateFits' /\ LoansFit'
    BY <2>1, GateMined, LoansMined
  <2>2. CASE UNCHANGED <<loans, gateVars, mined>>
    BY <2>2 DEF ScenarioInv, GateFits, LoansFit, gateVars
  <2>3. Process => UNCHANGED <<loans, gateVars, mined>>
    BY ProcessWrites DEF ScenarioInv, exposureVars, sourceVars
  <2>4. Crash \/ FinishSource \/ Stranger \/ Delay \/ Expire \/ UNCHANGED vars
          => UNCHANGED <<loans, gateVars, mined>>
    BY DEF Crash, FinishSource, EndTransaction, Stranger, Relay, Finalize, Delay, Expire,
           vars, runVars, exposureVars, sourceVars
  <2> QED BY <2>1, <2>2, <2>3, <2>4 DEF Next, World
<1>6. NoAliases'
  <2>1. canonicalIds' = canonicalIds
    BY <1>1 DEF ContractStep, Source, Relay, SubmitSourceTransaction, Finalize,
      FinalizeSnapshot, Passes, ledgerVars, exposureVars
  <2> QED BY <2>1 DEF ScenarioInv, NoAliases
<1> QED BY <1>1, <1>2, <1>3, <1>4, <1>5, <1>6 DEF ScenarioInv

LEMMA ScenarioInvariant == Spec => []ScenarioInv
<1>1. Init => ScenarioInv
  BY InitScenario
<1>2. ScenarioInv /\ [Next]_vars => ScenarioInv'
  BY ScenarioNext
<1> QED BY <1>1, <1>2, PTL DEF Spec

(* What the ledger guarantees about the sources it guarantees through the   *)
(* whole scenario, with its kills, expired proofs, delays and strangers:    *)
(* every call the run makes is one the contracts allow for, in a state they *)
(* can be in.                                                               *)
THEOREM ScenarioKeepsLedger ==
  Spec => [](CountsEachDebtOnce /\ SealedNeverUnderstated /\ SnapshotCoversSources)
<1>1. ScenarioInv => CountsEachDebtOnce /\ SealedNeverUnderstated /\ SnapshotCoversSources
  <2> SUFFICES ASSUME ScenarioInv
               PROVE  CountsEachDebtOnce /\ SealedNeverUnderstated /\ SnapshotCoversSources
    OBVIOUS
  <2>1. IInv
    BY DEF ScenarioInv
  <2>2. CountsEachDebtOnce
    BY <2>1 DEF IInv, LedgerFits, DebtsFit, CountsEachDebtOnce
  <2> QED BY <2>1, <2>2, TrueDebtBelow, SnapshotCovers DEF SealedNeverUnderstated
<1> QED BY <1>1, ScenarioInvariant, PTL

(* The page shows every report the run wrote down, also long after the      *)
(* state it was read in is gone (the runs that scripts/serve-ui.js serves). *)
RecordedReportsShown ==
  \A o \in Observed :
    manifest.observations[o] # NoReport => PageShows(manifest.observations[o])

THEOREM ScenarioReportsShown == Spec => []RecordedReportsShown
<1>1. ScenarioInv => RecordedReportsShown
  BY DEF ScenarioInv, ReportsFit, RecordedReportsShown
<1> QED BY <1>1, ScenarioInvariant, PTL

(* The run's reservation, too, is made only if the limit covers what the    *)
(* borrowers owe at the sources, however old the decision it is bound to.   *)
THEOREM ScenarioReservesCovered ==
  Spec => [][reservedCredit' > reservedCredit
               => TrueDebt + reservedCredit' + executedCredit' <= creditLimit]_vars
<1>1. ScenarioInv /\ [Next]_vars =>
        [reservedCredit' > reservedCredit
           => TrueDebt + reservedCredit' + executedCredit' <= creditLimit]_vars
  <2> SUFFICES ASSUME ScenarioInv, [Next]_vars, reservedCredit' > reservedCredit
               PROVE  TrueDebt + reservedCredit' + executedCredit' <= creditLimit
    OBVIOUS
  <2>1. /\ creditLimit \in Nat /\ reservedCredit \in Nat /\ executedCredit \in Nat
        /\ IInv /\ ledger.totalDebt \in Nat
    BY LedgerFields, Numbers DEF ScenarioInv, GateFits, Effect, IInv, LedgerFits
  <2>2. reservedCredit' # reservedCredit
    BY <2>1
  <2>3. PICK step \in Steps : Mine(step)
    <3>1. Process => reservedCredit' = reservedCredit
      BY ProcessWrites DEF ScenarioInv, gateVars
    <3> QED BY <2>2, <3>1
      DEF Next, Crash, World, FinishSource, Stranger, Delay, Expire, vars, gateVars
  <2>4. /\ Call(step, manifest.steps[step].bundle)
        /\ manifest.steps[step].status = "PREPARED"
    BY <2>2, <2>3 DEF Mine, gateVars
  <2>5. step = <<"write", "reserve-20">>
    BY <2>2, <2>4, OtherCalls DEF gateVars
  <2>6. /\ reservedCredit' = reservedCredit + 20 /\ executedCredit' = executedCredit
        /\ Reason(20, Reading, now) = "ALLOW"
    BY <2>4, <2>5, RunReserves
  <2>7. Credit!Reason(20, Reading, now) = "ALLOW"
    BY <2>6 DEF Credit!Reason, Reason, Credit!Fresh, Fresh, Credit!Headroom, Headroom,
      Credit!Minus, Minus
  <2>8. /\ Credit!Fresh(Reading, now)
        /\ ledger.totalDebt + (reservedCredit + 20) + executedCredit <= creditLimit
    BY <2>1, <2>7, Allowed
  <2>9. TrueDebt \in Nat /\ TrueDebt <= ledger.totalDebt
    BY <2>1, <2>8, TrueDebtCovered
  <2> QED BY <2>1, <2>6, <2>8, <2>9
<1> QED BY <1>1, ScenarioInvariant, PTL DEF Spec

(* Each transaction of a complete run took effect, and nothing else did: a  *)
(* step counts as done although the process was killed between sending and  *)
(* writing down, but never because it reverted or a stranger relayed for    *)
(* it.  What is open at the sources is what was opened and repaid, and what *)
(* is reserved is the run's one reservation.  (That a step has at most one  *)
(* transaction is proved of Phase2Run.)                                     *)
CompleteRunTookEffect ==
  manifest.status = "COMPLETE" =>
    /\ loans["A"]["A"].outstanding = 30
    /\ loans["B"]["B"].outstanding = 10
    /\ reservedCredit = 20

THEOREM ScenarioTakesEffectOnce == Spec => []CompleteRunTookEffect
<1>1. ScenarioInv => CompleteRunTookEffect
  <2> SUFFICES ASSUME ScenarioInv, manifest.status = "COMPLETE" PROVE CompleteRunTookEffect
    BY DEF CompleteRunTookEffect
  <2>1. \A s \in Steps : mined[s] = "SUCCESS"
    <3>1. Audit
      BY FinishedRunPasses DEF ScenarioInv
    <3>2. \A s \in Steps : manifest.steps[s].status = "CONFIRMED"
      BY <3>1 DEF Audit, ValidateCompletion
    <3> QED BY <3>2 DEF ScenarioInv, RunInv, EntriesFit
  <2>2. /\ Effect(mined, "A-open", 30) = 30 /\ Effect(mined, "B-open", 20) = 20
        /\ Effect(mined, "B-repay", 10) = 10 /\ Effect(mined, "reserve-20", 20) = 20
    BY <2>1, NamedSteps DEF Effect
  <2> QED BY <2>2 DEF ScenarioInv, LoansFit, GateFits, CompleteRunTookEffect
<1> QED BY <1>1, ScenarioInvariant, PTL
=============================================================================
