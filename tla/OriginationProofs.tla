-------------------------- MODULE OriginationProofs --------------------------
(***************************************************************************)
(* The origination controller over any gate that keeps the promise of      *)
(* CommitmentBook, for any number of institutions, sources and loans.      *)
(***************************************************************************)
EXTENDS Origination, DataLemmas

Records == [OriginationIds -> Origination \cup {NoOrigination}]

LEMMA Numbers ==
  /\ Uint \subseteq Nat /\ 0 \in Uint
  /\ \A n \in Nat : n <= MaxUint => n \in Uint
BY MaxUintAssumption DEF Uint

-----------------------------------------------------------------------------
(* Sums over originations. *)
LEMMA RecordedIs ==
  ASSUME NEW records \in Records, NEW id \in Recorded(records)
  PROVE  /\ records[id] \in Origination /\ records[id].amount \in Nat
         /\ id \in OriginationIds
<1>1. records[id] \in Origination /\ id \in OriginationIds
  BY DEF Records, Recorded
<1> QED BY <1>1, Numbers DEF Origination

LEMMA AmountIsNat ==
  ASSUME NEW records \in Records, NEW ids \in SUBSET Recorded(records), IsFiniteSet(ids)
  PROVE  AmountOf(records, ids) \in Nat
<1> DEFINE f == [id \in ids |-> records[id].amount]
<1>1. \A id \in ids : f[id] \in Nat
  BY RecordedIs
<1> HIDE DEF f
<1>2. SumFunctionOnSet(f, ids) \in Nat
  BY <1>1, SumNat
<1> QED BY <1>2 DEF AmountOf, f

(* One more origination adds its amount. *)
LEMMA AmountGains ==
  ASSUME NEW records \in Records, NEW records2 \in Records,
         NEW ids \in SUBSET Recorded(records), IsFiniteSet(ids),
         NEW new \in Recorded(records2), new \notin ids,
         \A id \in ids : records2[id] = records[id]
  PROVE  /\ AmountOf(records2, ids) = AmountOf(records, ids)
         /\ AmountOf(records2, ids \cup {new})
              = AmountOf(records, ids) + records2[new].amount
<1> DEFINE f == [id \in ids |-> records[id].amount]
           more == ids \cup {new}
           f2 == [id \in more |-> records2[id].amount]
<1>1. [id \in ids |-> records2[id].amount] = f
  OBVIOUS
<1>2. AmountOf(records2, ids) = SumFunctionOnSet(f, ids)
  BY <1>1 DEF AmountOf
<1>3. AmountOf(records, ids) = SumFunctionOnSet(f, ids)
  BY DEF AmountOf
<1>4. AmountOf(records2, more) = SumFunctionOnSet(f2, more)
  BY DEF AmountOf
<1>5. /\ IsFiniteSet(more) /\ more \ {new} = ids /\ new \in more
      /\ f2[new] = records2[new].amount
      /\ \A id \in ids : f2[id] = f[id]
  BY FS_AddElement
<1>6. (\A id \in ids : f[id] \in Nat) /\ f2[new] \in Nat
  BY <1>5, RecordedIs
<1>7. SumFunctionOnSet(f, ids) \in Nat
  <2> HIDE DEF f
  <2> QED BY <1>6, SumNat
<1> HIDE DEF f, f2, more
<1>8. \A id \in more : f2[id] \in Nat
  BY <1>5, <1>6
<1>9. SumFunctionOnSet(f2, more) = f2[new] + SumFunctionOnSet(f2, ids)
  BY <1>5, <1>8, SumSplit
<1>10. SumFunctionOnSet(f2, ids) = SumFunctionOnSet(f, ids)
  BY <1>5, SumSame
<1>11. AmountOf(records2, more) = AmountOf(records, ids) + records2[new].amount
  BY <1>3, <1>4, <1>5, <1>6, <1>7, <1>9, <1>10
<1> QED BY <1>2, <1>3, <1>11 DEF more

-----------------------------------------------------------------------------
(* The gate and the owner. *)
LEMMA BookStays == ASSUME BookTypeOK, [BookNext]_commitments PROVE BookTypeOK'
<1>1. ASSUME NEW c \in Commitments, Reserved(c) PROVE BookTypeOK'
  BY <1>1 DEF Reserved, BookTypeOK, Lifecycle
<1>2. ASSUME NEW c \in Commitments, Executed(c) PROVE BookTypeOK'
  BY <1>2 DEF Executed, BookTypeOK, Lifecycle
<1>3. ASSUME NEW c \in Commitments, Repaid(c) PROVE BookTypeOK'
  <2>1. PICK left \in 0..(commitments[c].amount - 1) :
          commitments' = [commitments EXCEPT
            ![c] = [status |-> IF left = 0 THEN "CLOSED" ELSE "EXECUTED",
                    amount |-> left]]
    BY <1>3 DEF Repaid
  <2>2. commitments[c].amount \in Uint
    BY DEF BookTypeOK
  <2>3. left \in Uint
    BY <2>1, <2>2, MaxUintAssumption DEF Uint
  <2> QED BY <2>1, <2>3 DEF BookTypeOK, Lifecycle
<1>4. CASE UNCHANGED commitments
  BY <1>4 DEF BookTypeOK
<1> QED BY <1>1, <1>2, <1>3, <1>4 DEF BookNext

(* What is recorded and charged stays, quotas move. *)
LEMMA RecordsStay ==
  ASSUME IInv, BookTypeOK', UNCHANGED recordVars, quotaVersion' \in Nat,
         institutions' \subseteq Institutions, quota' \in [QuotaKeys -> Uint],
         \A k \in QuotaKeys : quotaUsed[k] <= quota'[k]
  PROVE  IInv'
<1>1. /\ quotaUsed' = quotaUsed /\ totalOriginated' = totalOriginated
      /\ originations' = originations /\ usedProofIds' = usedProofIds
      /\ commitmentConsumed' = commitmentConsumed
  BY DEF recordVars
<1>2. OriginationTypeOK'
  BY <1>1 DEF IInv, OriginationTypeOK, ControllerTypeOK
<1>3. QuotasAddUp'
  BY <1>1 DEF IInv, QuotasAddUp, AmountOf, CountsAgainst, Recorded
<1> QED BY <1>1, <1>2, <1>3 DEF IInv, Recorded

LEMMA OwnerKeeps ==
  ASSUME IInv, OwnerMoves
  PROVE  IInv' /\ UNCHANGED <<commitments, originations>>
<1>1. BookTypeOK' /\ commitments' = commitments
  BY DEF OwnerMoves, IInv, OriginationTypeOK, BookTypeOK
<1>2. /\ quota \in [QuotaKeys -> Uint] /\ quotaVersion \in Nat
      /\ institutions \subseteq Institutions
      /\ \A k \in QuotaKeys : quotaUsed[k] <= quota[k]
  BY DEF IInv, OriginationTypeOK, ControllerTypeOK, QuotasAddUp
<1>3. ASSUME NEW i \in Institutions, NEW authorized \in BOOLEAN,
             SetInstitution(i, authorized)
      PROVE  IInv' /\ UNCHANGED recordVars
  <2>1. /\ quota' = quota /\ UNCHANGED recordVars /\ quotaVersion' \in Nat
        /\ institutions' \subseteq Institutions
    BY <1>2, <1>3 DEF SetInstitution
  <2> QED BY <1>1, <1>2, <2>1, RecordsStay
<1>4. ASSUME NEW k \in QuotaKeys, NEW limit \in QuotaLimits, SetQuota(k, limit)
      PROVE  IInv' /\ UNCHANGED recordVars
  <2>1. /\ quotaUsed[k] <= limit /\ quota' = [quota EXCEPT ![k] = limit]
        /\ institutions' = institutions /\ UNCHANGED recordVars
        /\ quotaVersion' \in Nat /\ limit \in Uint
    BY <1>2, <1>4, ControllerConstants DEF SetQuota
  <2>2. quota' \in [QuotaKeys -> Uint] /\ \A j \in QuotaKeys : quotaUsed[j] <= quota'[j]
    BY <1>2, <2>1
  <2> QED BY <1>1, <1>2, <2>1, <2>2, RecordsStay
<1> QED BY <1>1, <1>3, <1>4 DEF OwnerMoves, recordVars

-----------------------------------------------------------------------------
(* An origination. *)
Added(id, r, records, records2) ==
  /\ id \in OriginationIds
  /\ records[id] = NoOrigination
  /\ r \in Origination
  /\ records2 = [records EXCEPT ![id] = r]

LEMMA AddedIsRecorded ==
  ASSUME NEW records \in Records, NEW id, NEW r, NEW records2, Added(id, r, records, records2)
  PROVE  /\ records2 \in Records
         /\ id \notin Recorded(records) /\ id \in Recorded(records2)
         /\ Recorded(records2) = Recorded(records) \cup {id}
         /\ records2[id] = r
         /\ \A other \in Recorded(records) : records2[other] = records[other]
<1>1. /\ records2 \in Records /\ records2[id] = r
      /\ \A other \in OriginationIds \ {id} : records2[other] = records[other]
  BY DEF Added, Records
<1>2. r # NoOrigination
  BY NoOriginationAssumption DEF Added
<1> QED BY <1>1, <1>2 DEF Added, Recorded

LEMMA AddedAgainst ==
  ASSUME NEW records \in Records, NEW id, NEW r, NEW records2, Added(id, r, records, records2),
         NEW k
  PROVE  /\ k \in Charged(r.institution, r.sourceKey)
              => CountsAgainst(records2, k) = CountsAgainst(records, k) \cup {id}
         /\ k \notin Charged(r.institution, r.sourceKey)
              => CountsAgainst(records2, k) = CountsAgainst(records, k)
BY AddedIsRecorded DEF CountsAgainst

LEMMA AddedAmounts ==
  ASSUME NEW records \in Records, IsFiniteSet(Recorded(records)),
         NEW id, NEW r, NEW records2, Added(id, r, records, records2)
  PROVE  /\ AmountOf(records2, Recorded(records2))
              = AmountOf(records, Recorded(records)) + r.amount
         /\ \A k : AmountOf(records2, CountsAgainst(records2, k))
              = AmountOf(records, CountsAgainst(records, k))
                  + (IF k \in Charged(r.institution, r.sourceKey) THEN r.amount ELSE 0)
<1>1. /\ records2 \in Records /\ id \notin Recorded(records) /\ id \in Recorded(records2)
      /\ Recorded(records2) = Recorded(records) \cup {id} /\ records2[id] = r
      /\ \A other \in Recorded(records) : records2[other] = records[other]
  BY AddedIsRecorded
<1>2. AmountOf(records2, Recorded(records2))
        = AmountOf(records, Recorded(records)) + r.amount
  BY <1>1, AmountGains
<1>3. ASSUME NEW k
      PROVE  AmountOf(records2, CountsAgainst(records2, k))
               = AmountOf(records, CountsAgainst(records, k))
                   + (IF k \in Charged(r.institution, r.sourceKey) THEN r.amount ELSE 0)
  <2> DEFINE ids == CountsAgainst(records, k)
  <2>1. ids \in SUBSET Recorded(records)
    BY DEF CountsAgainst
  <2>2. IsFiniteSet(ids)
    BY <2>1, FS_Subset
  <2>3. AmountOf(records, ids) \in Nat
    BY <2>1, <2>2, AmountIsNat
  <2> HIDE DEF ids
  <2>4. /\ AmountOf(records2, ids) = AmountOf(records, ids)
        /\ AmountOf(records2, ids \cup {id}) = AmountOf(records, ids) + r.amount
    BY <1>1, <2>1, <2>2, AmountGains
  <2>5. CASE k \in Charged(r.institution, r.sourceKey)
    <3>1. CountsAgainst(records2, k) = ids \cup {id}
      BY <2>5, AddedAgainst DEF ids
    <3> QED BY <2>4, <2>5, <3>1 DEF ids
  <2>6. CASE k \notin Charged(r.institution, r.sourceKey)
    <3>1. CountsAgainst(records2, k) = ids
      BY <2>6, AddedAgainst DEF ids
    <3> QED BY <2>3, <2>4, <2>6, <3>1 DEF ids
  <2> QED BY <2>5, <2>6
<1> QED BY <1>2, <1>3

LEMMA OriginateKeeps ==
  ASSUME IInv, NEW i \in Institutions, NEW c \in Commitments, NEW s \in SourceKeys,
         NEW l \in Loans, NEW b \in Borrowers, NEW amount \in Uint,
         NEW p \in OriginationProofs, Originate(i, c, s, l, b, amount, p), UNCHANGED commitments
  PROVE  IInv'
<1> DEFINE id == <<c, s, l>>
           r == [institution |-> i, sourceKey |-> s, borrower |-> b,
                 amount |-> amount, proof |-> p]
<1>1. /\ OriginationTypeOK /\ QuotasAddUp /\ IsFiniteSet(Recorded(originations))
      /\ \A other \in Recorded(originations) : originations[other].amount # 0
      /\ commitmentConsumed = {other[1] : other \in Recorded(originations)}
  BY DEF IInv
<1>2. amount \in Uint /\ amount \in Nat
  BY Numbers
<1>3. id \in OriginationIds /\ id[1] = c
  BY ControllerConstants
<1>4. /\ amount # 0 /\ originations[id] = NoOrigination
      /\ \A k \in Charged(i, s) : amount <= quota[k] - quotaUsed[k]
      /\ totalOriginated + amount <= MaxUint
      /\ quotaUsed' = [k \in QuotaKeys |->
           IF k \in Charged(i, s) THEN quotaUsed[k] + amount ELSE quotaUsed[k]]
      /\ totalOriginated' = totalOriginated + amount
      /\ usedProofIds' = usedProofIds \cup {p}
      /\ commitmentConsumed' = commitmentConsumed \cup {c}
      /\ originations' = [originations EXCEPT ![id] = r]
      /\ quotaVersion' = quotaVersion /\ institutions' = institutions /\ quota' = quota
  BY DEF Originate, AcceptsOrigination, UsedWith, quotaVars
<1>5. /\ quotaVersion \in Nat /\ institutions \subseteq Institutions
      /\ quota \in [QuotaKeys -> Uint] /\ quotaUsed \in [QuotaKeys -> Uint]
      /\ totalOriginated \in Uint /\ originations \in Records
      /\ usedProofIds \subseteq OriginationProofs
      /\ commitmentConsumed \subseteq Commitments
  BY <1>1 DEF OriginationTypeOK, ControllerTypeOK, Records
<1>6. r \in Origination
  BY <1>2 DEF Origination
<1>7. /\ r.institution = i /\ r.sourceKey = s /\ r.amount = amount
  OBVIOUS
<1> HIDE DEF id, r
<1>8. Added(id, r, originations, originations')
  BY <1>3, <1>4, <1>6 DEF Added
<1>9. /\ originations' \in Records
      /\ Recorded(originations') = Recorded(originations) \cup {id}
      /\ originations'[id] = r
      /\ \A other \in Recorded(originations) : originations'[other] = originations[other]
  BY <1>5, <1>8, AddedIsRecorded
<1>10. /\ AmountOf(originations', Recorded(originations'))
            = AmountOf(originations, Recorded(originations)) + amount
       /\ \A k : AmountOf(originations', CountsAgainst(originations', k))
            = AmountOf(originations, CountsAgainst(originations, k))
                + (IF k \in Charged(i, s) THEN amount ELSE 0)
  BY <1>1, <1>5, <1>7, <1>8, AddedAmounts
<1>11. \A k \in QuotaKeys :
         /\ quotaUsed[k] \in Nat /\ quota[k] \in Nat /\ quotaUsed[k] <= quota[k]
         /\ quota[k] <= MaxUint
         /\ quotaUsed[k] = AmountOf(originations, CountsAgainst(originations, k))
  BY <1>1, <1>5, MaxUintAssumption DEF QuotasAddUp, Uint
<1>12. ASSUME NEW k \in QuotaKeys
       PROVE  /\ quotaUsed'[k] \in Uint /\ quotaUsed'[k] <= quota'[k]
              /\ quotaUsed'[k] = AmountOf(originations', CountsAgainst(originations', k))
  <2>1. CASE k \in Charged(i, s)
    <3>1. quotaUsed'[k] = quotaUsed[k] + amount /\ amount <= quota[k] - quotaUsed[k]
      BY <1>4, <2>1
    <3>2. /\ quotaUsed'[k] \in Nat /\ quotaUsed'[k] <= quota[k]
          /\ quotaUsed'[k] <= MaxUint
      BY <1>2, <1>11, <3>1, MaxUintAssumption
    <3>3. AmountOf(originations', CountsAgainst(originations', k))
            = AmountOf(originations, CountsAgainst(originations, k)) + amount
      BY <1>10, <2>1
    <3>4. AmountOf(originations', CountsAgainst(originations', k)) = quotaUsed'[k]
      BY <1>11, <3>1, <3>3
    <3> QED BY <1>4, <3>2, <3>4, Numbers
  <2>2. CASE k \notin Charged(i, s)
    <3>1. quotaUsed'[k] = quotaUsed[k]
      BY <1>4, <2>2
    <3>2. AmountOf(originations', CountsAgainst(originations', k))
            = AmountOf(originations, CountsAgainst(originations, k)) + 0
      BY <1>10, <2>2
    <3>3. AmountOf(originations', CountsAgainst(originations', k)) = quotaUsed'[k]
      BY <1>11, <3>1, <3>2
    <3> QED BY <1>4, <1>5, <1>11, <3>1, <3>3
  <2> QED BY <2>1, <2>2
<1>13. totalOriginated' \in Uint
       /\ totalOriginated' = AmountOf(originations', Recorded(originations'))
  <2>1. totalOriginated = AmountOf(originations, Recorded(originations))
    BY <1>1 DEF QuotasAddUp
  <2>2. totalOriginated \in Nat
    BY <1>5, Numbers
  <2>3. totalOriginated' \in Nat /\ totalOriginated' <= MaxUint
    BY <1>2, <1>4, <2>2
  <2> QED BY <1>4, <1>10, <2>1, <2>3, Numbers
<1>14. QuotasAddUp'
  BY <1>12, <1>13 DEF QuotasAddUp
<1>15. quotaUsed' \in [QuotaKeys -> Uint]
  <2>1. quotaUsed' = [k \in QuotaKeys |-> quotaUsed'[k]]
    BY <1>4
  <2> QED BY <1>12, <2>1
<1>16. OriginationTypeOK'
  <2>1. BookTypeOK'
    BY <1>1 DEF OriginationTypeOK, BookTypeOK
  <2>2. ControllerTypeOK'
    BY <1>4, <1>5, <1>9, <1>13, <1>15 DEF ControllerTypeOK, Records
  <2> QED BY <2>1, <2>2 DEF OriginationTypeOK
<1>17. IsFiniteSet(Recorded(originations'))
  BY <1>1, <1>9, FS_AddElement
<1>18. \A other \in Recorded(originations') : originations'[other].amount # 0
  BY <1>1, <1>4, <1>7, <1>9
<1>19. commitmentConsumed' = {other[1] : other \in Recorded(originations')}
  BY <1>1, <1>3, <1>4, <1>9
<1> QED BY <1>14, <1>16, <1>17, <1>18, <1>19 DEF IInv

-----------------------------------------------------------------------------
(* The specification. *)
LEMMA NothingAmounts ==
  ASSUME NEW records PROVE AmountOf(records, {}) = 0
<1> DEFINE f == [id \in {} |-> records[id].amount]
<1>1. IsFiniteSet({})
  BY FS_EmptySet
<1>2. SumFunctionOnSet(f, {}) = 0
  <2> HIDE DEF f
  <2> QED BY <1>1, SumStep
<1> QED BY <1>2 DEF AmountOf, f

LEMMA InitInv == ASSUME OriginationInit PROVE IInv
<1>1. /\ quotaVersion = 1 /\ institutions = {ControllerOwner}
      /\ quota = [k \in QuotaKeys |-> 0] /\ quotaUsed = [k \in QuotaKeys |-> 0]
      /\ totalOriginated = 0
      /\ originations = [id \in OriginationIds |-> NoOrigination]
      /\ usedProofIds = {} /\ commitmentConsumed = {}
  BY DEF OriginationInit, ControllerInit
<1>2. Recorded(originations) = {}
  BY <1>1 DEF Recorded
<1>3. \A k \in QuotaKeys : CountsAgainst(originations, k) = {}
  BY <1>2 DEF CountsAgainst
<1>4. QuotasAddUp
  <2>1. AmountOf(originations, {}) = 0
    BY NothingAmounts
  <2> QED BY <1>1, <1>2, <1>3, <2>1 DEF QuotasAddUp
<1>5. OriginationTypeOK
  <2>1. BookTypeOK
    BY Numbers DEF OriginationInit, BookInit, BookTypeOK, Lifecycle
  <2>2. ControllerTypeOK
    BY <1>1, Numbers, ControllerConstants DEF ControllerTypeOK
  <2> QED BY <2>1, <2>2 DEF OriginationTypeOK
<1> QED BY <1>1, <1>2, <1>4, <1>5, FS_EmptySet DEF IInv

LEMMA GateKeeps == ASSUME IInv, [BookNext]_commitments, UNCHANGED controllerVars PROVE IInv'
<1>1. BookTypeOK'
  BY BookStays DEF IInv, OriginationTypeOK
<1>2. /\ quotaVersion' = quotaVersion /\ institutions' = institutions
      /\ quota' = quota /\ UNCHANGED recordVars
  BY DEF controllerVars, quotaVars, recordVars
<1>3. /\ quota \in [QuotaKeys -> Uint] /\ quotaVersion \in Nat
      /\ institutions \subseteq Institutions
      /\ \A k \in QuotaKeys : quotaUsed[k] <= quota[k]
  BY DEF IInv, OriginationTypeOK, ControllerTypeOK, QuotasAddUp
<1> QED BY <1>1, <1>2, <1>3, RecordsStay

LEMMA StepInv == ASSUME IInv, [OriginationNext]_originationVars PROVE IInv'
<1>1. CASE GateMoves
  BY <1>1, GateKeeps DEF GateMoves
<1>2. CASE OwnerMoves
  BY <1>2, OwnerKeeps
<1>3. CASE InstitutionMoves
  BY <1>3, OriginateKeeps DEF InstitutionMoves
<1>4. CASE UNCHANGED originationVars
  BY <1>4, GateKeeps DEF originationVars
<1> QED BY <1>1, <1>2, <1>3, <1>4 DEF OriginationNext

(* However the gate executes and repays commitments, the owner moves        *)
(* quotas and institutions originate, the invariant of the controller holds. *)
THEOREM Invariance == OriginationSpec => []IInv
<1>1. OriginationInit => IInv
  BY InitInv
<1>2. IInv /\ [OriginationNext]_originationVars => IInv'
  BY StepInv
<1> QED BY <1>1, <1>2, PTL DEF OriginationSpec

(* The controller's state and the gate's commitments keep their types: no   *)
(* quota used and no total ever leaves the width of a Solidity integer.     *)
THEOREM TypeCorrect == OriginationSpec => []OriginationTypeOK
<1>1. IInv => OriginationTypeOK
  BY DEF IInv
<1> QED BY <1>1, Invariance, PTL

(* originate charges its three quotas and the total with exactly what it    *)
(* records, and no sequence of originations, repayments and lowered limits  *)
(* takes a quota beyond its limit.                                          *)
THEOREM QuotasKept == OriginationSpec => []QuotasAddUp
<1>1. IInv => QuotasAddUp
  BY DEF IInv
<1> QED BY <1>1, Invariance, PTL

-----------------------------------------------------------------------------
(* The refinement of Obligations. *)
Obligation(record) ==
  IF record = NoOrigination THEN NoOrigination
  ELSE [recipient |-> record.borrower, amount |-> record.amount]

Mapped(records) == [id \in OriginationIds |-> Obligation(records[id])]

LEMMA MappedIs ==
  /\ Recording!ObligationsInit
       <=> Mapped(originations) = [id \in OriginationIds |-> NoOrigination]
  /\ Recording!Originations
       = {id \in OriginationIds : Mapped(originations)[id] # NoOrigination}
  /\ Recording!Terms = Terms
BY DEF Recording!ObligationsInit, Recording!Originations, Recording!Terms, Terms,
       Recording!Uint, Uint, Mapped, Obligation

LEMMA MappedInit == ASSUME OriginationInit PROVE Recording!ObligationsInit
<1>1. originations = [id \in OriginationIds |-> NoOrigination]
  BY DEF OriginationInit, ControllerInit
<1>2. Mapped(originations) = [id \in OriginationIds |-> NoOrigination]
  BY <1>1 DEF Mapped, Obligation
<1> QED BY <1>2, MappedIs

LEMMA OriginateRecords ==
  ASSUME IInv, NEW i \in Institutions, NEW c \in Commitments, NEW s \in SourceKeys,
         NEW l \in Loans, NEW b \in Borrowers, NEW amount \in Uint,
         NEW p \in OriginationProofs, Originate(i, c, s, l, b, amount, p)
  PROVE  /\ Recording!Originated(<<c, s, l>>) /\ <<c, s, l>> \in OriginationIds
         /\ \A id \in OriginationIds : originations'[id] # originations[id] =>
              commitments[id[1]] = [status |-> "EXECUTED",
                                    amount |-> originations'[id].amount]
<1> DEFINE id == <<c, s, l>>
           r == [institution |-> i, sourceKey |-> s, borrower |-> b,
                 amount |-> amount, proof |-> p]
           terms == [recipient |-> b, amount |-> amount]
<1>1. /\ amount # 0 /\ commitments[c].status = "EXECUTED" /\ amount = commitments[c].amount
      /\ c \notin commitmentConsumed
      /\ originations' = [originations EXCEPT ![id] = r]
  BY DEF Originate, AcceptsOrigination
<1>2. /\ originations \in [OriginationIds -> Origination \cup {NoOrigination}]
      /\ commitmentConsumed = {other[1] : other \in Recorded(originations)}
      /\ commitments \in [Commitments -> [status : Lifecycle, amount : Uint]]
  BY DEF IInv, OriginationTypeOK, ControllerTypeOK, BookTypeOK
<1>3. id \in OriginationIds /\ id[1] = c
  BY ControllerConstants
<1>4. amount \in Uint \ {0}
  BY <1>1, <1>2
<1>5. r \in Origination /\ r.borrower = b /\ r.amount = amount
  BY <1>4 DEF Origination
<1>6. terms \in Terms
  BY <1>4 DEF Terms
<1>7. commitments[c] = [status |-> "EXECUTED", amount |-> amount]
  BY <1>1, <1>2
<1> HIDE DEF id, r
<1>8. Obligation(r) = terms
  BY <1>5, NoOriginationAssumption DEF Obligation
<1>9. Mapped(originations') = [Mapped(originations) EXCEPT ![id] = terms]
  BY <1>1, <1>2, <1>3, <1>8 DEF Mapped
<1>10. ASSUME NEW other \in Recording!Originations PROVE other[1] # id[1]
  <2>1. other \in Recorded(originations)
    BY MappedIs DEF Mapped, Obligation, Recorded
  <2> QED BY <1>1, <1>2, <1>3, <2>1
<1> HIDE DEF terms
<1>11. Recording!Originated(id)
  <2>1. \E t \in Recording!Terms :
          Mapped(originations') = [Mapped(originations) EXCEPT ![id] = t]
    BY <1>6, <1>9, MappedIs
  <2>2. /\ \A other \in Recording!Originations : other[1] # id[1]
        /\ \E t \in Recording!Terms :
             Mapped(originations') = [Mapped(originations) EXCEPT ![id] = t]
    BY <1>10, <2>1
  <2> QED BY <2>2 DEF Recording!Originated, Mapped, Obligation
<1>12. ASSUME NEW other \in OriginationIds, originations'[other] # originations[other]
       PROVE  commitments[other[1]] = [status |-> "EXECUTED",
                                       amount |-> originations'[other].amount]
  <2>1. other = id
    BY <1>1, <1>2, <1>3, <1>12
  <2>2. originations'[other] = r
    BY <1>1, <1>2, <1>3, <2>1
  <2> QED BY <1>3, <1>5, <1>7, <2>1, <2>2
<1> QED BY <1>3, <1>11, <1>12 DEF id

(* Each step records one origination as Obligations promises it, or none. *)
LEMMA StepRecords ==
  ASSUME IInv, [OriginationNext]_originationVars
  PROVE  /\ Recording!ObligationsNext \/ Mapped(originations') = Mapped(originations)
         /\ \A id \in OriginationIds : originations'[id] # originations[id] =>
              commitments[id[1]] = [status |-> "EXECUTED",
                                    amount |-> originations'[id].amount]
<1>1. ASSUME originations' = originations
      PROVE  /\ Mapped(originations') = Mapped(originations)
             /\ \A id \in OriginationIds : originations'[id] = originations[id]
  BY <1>1
<1>2. CASE GateMoves
  BY <1>1, <1>2 DEF GateMoves, controllerVars, recordVars
<1>3. CASE OwnerMoves
  BY <1>1, <1>3, OwnerKeeps
<1>4. CASE InstitutionMoves
  <2>1. PICK i \in Institutions, c \in Commitments, s \in SourceKeys, l \in Loans,
             b \in Borrowers, amount \in Uint, p \in OriginationProofs :
               Originate(i, c, s, l, b, amount, p)
    BY <1>4 DEF InstitutionMoves
  <2> QED BY <2>1, OriginateRecords DEF Recording!ObligationsNext
<1>5. CASE UNCHANGED originationVars
  BY <1>1, <1>5 DEF originationVars, controllerVars, recordVars
<1> QED BY <1>2, <1>3, <1>4, <1>5 DEF OriginationNext

(* What originate records implements Obligations: one obligation at most per *)
(* commitment, over exactly what is left of it while it is executed, and     *)
(* never changed.                                                            *)
THEOREM RecordedOnce == OriginationSpec => RecordsOnce
<1>1. OriginationInit => Recording!ObligationsInit
  BY MappedInit
<1>2. IInv /\ [OriginationNext]_originationVars =>
        [Recording!ObligationsNext]_([id \in OriginationIds |->
          IF originations[id] = NoOrigination THEN NoOrigination
          ELSE [recipient |-> originations[id].borrower,
                amount |-> originations[id].amount]])
  BY StepRecords DEF Mapped, Obligation
<1>3. IInv /\ [OriginationNext]_originationVars =>
        [\A id \in OriginationIds : originations'[id] # originations[id] =>
           commitments[id[1]] = [status |-> "EXECUTED",
                                 amount |-> originations'[id].amount]]_originationVars
  BY StepRecords
<1> QED BY <1>1, <1>2, <1>3, Invariance, PTL
         DEF OriginationSpec, RecordsOnce, Recording!ObligationsSpec
=============================================================================
