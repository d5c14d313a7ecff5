------------------------ MODULE ExposureCreditProofs ------------------------
(***************************************************************************)
(* The gate over any ledger that keeps its promise, for every limit and    *)
(* any number of commitments, proof references and holders.                *)
(***************************************************************************)
EXTENDS ExposureCredit, DataLemmas

USE MaxUintAssumption, ReadingConstants, GateConstants

-----------------------------------------------------------------------------
(* The shape of the state the sums are taken over. *)
Commits == [Commitments -> [amount : Uint, snapshotId : Nat]]
Statuses == [Commitments -> Lifecycle]
Bindings == [ProofIds -> ProofUse \cup {NoUse}]

LEMMA NatOfUint == Uint \subseteq Nat /\ 0 \in Uint
BY DEF Uint

(* When one commitment changes, a total moves by what that commitment had  *)
(* and has in it.                                                          *)
LEMMA LeftChange ==
  ASSUME NEW res \in Commits, NEW res2 \in Commits,
         NEW st \in Statuses, NEW st2 \in Statuses,
         NEW c \in Commitments, NEW s,
         \A d \in Commitments \ {c} : res2[d] = res[d] /\ st2[d] = st[d]
  PROVE  Left(res2, st2, s) + (IF st[c] = s THEN res[c].amount ELSE 0)
           = Left(res, st, s) + (IF st2[c] = s THEN res2[c].amount ELSE 0)
<1> DEFINE f == [d \in Commitments |-> res[d].amount]
           f2 == [d \in Commitments |-> res2[d].amount]
           S == {d \in Commitments : st[d] = s}
           S2 == {d \in Commitments : st2[d] = s}
<1>1. IsFiniteSet(S) /\ IsFiniteSet(S2)
  BY FS_Subset
<1>2. (\A d \in S : f[d] \in Nat) /\ (\A d \in S2 : f2[d] \in Nat)
  BY NatOfUint DEF Commits
<1>3. S \ {c} = S2 \ {c} /\ \A d \in S \ {c} : f[d] = f2[d]
  OBVIOUS
<1>4. /\ Left(res, st, s) = SumFunctionOnSet(f, S)
      /\ Left(res2, st2, s) = SumFunctionOnSet(f2, S2)
  BY DEF Left
<1>5. /\ (IF st[c] = s THEN res[c].amount ELSE 0) = (IF c \in S THEN f[c] ELSE 0)
      /\ (IF st2[c] = s THEN res2[c].amount ELSE 0) = (IF c \in S2 THEN f2[c] ELSE 0)
  OBVIOUS
<1> HIDE DEF f, f2, S, S2
<1>6. SumFunctionOnSet(f2, S2) + (IF c \in S THEN f[c] ELSE 0)
        = SumFunctionOnSet(f, S) + (IF c \in S2 THEN f2[c] ELSE 0)
  BY <1>1, <1>2, <1>3, SumOneChange
<1> QED BY <1>4, <1>5, <1>6

(* A total is a natural and holds each of its commitments. *)
LEMMA LeftBounds ==
  ASSUME NEW res \in Commits, NEW st \in Statuses, NEW s
  PROVE  /\ Left(res, st, s) \in Nat
         /\ \A c \in Commitments :
              st[c] = s => res[c].amount <= Left(res, st, s)
<1> DEFINE f == [d \in Commitments |-> res[d].amount]
           S == {d \in Commitments : st[d] = s}
<1>1. IsFiniteSet(S)
  BY FS_Subset
<1>2. \A d \in S : f[d] \in Nat
  BY NatOfUint DEF Commits
<1>3. Left(res, st, s) = SumFunctionOnSet(f, S)
  BY DEF Left
<1>4. \A c \in Commitments : st[c] = s => c \in S /\ f[c] = res[c].amount
  OBVIOUS
<1> HIDE DEF f, S
<1>5. SumFunctionOnSet(f, S) \in Nat
  BY <1>1, <1>2, SumNat
<1>6. \A c \in S : f[c] <= SumFunctionOnSet(f, S)
  BY <1>1, <1>2, SumBounds
<1> QED BY <1>3, <1>4, <1>5, <1>6

(* Binding a fresh proof reference moves its amount for one commitment. *)
LEMMA MovedChange ==
  ASSUME NEW b \in Bindings, NEW p \in ProofIds, b[p] = NoUse,
         NEW use \in ProofUse, NEW c \in Commitments, NEW kind
  PROVE  Moved([b EXCEPT ![p] = use], c, kind)
           = Moved(b, c, kind)
               + (IF use.commitment = c /\ use.kind = kind THEN use.amount ELSE 0)
<1> DEFINE b2 == [b EXCEPT ![p] = use]
           S == Uses(b, c, kind)
           S2 == Uses(b2, c, kind)
           f == [q \in S |-> b[q].amount]
           f2 == [q \in S2 |-> b2[q].amount]
<1>1. b2 \in Bindings /\ b2[p] = use /\ use # NoUse
      /\ \A q \in ProofIds \ {p} : b2[q] = b[q]
  BY DEF Bindings
<1> HIDE DEF b2
<1>2. S \in SUBSET ProofIds /\ S2 \in SUBSET ProofIds
  BY DEF Uses
<1>3. IsFiniteSet(S) /\ IsFiniteSet(S2)
  BY <1>2, FS_Subset
<1>4. \A q \in S : f[q] \in Nat
  BY NatOfUint DEF Bindings, Uses, ProofUse
<1>5. \A q \in S2 : f2[q] \in Nat
  BY <1>1, NatOfUint DEF Bindings, Uses, ProofUse
<1>6. S \ {p} = S2 \ {p}
  BY <1>1 DEF Uses
<1>7. \A q \in S \ {p} : f[q] = f2[q]
  BY <1>1, <1>2, <1>6
<1>8. p \notin S
  BY DEF Uses
<1>9. /\ p \in S2 <=> use.commitment = c /\ use.kind = kind
      /\ p \in S2 => f2[p] = use.amount
  BY <1>1 DEF Uses
<1>10. /\ Moved(b, c, kind) = SumFunctionOnSet(f, S)
       /\ Moved(b2, c, kind) = SumFunctionOnSet(f2, S2)
  BY DEF Moved
<1> HIDE DEF S, S2, f, f2
<1>11. SumFunctionOnSet(f2, S2) + (IF p \in S THEN f[p] ELSE 0)
         = SumFunctionOnSet(f, S) + (IF p \in S2 THEN f2[p] ELSE 0)
  BY <1>3, <1>4, <1>5, <1>6, <1>7, SumOneChange
<1>12. SumFunctionOnSet(f, S) \in Nat /\ SumFunctionOnSet(f2, S2) \in Nat
  BY <1>3, <1>4, <1>5, SumNat
<1>13. Moved(b2, c, kind) = Moved(b, c, kind) + (IF p \in S2 THEN f2[p] ELSE 0)
  BY <1>8, <1>10, <1>11, <1>12
<1>14. (IF p \in S2 THEN f2[p] ELSE 0)
         = (IF use.commitment = c /\ use.kind = kind THEN use.amount ELSE 0)
  BY <1>9
<1> QED BY <1>13, <1>14 DEF b2

LEMMA MovedNat ==
  ASSUME NEW b \in Bindings, NEW c, NEW kind
  PROVE  /\ Moved(b, c, kind) \in Nat
         /\ Uses(b, c, kind) = {} => Moved(b, c, kind) = 0
<1> DEFINE S == Uses(b, c, kind)
           f == [q \in S |-> b[q].amount]
<1>1. IsFiniteSet(S)
  BY FS_Subset DEF Uses
<1>2. \A q \in S : f[q] \in Nat
  BY NatOfUint DEF Bindings, Uses, ProofUse
<1>3. Moved(b, c, kind) = SumFunctionOnSet(f, S)
  BY DEF Moved
<1> HIDE DEF S, f
<1>4. SumFunctionOnSet(f, S) \in Nat /\ (S = {} => SumFunctionOnSet(f, S) = 0)
  BY <1>1, <1>2, SumNat, SumStep
<1> QED BY <1>3, <1>4 DEF S

-----------------------------------------------------------------------------
(* The decision part: whatever a step changes, it either advances one of   *)
(* the three versions a decision carries, or changes no amount.            *)
ReadingTypes ==
  reading \in LedgerReading /\ now \in Nat /\ policyVersion \in Nat
    /\ reservationVersion \in Nat

HeldTypes == held \in [Holders -> DecisionView \cup {NoDecision}]

Advances ==
  /\ ExposureStateVersion(reading)' >= ExposureStateVersion(reading)
  /\ policyVersion' >= policyVersion
  /\ reading'.snapshotId >= reading.snapshotId
  /\ \/ ExposureStateVersion(reading)' > ExposureStateVersion(reading)
     \/ policyVersion' > policyVersion
     \/ reading'.snapshotId > reading.snapshotId

LEMMA DecisionsKept ==
  ASSUME ReadingTypes, ReadingTypes', HeldTypes, HeldBehind, held' = held, Advances
  PROVE  HeldBehind' /\ VersionsPinDecision'
<1>1. /\ ExposureStateVersion(reading) \in Nat
      /\ ExposureStateVersion(reading)' \in Nat
      /\ reading.snapshotId \in Nat /\ reading'.snapshotId \in Nat
      /\ policyVersion \in Nat /\ policyVersion' \in Nat
  BY DEF ReadingTypes, LedgerReading, ExposureStateVersion
<1>2. ASSUME NEW h \in Holders, held[h] # NoDecision
      PROVE  /\ held[h].exposureStateVersion \in Nat
             /\ held[h].policyVersion \in Nat /\ held[h].snapshotId \in Nat
             /\ held[h].exposureStateVersion <= ExposureStateVersion(reading)
             /\ held[h].policyVersion <= policyVersion
             /\ held[h].snapshotId <= reading.snapshotId
  <2>1. held[h] \in DecisionView
    BY <1>2 DEF HeldTypes
  <2> QED BY <1>2, <2>1 DEF HeldBehind, DecisionView
<1>3. HeldBehind'
  BY <1>1, <1>2 DEF HeldBehind, Advances
<1>4. ASSUME NEW h \in Holders, held[h] # NoDecision
      PROVE  ~ ( /\ held[h].exposureStateVersion = ExposureStateVersion(reading)'
                 /\ held[h].policyVersion = policyVersion'
                 /\ held[h].snapshotId = reading'.snapshotId )
  BY <1>1, <1>2, <1>4 DEF Advances
<1>5. VersionsPinDecision'
  BY <1>4 DEF VersionsPinDecision, Decision
<1> QED BY <1>3, <1>5

-----------------------------------------------------------------------------
LEMMA InitInv == CreditInit => IInv
<1> SUFFICES ASSUME CreditInit PROVE IInv
  OBVIOUS
<1> USE DEF CreditInit, ReadingInit, GateInit
<1>1. reading \in LedgerReading /\ now \in Nat
  BY NatOfUint DEF LedgerReading
<1>2. reservations \in Commits /\ reservationStatus \in Statuses
      /\ proofBinding \in Bindings
  BY NatOfUint DEF Commits, Statuses, Lifecycle, Bindings
<1>3. GateTypeOK
  BY <1>2, NatOfUint DEF GateTypeOK, Commits, Statuses, Bindings
<1>4. CreditTypeOK
  BY <1>1, <1>3 DEF CreditTypeOK
<1>5. HeldBehind /\ VersionsPinDecision
  BY DEF HeldBehind, VersionsPinDecision
<1>6. BoundToExecuted /\ CreditFits
  BY DEF BoundToExecuted, CreditFits
<1>7. CreditAddsUp
  <2>1. ASSUME NEW s \in {"RESERVED", "EXECUTED"}
        PROVE  Left(reservations, reservationStatus, s) = 0
    <3> DEFINE f == [c \in Commitments |-> reservations[c].amount]
               S == {c \in Commitments : reservationStatus[c] = s}
    <3>1. S = {}
      OBVIOUS
    <3>2. Left(reservations, reservationStatus, s) = SumFunctionOnSet(f, S)
      BY DEF Left
    <3>3. IsFiniteSet(S)
      BY FS_Subset
    <3> HIDE DEF f, S
    <3> QED BY <3>1, <3>2, <3>3, SumStep
  <2>2. \A c \in Commitments : reservationStatus[c] \notin {"EXECUTED", "CLOSED"}
    OBVIOUS
  <2> QED BY <2>1, <2>2 DEF CreditAddsUp
<1> QED BY <1>4, <1>5, <1>6, <1>7 DEF IInv

(* The ledger changes nothing the credit part reads. *)
LEMMA LedgerPreserves == IInv /\ LedgerStep => IInv'
<1> SUFFICES ASSUME IInv, LedgerStep PROVE IInv'
  OBVIOUS
<1>1. UNCHANGED <<gateVars, held>>
  BY DEF LedgerStep
<1>2. GateTypeOK' /\ HeldTypes /\ HeldTypes' /\ ReadingTypes
  BY <1>1 DEF IInv, CreditTypeOK, GateTypeOK, gateVars, HeldTypes, ReadingTypes
<1>3. BoundToExecuted' /\ CreditFits' /\ CreditAddsUp'
  BY <1>1 DEF IInv, gateVars, BoundToExecuted, CreditFits, CreditAddsUp
<1>4. CASE Ingest
  <2>1. reading' \in LedgerReading /\ now' \in Nat
        /\ reading'.stateVersion > reading.stateVersion
        /\ reading'.snapshotId = reading.snapshotId
    <3>1. PICK version \in (reading.stateVersion + 1)..MaxLedgerVersion, debt \in Uint :
            reading' = [reading EXCEPT !.stateVersion = version,
                                       !.totalDebt = debt,
                                       !.snapshotComplete = FALSE]
      BY <1>4 DEF Ingest
    <3>2. reading \in LedgerReading /\ now' = now /\ now \in Nat
      BY <1>4, <1>2 DEF Ingest, ReadingTypes
    <3>3. reading.stateVersion \in Nat /\ version \in Nat /\ version > reading.stateVersion
      BY <3>2 DEF LedgerReading
    <3> QED BY <3>1, <3>2, <3>3 DEF LedgerReading
  <2>2. ReadingTypes' /\ Advances
    BY <1>1, <1>2, <2>1
    DEF ReadingTypes, Advances, ExposureStateVersion, gateVars, LedgerReading
  <2> QED BY <1>1, <1>2, <1>3, <2>1, <2>2, DecisionsKept
          DEF IInv, CreditTypeOK, HeldTypes
<1>5. CASE Certify
  <2>1. reading' \in LedgerReading /\ now' \in Nat
        /\ reading'.stateVersion = reading.stateVersion
        /\ reading'.snapshotId > reading.snapshotId
    <3>1. PICK id \in (reading.snapshotId + 1)..MaxEpoch, expiry \in now..(now + MaxAge) :
            reading' = [reading EXCEPT !.snapshotId = id,
                                       !.snapshotComplete = TRUE,
                                       !.validUntil = expiry]
      BY <1>5 DEF Certify
    <3>2. reading \in LedgerReading /\ now' = now /\ now \in Nat
      BY <1>5, <1>2 DEF Certify, ReadingTypes
    <3>3. reading.snapshotId \in Nat /\ id \in Nat /\ id > reading.snapshotId
          /\ expiry \in Nat
      BY <3>2 DEF LedgerReading
    <3> QED BY <3>1, <3>2, <3>3 DEF LedgerReading
  <2>2. ReadingTypes' /\ Advances
    BY <1>1, <1>2, <2>1
    DEF ReadingTypes, Advances, ExposureStateVersion, gateVars, LedgerReading
  <2> QED BY <1>1, <1>2, <1>3, <2>1, <2>2, DecisionsKept
          DEF IInv, CreditTypeOK, HeldTypes
<1>6. CASE Pass
  <2>1. reading' = reading /\ now' \in Nat
    BY <1>6, <1>2 DEF Pass, ReadingTypes
  <2>2. HeldBehind'
    BY <1>1, <2>1 DEF IInv, HeldBehind, ExposureStateVersion, gateVars
  <2>3. VersionsPinDecision'
    <3>1. /\ ExposureStateVersion(reading)' = ExposureStateVersion(reading)
          /\ Headroom(reading)' = Headroom(reading)
      BY <1>1, <2>1 DEF Headroom, ExposureStateVersion, gateVars
    <3>2. UNCHANGED <<held, reading, reservedCredit, executedCredit, policyVersion>>
      BY <1>1, <2>1 DEF gateVars
    <3>3. ASSUME NEW h \in Holders, held[h] # NoDecision,
                 held[h].exposureStateVersion = ExposureStateVersion(reading),
                 held[h].policyVersion = policyVersion,
                 held[h].snapshotId = reading.snapshotId
          PROVE  held[h] = [Decision(held[h].amount, reading, now)'
                              EXCEPT !.reason = held[h].reason]
      <4>1. held[h] = [Decision(held[h].amount, reading, now)
                         EXCEPT !.reason = held[h].reason]
        BY <3>3 DEF IInv, VersionsPinDecision, Decision
      <4> QED BY <3>1, <3>2, <4>1 DEF Decision
    <3> QED BY <3>1, <3>2, <3>3 DEF VersionsPinDecision, Decision
  <2> QED BY <1>1, <1>2, <1>3, <2>1, <2>2, <2>3
          DEF IInv, CreditTypeOK, HeldTypes, ReadingTypes
<1> QED BY <1>4, <1>5, <1>6 DEF LedgerStep, ReadingNext

LEMMA PoliciesPreserve == IInv /\ SetPolicies => IInv'
<1> SUFFICES ASSUME IInv, SetPolicies PROVE IInv'
  OBVIOUS
<1>1. UNCHANGED <<readingVars, creditVars, held>>
      /\ policyVersion' = policyVersion + 1
  BY DEF SetPolicies, SetAllocator, SetExecutor, SetPolicy, creditVars
<1>2. GateTypeOK
  BY DEF IInv, CreditTypeOK
<1>3. creditLimit' \in Uint \ {0} /\ allocators' \subseteq Accounts
      /\ executors' \subseteq Accounts
  BY <1>2 DEF SetPolicies, SetAllocator, SetExecutor, SetPolicy, Authorized,
              GateTypeOK
<1>4. GateTypeOK'
  BY <1>1, <1>2, <1>3 DEF GateTypeOK, creditVars
<1>5. CreditTypeOK' /\ HeldTypes /\ ReadingTypes /\ ReadingTypes'
  BY <1>1, <1>4 DEF IInv, CreditTypeOK, HeldTypes, ReadingTypes, readingVars, GateTypeOK
<1>6. Advances
  BY <1>1, <1>5
  DEF Advances, ReadingTypes, ExposureStateVersion, creditVars, readingVars, LedgerReading
<1>7. HeldBehind' /\ VersionsPinDecision'
  BY <1>1, <1>5, <1>6, DecisionsKept DEF IInv
<1>8. BoundToExecuted' /\ CreditFits' /\ CreditAddsUp'
  BY <1>1 DEF IInv, creditVars, BoundToExecuted, CreditFits, CreditAddsUp
<1> QED BY <1>5, <1>7, <1>8 DEF IInv

LEMMA ObservePreserves ==
  ASSUME NEW h \in Holders PROVE IInv /\ Observe(h) => IInv'
<1> SUFFICES ASSUME IInv, Observe(h) PROVE IInv'
  OBVIOUS
<1>1. PICK amount \in Uint :
        held' = [held EXCEPT ![h] = Decision(amount, reading, now)]
  BY DEF Observe
<1>2. UNCHANGED <<readingVars, gateVars>>
  BY DEF Observe
<1>3. CreditTypeOK
  BY DEF IInv
<1>4. Headroom(reading) \in Uint /\ ExposureStateVersion(reading) \in Nat
  <2>1. /\ creditLimit \in Nat /\ creditLimit <= MaxUint
        /\ reading.totalDebt \in Nat /\ reservedCredit \in Nat
        /\ executedCredit \in Nat
        /\ reading.stateVersion \in Nat /\ reservationVersion \in Nat
    BY <1>3 DEF CreditTypeOK, GateTypeOK, LedgerReading, Uint
  <2> QED BY <2>1 DEF Headroom, Minus, ExposureStateVersion, Uint
<1>5. Decision(amount, reading, now) \in DecisionView
  <2>1. Reason(amount, reading, now)
          \in {"COVERAGE_INCOMPLETE", "SNAPSHOT_STALE", "ZERO_AMOUNT",
               "OVER_LIMIT", "ALLOW"}
    BY DEF Reason
  <2>2. /\ reading.totalDebt \in Uint /\ reservedCredit \in Uint
        /\ executedCredit \in Uint /\ policyVersion \in Nat
        /\ reading.snapshotId \in Nat
    BY <1>3 DEF CreditTypeOK, GateTypeOK, LedgerReading
  <2> QED BY <1>4, <2>1, <2>2 DEF Decision, DecisionView
<1>6. held' \in [Holders -> DecisionView \cup {NoDecision}]
  BY <1>1, <1>3, <1>5 DEF CreditTypeOK
<1>7. CreditTypeOK'
  BY <1>2, <1>3, <1>6 DEF CreditTypeOK, GateTypeOK, readingVars, gateVars
<1>8. \A g \in Holders : held'[g] =
        IF g = h THEN Decision(amount, reading, now) ELSE held[g]
  BY <1>1, <1>3 DEF CreditTypeOK
<1>9. HeldBehind'
  <2>1. policyVersion \in Nat /\ reading.snapshotId \in Nat
    BY <1>3 DEF CreditTypeOK, GateTypeOK, LedgerReading
  <2>2. /\ ExposureStateVersion(reading)' = ExposureStateVersion(reading)
        /\ UNCHANGED <<policyVersion, reading>>
    BY <1>2 DEF ExposureStateVersion, readingVars, gateVars
  <2>3. HeldBehind
    BY DEF IInv
  <2> QED BY <1>4, <1>8, <2>1, <2>2, <2>3 DEF HeldBehind, Decision
<1>10. VersionsPinDecision'
  <2>1. /\ ExposureStateVersion(reading)' = ExposureStateVersion(reading)
        /\ Headroom(reading)' = Headroom(reading)
        /\ UNCHANGED <<reading, reservedCredit, executedCredit, policyVersion, now>>
    BY <1>2 DEF ExposureStateVersion, Headroom, readingVars, gateVars
  <2>2. ASSUME NEW g \in Holders, held'[g] # NoDecision,
               held'[g].exposureStateVersion = ExposureStateVersion(reading),
               held'[g].policyVersion = policyVersion,
               held'[g].snapshotId = reading.snapshotId
        PROVE  held'[g] = [Decision(held[g].amount, reading, now)'
                             EXCEPT !.reason = held'[g].reason]
    <3>1. held'[g] = [Decision(held'[g].amount, reading, now)
                        EXCEPT !.reason = held'[g].reason]
      <4>1. CASE g = h
        BY <1>8, <4>1 DEF Decision
      <4>2. CASE g # h
        BY <1>8, <2>2, <4>2 DEF IInv, VersionsPinDecision, Decision
      <4> QED BY <4>1, <4>2
    <3> QED BY <2>1, <3>1 DEF Decision
  <2> QED BY <2>1, <2>2 DEF VersionsPinDecision, Decision
<1>11. BoundToExecuted' /\ CreditFits' /\ CreditAddsUp'
  BY <1>2 DEF IInv, gateVars, BoundToExecuted, CreditFits, CreditAddsUp
<1> QED BY <1>7, <1>9, <1>10, <1>11 DEF IInv

-----------------------------------------------------------------------------
(* Reservations, executions and repayments: the versions advance, and the  *)
(* totals follow the one commitment that changes.                          *)

(* What a step that changes credit has to establish. *)
CreditPart ==
  /\ reservedCredit \in Uint /\ executedCredit \in Uint
  /\ reservations \in Commits /\ reservationStatus \in Statuses
  /\ proofBinding \in Bindings
  /\ BoundToExecuted /\ CreditFits /\ CreditAddsUp

LEMMA CreditPartHolds == IInv => CreditPart
BY DEF IInv, CreditPart, CreditTypeOK, GateTypeOK, Commits, Statuses, Bindings

LEMMA CreditStep ==
  ASSUME IInv, CreditPart', UNCHANGED <<readingVars, policyVars, held>>,
         reservationVersion' = reservationVersion + 1
  PROVE  IInv'
<1>1. CreditTypeOK
  BY DEF IInv
<1>2. CreditTypeOK'
  BY <1>1 DEF CreditTypeOK, GateTypeOK, CreditPart, Commits, Statuses, Bindings,
              readingVars, policyVars
<1>3. HeldTypes /\ ReadingTypes /\ ReadingTypes'
  BY <1>1, <1>2 DEF CreditTypeOK, GateTypeOK, HeldTypes, ReadingTypes
<1>4. Advances
  BY <1>3 DEF Advances, ReadingTypes, LedgerReading, ExposureStateVersion,
              readingVars, policyVars
<1>5. HeldBehind' /\ VersionsPinDecision'
  BY <1>3, <1>4, DecisionsKept DEF IInv
<1> QED BY <1>2, <1>5 DEF IInv, CreditPart

LEMMA ReservePreserves ==
  ASSUME NEW h \in Holders PROVE IInv /\ ReserveHeld(h) => IInv'
<1> SUFFICES ASSUME IInv, ReserveHeld(h) PROVE IInv'
  OBVIOUS
<1>1. PICK by \in Accounts, c \in Commitments : Reserve(by, c, held[h], reading, now)
  BY DEF ReserveHeld
<1> DEFINE amount == held[h].amount
           entry == [amount |-> amount, snapshotId |-> reading.snapshotId]
<1>2. /\ UNCHANGED <<readingVars, policyVars, held>>
      /\ reservationVersion' = reservationVersion + 1
  BY <1>1 DEF ReserveHeld, Reserve, policyVars
<1>3. CreditPart /\ CreditTypeOK
  BY CreditPartHolds DEF IInv
<1>4. amount \in Uint /\ reading.snapshotId \in Nat
  BY <1>3 DEF CreditTypeOK, ReserveHeld, DecisionView, LedgerReading
<1> HIDE DEF amount
<1>5. reservationStatus[c] = "NONE" /\ amount # 0 /\ amount <= Headroom(reading)
  <2>1. reservationStatus[c] = "NONE" /\ Reason(amount, reading, now) = "ALLOW"
    BY <1>1 DEF Reserve, amount
  <2>2. /\ reading.snapshotComplete \in BOOLEAN /\ reading.validUntil \in Nat
        /\ now \in Nat /\ amount \in Nat /\ Headroom(reading) \in Int
    BY <1>3, <1>4 DEF CreditTypeOK, LedgerReading, GateTypeOK, Uint, Headroom, Minus
  <2> QED BY <2>1, <2>2 DEF Reason, Fresh
<1>6. /\ reservedCredit' = reservedCredit + amount
      /\ executedCredit' = executedCredit /\ proofBinding' = proofBinding
      /\ reservations' = [reservations EXCEPT ![c] = entry]
      /\ reservationStatus' = [reservationStatus EXCEPT ![c] = "RESERVED"]
  BY <1>1 DEF Reserve, amount
<1>7. reservedCredit' + executedCredit' <= MaxUint /\ reservedCredit' \in Uint
  <2>1. /\ creditLimit \in Nat /\ creditLimit <= MaxUint
        /\ reading.totalDebt \in Nat /\ reservedCredit \in Nat
        /\ executedCredit \in Nat /\ amount \in Nat
    BY <1>3, <1>4 DEF CreditTypeOK, GateTypeOK, LedgerReading, Uint
  <2>2. amount + reservedCredit + executedCredit <= creditLimit
    BY <1>5, <2>1 DEF Headroom, Minus
  <2> QED BY <1>6, <2>1, <2>2 DEF Uint
<1>8. reservations' \in Commits /\ reservationStatus' \in Statuses
  BY <1>3, <1>4, <1>6 DEF CreditPart, Commits, Statuses, Lifecycle
<1>9. /\ reservations'[c].amount = amount /\ reservationStatus'[c] = "RESERVED"
      /\ \A d \in Commitments \ {c} : /\ reservations'[d] = reservations[d]
                                      /\ reservationStatus'[d] = reservationStatus[d]
  BY <1>3, <1>6 DEF CreditPart, Commits, Statuses
<1>10. ASSUME NEW s \in {"RESERVED", "EXECUTED"}
       PROVE  Left(reservations', reservationStatus', s)
                = Left(reservations, reservationStatus, s)
                    + (IF s = "RESERVED" THEN amount ELSE 0)
  <2>1. Left(reservations', reservationStatus', s)
          + (IF reservationStatus[c] = s THEN reservations[c].amount ELSE 0)
        = Left(reservations, reservationStatus, s)
          + (IF reservationStatus'[c] = s THEN reservations'[c].amount ELSE 0)
    BY <1>3, <1>8, <1>9, LeftChange DEF CreditPart
  <2>2. Left(reservations', reservationStatus', s) \in Nat
    BY <1>8, LeftBounds
  <2> QED BY <1>5, <1>9, <2>1, <2>2
<1>11. CreditAddsUp'
  <2>1. /\ reservedCredit = Left(reservations, reservationStatus, "RESERVED")
        /\ executedCredit = Left(reservations, reservationStatus, "EXECUTED")
    BY <1>3 DEF CreditPart, CreditAddsUp
  <2>2. reservedCredit' = Left(reservations', reservationStatus', "RESERVED")
    BY <1>6, <1>10, <2>1
  <2>3. executedCredit' = Left(reservations', reservationStatus', "EXECUTED")
    <3>1. executedCredit \in Nat
      BY <1>3, NatOfUint DEF CreditPart
    <3> QED BY <1>6, <1>10, <2>1, <3>1
  <2>4. \A d \in Commitments : reservationStatus'[d] \in {"EXECUTED", "CLOSED"}
          => d # c
    BY <1>9
  <2> QED BY <1>3, <1>6, <1>9, <2>2, <2>3, <2>4 DEF CreditPart, CreditAddsUp
<1>12. BoundToExecuted'
  BY <1>3, <1>5, <1>6, <1>9 DEF CreditPart, BoundToExecuted, Bindings, ProofUse
<1>13. CreditPart'
  BY <1>3, <1>6, <1>7, <1>8, <1>11, <1>12 DEF CreditPart, CreditFits
<1> QED BY <1>2, <1>13, CreditStep

LEMMA ExecutePreserves ==
  ASSUME NEW h \in Holders PROVE IInv /\ ExecuteHeld(h) => IInv'
<1> SUFFICES ASSUME IInv, ExecuteHeld(h) PROVE IInv'
  OBVIOUS
<1>1. PICK by \in Accounts, c \in Commitments, p \in ProofIds :
        ExecuteReservation(by, c, p, held[h].exposureStateVersion, reading, now)
  BY DEF ExecuteHeld
<1> DEFINE amount == reservations[c].amount
           use == [kind |-> "EXECUTE", commitment |-> c, amount |-> amount,
                   snapshotId |-> reservations[c].snapshotId]
<1>2. /\ UNCHANGED <<readingVars, policyVars, held>>
      /\ reservationVersion' = reservationVersion + 1
  BY <1>1 DEF ExecuteHeld, ExecuteReservation, policyVars
<1>3. CreditPart
  BY CreditPartHolds
<1>4. amount \in Nat /\ amount \in Uint /\ use \in ProofUse
  BY <1>3, NatOfUint DEF CreditPart, Commits, ProofUse
<1>5. reservationStatus[c] = "RESERVED" /\ proofBinding[p] = NoUse
  BY <1>1 DEF ExecuteReservation, MayUse
<1>6. /\ reservedCredit' = reservedCredit - amount
      /\ executedCredit' = executedCredit + amount
      /\ reservations' = reservations
      /\ reservationStatus' = [reservationStatus EXCEPT ![c] = "EXECUTED"]
      /\ proofBinding' = [proofBinding EXCEPT ![p] = use]
  BY <1>1 DEF ExecuteReservation, Bind
<1> HIDE DEF use
<1>7. /\ reservationStatus' \in Statuses /\ proofBinding' \in Bindings
      /\ proofBinding'[p] = use
      /\ \A q \in ProofIds \ {p} : proofBinding'[q] = proofBinding[q]
      /\ reservationStatus'[c] = "EXECUTED"
      /\ \A d \in Commitments \ {c} : reservationStatus'[d] = reservationStatus[d]
  BY <1>3, <1>4, <1>6 DEF CreditPart, Statuses, Bindings, Lifecycle
<1>8. /\ reservedCredit = Left(reservations, reservationStatus, "RESERVED")
      /\ executedCredit = Left(reservations, reservationStatus, "EXECUTED")
      /\ amount <= reservedCredit
      /\ reservedCredit \in Nat /\ executedCredit \in Nat
      /\ reservedCredit + executedCredit <= MaxUint
  BY <1>3, <1>5, LeftBounds, NatOfUint DEF CreditPart, CreditAddsUp, CreditFits
<1>9. /\ reservedCredit' \in Uint /\ executedCredit' \in Uint
      /\ reservedCredit' + executedCredit' <= MaxUint
  BY <1>4, <1>6, <1>8 DEF Uint
<1>10. ASSUME NEW s \in {"RESERVED", "EXECUTED"}
       PROVE  Left(reservations', reservationStatus', s)
                + (IF s = "RESERVED" THEN amount ELSE 0)
                = Left(reservations, reservationStatus, s)
                    + (IF s = "EXECUTED" THEN amount ELSE 0)
  <2>1. Left(reservations', reservationStatus', s)
          + (IF reservationStatus[c] = s THEN reservations[c].amount ELSE 0)
        = Left(reservations, reservationStatus, s)
          + (IF reservationStatus'[c] = s THEN reservations'[c].amount ELSE 0)
    <3>1. /\ reservations \in Commits /\ reservations' \in Commits
          /\ \A d \in Commitments \ {c} : reservations'[d] = reservations[d]
      BY <1>3, <1>6 DEF CreditPart
    <3>2. reservationStatus \in Statuses
      BY <1>3 DEF CreditPart
    <3> QED BY <3>1, <3>2, <1>7, LeftChange
  <2> QED BY <1>5, <1>6, <1>7, <2>1
<1>11. /\ Left(reservations', reservationStatus', "RESERVED") \in Nat
       /\ Left(reservations', reservationStatus', "EXECUTED") \in Nat
  BY <1>3, <1>6, <1>7, LeftBounds DEF CreditPart
<1>12. reservedCredit' = Left(reservations', reservationStatus', "RESERVED")
  BY <1>4, <1>6, <1>8, <1>10, <1>11
<1>13. executedCredit' = Left(reservations', reservationStatus', "EXECUTED")
  BY <1>4, <1>6, <1>8, <1>10, <1>11
<1>14. ASSUME NEW d \in Commitments, reservationStatus'[d] \in {"EXECUTED", "CLOSED"}
       PROVE  reservations'[d].amount = Moved(proofBinding', d, "EXECUTE")
                                          - Moved(proofBinding', d, "REPAY")
  <2>1. ASSUME NEW kind
        PROVE  Moved(proofBinding', d, kind)
                 = Moved(proofBinding, d, kind)
                     + (IF use.commitment = d /\ use.kind = kind
                        THEN use.amount ELSE 0)
    <3>1. proofBinding \in Bindings
      BY <1>3 DEF CreditPart
    <3>2. Moved([proofBinding EXCEPT ![p] = use], d, kind)
            = Moved(proofBinding, d, kind)
                + (IF use.commitment = d /\ use.kind = kind
                   THEN use.amount ELSE 0)
      BY <3>1, <1>4, <1>5, MovedChange
    <3> QED BY <3>2, <1>6
  <2>2. /\ Moved(proofBinding, d, "EXECUTE") \in Nat
        /\ Moved(proofBinding, d, "REPAY") \in Nat
    BY <1>3, MovedNat DEF CreditPart
  <2>3. use.commitment = c /\ use.kind = "EXECUTE" /\ use.amount = amount
    BY DEF use
  <2>4. CASE d = c
    <3>1. \A kind : Uses(proofBinding, c, kind) = {}
      BY <1>3, <1>5 DEF CreditPart, BoundToExecuted, Uses
    <3>2. /\ Moved(proofBinding, d, "EXECUTE") = 0
          /\ Moved(proofBinding, d, "REPAY") = 0
      BY <1>3, <2>4, <3>1, MovedNat DEF CreditPart
    <3>3. /\ Moved(proofBinding', d, "EXECUTE") = amount
          /\ Moved(proofBinding', d, "REPAY") = 0
      BY <1>4, <2>1, <2>3, <2>4, <3>2
    <3> QED BY <1>4, <1>6, <2>4, <3>3
  <2>5. CASE d # c
    <3>1. reservations[d].amount = Moved(proofBinding, d, "EXECUTE")
                                     - Moved(proofBinding, d, "REPAY")
      BY <1>3, <1>7, <1>14, <2>5 DEF CreditPart, CreditAddsUp
    <3>2. /\ Moved(proofBinding', d, "EXECUTE") = Moved(proofBinding, d, "EXECUTE")
          /\ Moved(proofBinding', d, "REPAY") = Moved(proofBinding, d, "REPAY")
      BY <2>1, <2>2, <2>3, <2>5
    <3> QED BY <1>6, <3>1, <3>2
  <2> QED BY <2>4, <2>5
<1>15. CreditAddsUp'
  BY <1>12, <1>13, <1>14 DEF CreditAddsUp
<1>16. BoundToExecuted'
  <2>1. use.commitment = c
    BY DEF use
  <2> QED BY <1>3, <1>7, <2>1 DEF CreditPart, BoundToExecuted, Bindings, ProofUse
<1>17. CreditPart'
  BY <1>3, <1>6, <1>7, <1>9, <1>15, <1>16 DEF CreditPart, CreditFits
<1> QED BY <1>2, <1>17, CreditStep

LEMMA RepayPreserves ==
  ASSUME NEW h \in Holders PROVE IInv /\ RepayHeld(h) => IInv'
<1> SUFFICES ASSUME IInv, RepayHeld(h) PROVE IInv'
  OBVIOUS
<1>1. PICK by \in Accounts, c \in Commitments, p \in ProofIds, amount \in Uint :
        RepayExecution(by, c, amount, p, held[h].exposureStateVersion, reading, now)
  BY DEF RepayHeld
<1> DEFINE use == [kind |-> "REPAY", commitment |-> c, amount |-> amount,
                   snapshotId |-> reservations[c].snapshotId]
           old == reservations[c].amount
<1>2. /\ UNCHANGED <<readingVars, policyVars, held>>
      /\ reservationVersion' = reservationVersion + 1
  BY <1>1 DEF RepayHeld, RepayExecution, policyVars
<1>3. CreditPart
  BY CreditPartHolds
<1>4. amount \in Nat /\ old \in Nat /\ old \in Uint /\ use \in ProofUse
  BY <1>3, NatOfUint DEF CreditPart, Commits, ProofUse
<1>5. /\ reservationStatus[c] = "EXECUTED" /\ proofBinding[p] = NoUse
      /\ amount # 0 /\ amount <= old
  BY <1>1 DEF RepayExecution, MayUse
<1>6. /\ reservedCredit' = reservedCredit
      /\ executedCredit' = executedCredit - amount
      /\ reservations' = [reservations EXCEPT ![c].amount = @ - amount]
      /\ reservationStatus' = [reservationStatus EXCEPT
             ![c] = IF old = amount THEN "CLOSED" ELSE @]
      /\ proofBinding' = [proofBinding EXCEPT ![p] = use]
  BY <1>1 DEF RepayExecution, Bind, StatusAfter
<1> HIDE DEF use
<1>7. /\ reservationStatus' \in Statuses /\ proofBinding' \in Bindings
      /\ proofBinding'[p] = use
      /\ \A q \in ProofIds \ {p} : proofBinding'[q] = proofBinding[q]
      /\ reservationStatus'[c] = IF old = amount THEN "CLOSED" ELSE "EXECUTED"
      /\ \A d \in Commitments \ {c} : reservationStatus'[d] = reservationStatus[d]
  BY <1>3, <1>4, <1>5, <1>6 DEF CreditPart, Statuses, Bindings, Lifecycle
<1>8. /\ reservations' \in Commits /\ reservations'[c].amount = old - amount
      /\ \A d \in Commitments \ {c} : reservations'[d] = reservations[d]
  <2>1. old - amount \in Uint
    BY <1>4, <1>5 DEF Uint
  <2> QED BY <1>3, <1>6, <2>1 DEF CreditPart, Commits
<1>9. /\ reservedCredit = Left(reservations, reservationStatus, "RESERVED")
      /\ executedCredit = Left(reservations, reservationStatus, "EXECUTED")
      /\ old <= executedCredit
      /\ reservedCredit \in Nat /\ executedCredit \in Nat
      /\ reservedCredit + executedCredit <= MaxUint
  BY <1>3, <1>5, LeftBounds, NatOfUint DEF CreditPart, CreditAddsUp, CreditFits
<1> HIDE DEF old
<1>10. /\ reservedCredit' \in Uint /\ executedCredit' \in Uint
       /\ reservedCredit' + executedCredit' <= MaxUint
  BY <1>4, <1>5, <1>6, <1>9 DEF Uint
<1>11. ASSUME NEW s \in {"RESERVED", "EXECUTED"}
       PROVE  Left(reservations', reservationStatus', s)
                + (IF s = "EXECUTED" THEN old ELSE 0)
                = Left(reservations, reservationStatus, s)
                    + (IF s = "EXECUTED" THEN old - amount ELSE 0)
  <2>1. Left(reservations', reservationStatus', s)
          + (IF reservationStatus[c] = s THEN reservations[c].amount ELSE 0)
        = Left(reservations, reservationStatus, s)
          + (IF reservationStatus'[c] = s THEN reservations'[c].amount ELSE 0)
    BY <1>3, <1>7, <1>8, LeftChange DEF CreditPart
  <2> QED BY <1>4, <1>5, <1>7, <1>8, <2>1 DEF old
<1>12. /\ Left(reservations', reservationStatus', "RESERVED") \in Nat
       /\ Left(reservations', reservationStatus', "EXECUTED") \in Nat
  BY <1>7, <1>8, LeftBounds
<1>13. reservedCredit' = Left(reservations', reservationStatus', "RESERVED")
  BY <1>6, <1>9, <1>11, <1>12
<1>14. executedCredit' = Left(reservations', reservationStatus', "EXECUTED")
  BY <1>4, <1>6, <1>9, <1>11, <1>12
<1>15. ASSUME NEW d \in Commitments, reservationStatus'[d] \in {"EXECUTED", "CLOSED"}
       PROVE  reservations'[d].amount = Moved(proofBinding', d, "EXECUTE")
                                          - Moved(proofBinding', d, "REPAY")
  <2>1. ASSUME NEW kind
        PROVE  Moved(proofBinding', d, kind)
                 = Moved(proofBinding, d, kind)
                     + (IF use.commitment = d /\ use.kind = kind
                        THEN use.amount ELSE 0)
    <3>1. proofBinding \in Bindings
      BY <1>3 DEF CreditPart
    <3>2. Moved([proofBinding EXCEPT ![p] = use], d, kind)
            = Moved(proofBinding, d, kind)
                + (IF use.commitment = d /\ use.kind = kind
                   THEN use.amount ELSE 0)
      BY <3>1, <1>4, <1>5, MovedChange
    <3> QED BY <3>2, <1>6
  <2>2. /\ Moved(proofBinding, d, "EXECUTE") \in Nat
        /\ Moved(proofBinding, d, "REPAY") \in Nat
    BY <1>3, MovedNat DEF CreditPart
  <2>3. use.commitment = c /\ use.kind = "REPAY" /\ use.amount = amount
    BY DEF use
  <2>4. reservations[d].amount = Moved(proofBinding, d, "EXECUTE")
                                   - Moved(proofBinding, d, "REPAY")
    BY <1>3, <1>5, <1>7, <1>15 DEF CreditPart, CreditAddsUp
  <2>5. CASE d = c
    <3>1. reservations'[d].amount = reservations[d].amount - amount
      BY <1>8, <2>5 DEF old
    <3> QED BY <1>4, <2>1, <2>2, <2>3, <2>4, <2>5, <3>1
  <2>6. CASE d # c
    BY <1>8, <2>1, <2>2, <2>3, <2>4, <2>6
  <2> QED BY <2>5, <2>6
<1>16. CreditAddsUp'
  BY <1>13, <1>14, <1>15 DEF CreditAddsUp
<1>17. BoundToExecuted'
  <2>1. use.commitment = c
    BY DEF use
  <2> QED BY <1>3, <1>5, <1>7, <2>1 DEF CreditPart, BoundToExecuted, Bindings, ProofUse
<1>18. CreditPart'
  BY <1>7, <1>8, <1>10, <1>16, <1>17 DEF CreditPart, CreditFits
<1> QED BY <1>2, <1>18, CreditStep

-----------------------------------------------------------------------------
LEMMA StutterPreserves == IInv /\ UNCHANGED creditSpecVars => IInv'
BY DEF IInv, creditSpecVars, readingVars, gateVars, CreditTypeOK, GateTypeOK,
       HeldBehind, VersionsPinDecision, Decision, Reason, Fresh, Headroom, Minus,
       ExposureStateVersion, BoundToExecuted, CreditFits, CreditAddsUp

LEMMA StepInv == IInv /\ [LedgerStep \/ GateStep]_creditSpecVars => IInv'
BY LedgerPreserves, PoliciesPreserve, ObservePreserves, ReservePreserves,
   ExecutePreserves, RepayPreserves, StutterPreserves DEF GateStep

(* The invariant of the gate over any ledger that keeps its promise. *)
THEOREM Invariant == CreditSpec => []IInv
BY InitInv, StepInv, PTL DEF CreditSpec

(* Types: no total, headroom or remaining amount ever leaves uint256, so    *)
(* no subtraction of executeReservation and repayExecution underflows.      *)
THEOREM TypeCorrect == CreditSpec => []CreditTypeOK
<1>1. IInv => CreditTypeOK
  BY DEF IInv
<1> QED BY <1>1, Invariant, PTL

(* A decision is worth its versions, although two counters share a number. *)
THEOREM DecisionsPinned == CreditSpec => []VersionsPinDecision
<1>1. IInv => VersionsPinDecision
  BY DEF IInv
<1> QED BY <1>1, Invariant, PTL

(* The totals are the sums over the commitments, and each commitment is     *)
(* what its proof references moved.                                         *)
THEOREM TotalsAddUp == CreditSpec => []CreditAddsUp
<1>1. IInv => CreditAddsUp
  BY DEF IInv
<1> QED BY <1>1, Invariant, PTL

(* A commitment whose snapshot was replaced never changes again. *)
THEOREM SupersededFrozen == CreditSpec => SupersededIsFrozen
<1> DEFINE Frozen == \A c \in Commitments :
       reservationStatus[c] # "NONE" /\ reservations[c].snapshotId # reading.snapshotId
         => UNCHANGED <<reservations[c], reservationStatus[c]>>
<1>1. IInv /\ [LedgerStep \/ GateStep]_creditSpecVars => [Frozen]_creditSpecVars
  <2> SUFFICES ASSUME IInv, LedgerStep \/ GateStep PROVE Frozen
    BY DEF creditSpecVars
  <2>0. reservations \in Commits /\ reservationStatus \in Statuses
    BY CreditPartHolds DEF CreditPart
  <2>1. CASE UNCHANGED <<reservations, reservationStatus>>
    BY <2>1
  <2>2. ASSUME NEW h \in Holders, ReserveHeld(h) PROVE Frozen
    BY <2>0, <2>2 DEF ReserveHeld, Reserve, Commits, Statuses
  <2>3. ASSUME NEW h \in Holders, ExecuteHeld(h) PROVE Frozen
    BY <2>0, <2>3 DEF ExecuteHeld, ExecuteReservation, MayUse, Commits, Statuses
  <2>4. ASSUME NEW h \in Holders, RepayHeld(h) PROVE Frozen
    BY <2>0, <2>4 DEF RepayHeld, RepayExecution, MayUse, StatusAfter, Commits, Statuses
  <2>5. LedgerStep => UNCHANGED <<reservations, reservationStatus>>
    BY DEF LedgerStep, gateVars
  <2>6. SetPolicies => UNCHANGED <<reservations, reservationStatus>>
    BY DEF SetPolicies, SetAllocator, SetExecutor, SetPolicy, creditVars
  <2>7. \A h \in Holders : Observe(h) => UNCHANGED <<reservations, reservationStatus>>
    BY DEF Observe, gateVars
  <2> QED BY <2>1, <2>2, <2>3, <2>4, <2>5, <2>6, <2>7 DEF GateStep
<1> HIDE DEF Frozen
<1>2. CreditSpec => [][Frozen]_creditSpecVars
  BY <1>1, Invariant, PTL DEF CreditSpec
<1> QED BY <1>2 DEF Frozen, SupersededIsFrozen

-----------------------------------------------------------------------------
(* The gate is a book of commitments. *)
BookOf(res, st) ==
  [c \in Commitments |-> [status |-> st[c], amount |-> res[c].amount]]

LEMMA ReservedInBook ==
  ASSUME NEW h \in Holders, IInv, ReserveHeld(h)
  PROVE  \E c \in Commitments : Book!Reserved(c)
<1>1. PICK by \in Accounts, c \in Commitments : Reserve(by, c, held[h], reading, now)
  BY DEF ReserveHeld
<1>2. CreditPart /\ CreditTypeOK
  BY CreditPartHolds DEF IInv
<1>3. held[h].amount \in Uint /\ reading.snapshotId \in Nat
  BY <1>2 DEF CreditTypeOK, ReserveHeld, DecisionView, LedgerReading
<1>4. reservationStatus[c] = "NONE" /\ held[h].amount # 0
  <2>1. reservationStatus[c] = "NONE" /\ Reason(held[h].amount, reading, now) = "ALLOW"
    BY <1>1 DEF Reserve
  <2>2. /\ reading.snapshotComplete \in BOOLEAN /\ reading.validUntil \in Nat
        /\ now \in Nat
    BY <1>2 DEF CreditTypeOK, LedgerReading
  <2> QED BY <2>1, <2>2 DEF Reason, Fresh
<1>5. /\ reservations' = [reservations EXCEPT
             ![c] = [amount |-> held[h].amount, snapshotId |-> reading.snapshotId]]
      /\ reservationStatus' = [reservationStatus EXCEPT ![c] = "RESERVED"]
  BY <1>1 DEF Reserve
<1>6. BookOf(reservations', reservationStatus')
        = [BookOf(reservations, reservationStatus) EXCEPT
             ![c] = [status |-> "RESERVED", amount |-> held[h].amount]]
  BY <1>2, <1>5 DEF BookOf, CreditPart, Commits, Statuses
<1> QED BY <1>3, <1>4, <1>6 DEF Book!Reserved, Book!Uint, Uint, BookOf

LEMMA ExecutedInBook ==
  ASSUME NEW h \in Holders, IInv, ExecuteHeld(h)
  PROVE  \E c \in Commitments : Book!Executed(c)
<1>1. PICK by \in Accounts, c \in Commitments, p \in ProofIds :
        ExecuteReservation(by, c, p, held[h].exposureStateVersion, reading, now)
  BY DEF ExecuteHeld
<1>2. CreditPart
  BY CreditPartHolds
<1>3. /\ reservationStatus[c] = "RESERVED"
      /\ reservations' = reservations
      /\ reservationStatus' = [reservationStatus EXCEPT ![c] = "EXECUTED"]
  BY <1>1 DEF ExecuteReservation
<1>4. BookOf(reservations', reservationStatus')
        = [BookOf(reservations, reservationStatus) EXCEPT ![c].status = "EXECUTED"]
  BY <1>2, <1>3 DEF BookOf, CreditPart, Commits, Statuses
<1> QED BY <1>3, <1>4 DEF Book!Executed, BookOf

LEMMA RepaidInBook ==
  ASSUME NEW h \in Holders, IInv, RepayHeld(h)
  PROVE  \E c \in Commitments : Book!Repaid(c)
<1>1. PICK by \in Accounts, c \in Commitments, p \in ProofIds, amount \in Uint :
        RepayExecution(by, c, amount, p, held[h].exposureStateVersion, reading, now)
  BY DEF RepayHeld
<1> DEFINE left == reservations[c].amount - amount
<1>2. CreditPart
  BY CreditPartHolds
<1>3. /\ reservationStatus[c] = "EXECUTED" /\ amount # 0
      /\ amount <= reservations[c].amount
      /\ reservations' = [reservations EXCEPT ![c].amount = @ - amount]
      /\ reservationStatus' = [reservationStatus EXCEPT
           ![c] = IF reservations[c].amount = amount THEN "CLOSED"
                                                     ELSE reservationStatus[c]]
  BY <1>1 DEF RepayExecution, StatusAfter
<1>4. amount \in Nat /\ reservations[c].amount \in Nat
  BY <1>2, NatOfUint DEF CreditPart, Commits
<1>5. /\ left \in 0..(reservations[c].amount - 1)
      /\ (reservations[c].amount = amount) <=> (left = 0)
  BY <1>3, <1>4
<1>6. reservationStatus'[c] = IF left = 0 THEN "CLOSED" ELSE "EXECUTED"
  BY <1>2, <1>3, <1>5 DEF CreditPart, Statuses
<1>7. /\ reservations'[c].amount = left
      /\ \A d \in Commitments \ {c} : /\ reservations'[d] = reservations[d]
                                      /\ reservationStatus'[d] = reservationStatus[d]
  BY <1>2, <1>3 DEF CreditPart, Commits, Statuses
<1> HIDE DEF left
<1>8. BookOf(reservations', reservationStatus')
        = [BookOf(reservations, reservationStatus) EXCEPT
             ![c] = [status |-> IF left = 0 THEN "CLOSED" ELSE "EXECUTED",
                     amount |-> left]]
  BY <1>6, <1>7 DEF BookOf
<1> QED BY <1>3, <1>5, <1>8 DEF Book!Repaid, BookOf

(* To those who build on it, the gate implements CommitmentBook. *)
THEOREM CommitmentsKept == CreditSpec => KeepsCommitments
<1>1. CreditInit => Book!BookInit
  BY DEF CreditInit, GateInit, Book!BookInit
<1>2. IInv /\ [LedgerStep \/ GateStep]_creditSpecVars
        => [Book!BookNext]_(BookOf(reservations, reservationStatus))
  <2> SUFFICES ASSUME IInv, [LedgerStep \/ GateStep]_creditSpecVars
               PROVE  \/ Book!BookNext
                      \/ UNCHANGED <<reservations, reservationStatus>>
    BY DEF BookOf
  <2>1. ASSUME NEW h \in Holders, ReserveHeld(h) \/ ExecuteHeld(h) \/ RepayHeld(h)
        PROVE  Book!BookNext
    BY <2>1, ReservedInBook, ExecutedInBook, RepaidInBook DEF Book!BookNext
  <2>2. LedgerStep => UNCHANGED <<reservations, reservationStatus>>
    BY DEF LedgerStep, gateVars
  <2>3. SetPolicies => UNCHANGED <<reservations, reservationStatus>>
    BY DEF SetPolicies, SetAllocator, SetExecutor, SetPolicy, creditVars
  <2>4. \A h \in Holders : Observe(h) => UNCHANGED <<reservations, reservationStatus>>
    BY DEF Observe, gateVars
  <2>5. UNCHANGED creditSpecVars => UNCHANGED <<reservations, reservationStatus>>
    BY DEF creditSpecVars, gateVars
  <2> QED BY <2>1, <2>2, <2>3, <2>4, <2>5 DEF GateStep
<1>3. CreditSpec => [][Book!BookNext]_(BookOf(reservations, reservationStatus))
  BY <1>2, Invariant, PTL DEF CreditSpec
<1> QED BY <1>1, <1>3, PTL DEF CreditSpec, KeepsCommitments, Book!BookSpec, BookOf
=============================================================================
