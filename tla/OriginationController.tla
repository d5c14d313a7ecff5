------------------------ MODULE OriginationController ------------------------
(***************************************************************************)
(* contracts/aggregate/OriginationController.sol: an institution records   *)
(* the loan that an executed commitment of the gate stands for, once, and  *)
(* charges three quotas with it: its own at the source, the source's, and  *)
(* its own everywhere.  What it asks of settlement later is in Settlement. *)
(*                                                                         *)
(* The three pairs of mappings quota/quotaUsed are one pair of functions   *)
(* over QuotaKeys.  sourceOriginated and institutionOriginated repeat two  *)
(* of its entries and are read by no guard; a lender is recorded and never *)
(* used.                                                                   *)
(***************************************************************************)
EXTENDS CommitmentBook, SettlementTypes, FiniteSets

CONSTANTS
  Institutions,      \* addresses the owner may authorize
  ControllerOwner,
  SourceKeys,        \* source keys a caller may name
  Registered,        \* those of the scope's registry
  Loans,
  OriginationProofs, \* proof references
  NoOrigination,     \* an origination not recorded
  QuotaLimits,       \* bound: limits the owner chooses from
  MaxQuotaVersion    \* bound: on quotaVersion

ASSUME ControllerConstants ==
  /\ ControllerOwner \in Institutions
  /\ Registered \subseteq SourceKeys
  /\ QuotaLimits \subseteq Uint \ {0}
  /\ MaxQuotaVersion \in Nat
  /\ OriginationIds = Commitments \X SourceKeys \X Loans

VARIABLES
  quotaVersion,
  institutions,
  quota, quotaUsed,
  totalOriginated,
  originations,
  usedProofIds,
  commitmentConsumed

quotaVars == <<quotaVersion, institutions, quota>>
recordVars == <<quotaUsed, totalOriginated, originations, usedProofIds,
                commitmentConsumed>>
controllerVars == <<quotaVars, recordVars>>

QuotaKeys == ({"PAIR"} \X Institutions \X SourceKeys)
               \cup ({"SOURCE"} \X SourceKeys)
               \cup ({"INSTITUTION"} \X Institutions)

Origination == [institution : Institutions, sourceKey : SourceKeys,
                borrower : Borrowers, amount : Uint,
                proof : OriginationProofs]

ASSUME NoOriginationAssumption == NoOrigination \notin Origination

ControllerTypeOK ==
  /\ quotaVersion \in Nat
  /\ institutions \subseteq Institutions
  /\ quota \in [QuotaKeys -> Uint]
  /\ quotaUsed \in [QuotaKeys -> Uint]
  /\ totalOriginated \in Uint
  /\ originations \in [OriginationIds -> Origination \cup {NoOrigination}]
  /\ usedProofIds \subseteq OriginationProofs
  /\ commitmentConsumed \subseteq Commitments

ControllerInit ==
  /\ quotaVersion = 1
  /\ institutions = {ControllerOwner}
  /\ quota = [k \in QuotaKeys |-> 0]
  /\ quotaUsed = [k \in QuotaKeys |-> 0]
  /\ totalOriginated = 0
  /\ originations = [id \in OriginationIds |-> NoOrigination]
  /\ usedProofIds = {}
  /\ commitmentConsumed = {}

-----------------------------------------------------------------------------
(* By the owner. *)
SetInstitution(institution, authorized) ==
  /\ quotaVersion < MaxQuotaVersion
  /\ institutions' = IF authorized THEN institutions \cup {institution}
                                   ELSE institutions \ {institution}
  /\ quotaVersion' = quotaVersion + 1
  /\ UNCHANGED <<quota, recordVars>>

(* The institution and the source a quota is about must be known. *)
KnownKey(k) ==
  CASE k[1] = "PAIR" -> k[2] \in institutions /\ k[3] \in Registered
    [] k[1] = "SOURCE" -> k[2] \in Registered
    [] k[1] = "INSTITUTION" -> k[2] \in institutions

(* Mutated form: a quota may be lowered below what is used of it. *)
SetAnyQuota(k, limit) ==
  /\ quotaVersion < MaxQuotaVersion
  /\ KnownKey(k)
  /\ quota' = [quota EXCEPT ![k] = limit]
  /\ quotaVersion' = quotaVersion + 1
  /\ UNCHANGED <<institutions, recordVars>>

(* setQuota, setSourceQuota, setInstitutionQuota *)
SetQuota(k, limit) ==
  /\ quotaVersion < MaxQuotaVersion
  /\ KnownKey(k)
  /\ quotaUsed[k] <= limit
  /\ quota' = [quota EXCEPT ![k] = limit]
  /\ quotaVersion' = quotaVersion + 1
  /\ UNCHANGED <<institutions, recordVars>>

-----------------------------------------------------------------------------
(* The quotas an origination counts against. *)
Charged(institution, source) ==
  {<<"PAIR", institution, source>>, <<"SOURCE", source>>,
   <<"INSTITUTION", institution>>}

(* Mutated form: a commitment may stand for several loans. *)
AcceptsEachLoan(institution, c, source, loan, amount, proof) ==
  /\ institution \in institutions
  /\ proof \notin usedProofIds
  /\ source \in Registered
  /\ commitments[c].status = "EXECUTED"
  /\ amount # 0 /\ amount = commitments[c].amount
  /\ originations[<<c, source, loan>>] = NoOrigination
  /\ \A k \in Charged(institution, source) : amount <= quota[k] - quotaUsed[k]
  /\ totalOriginated + amount <= MaxUint

(* Everything originate requires.  The amount is stated by the caller, who *)
(* may have read it before the commitment shrank.                          *)
AcceptsOrigination(institution, c, source, loan, amount, proof) ==
  /\ institution \in institutions
  /\ proof \notin usedProofIds
  /\ source \in Registered
  /\ commitments[c].status = "EXECUTED"
  /\ amount # 0 /\ amount = commitments[c].amount
  /\ originations[<<c, source, loan>>] = NoOrigination
  /\ c \notin commitmentConsumed
  /\ \A k \in Charged(institution, source) : amount <= quota[k] - quotaUsed[k]
  /\ totalOriginated + amount <= MaxUint

UsedWith(k, amount) == quotaUsed[k] + amount

Originate(institution, c, source, loan, borrower, amount, proof) ==
  /\ AcceptsOrigination(institution, c, source, loan, amount, proof)
  /\ quotaUsed' = [k \in QuotaKeys |->
       IF k \in Charged(institution, source) THEN UsedWith(k, amount)
                                             ELSE quotaUsed[k]]
  /\ totalOriginated' = totalOriginated + amount
  /\ usedProofIds' = usedProofIds \cup {proof}
  /\ commitmentConsumed' = commitmentConsumed \cup {c}
  /\ originations' = [originations EXCEPT ![<<c, source, loan>>] =
       [institution |-> institution, sourceKey |-> source,
        borrower |-> borrower, amount |-> amount, proof |-> proof]]
  /\ UNCHANGED <<quotaVars>>

=============================================================================
