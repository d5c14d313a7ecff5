----------------------------- MODULE Origination -----------------------------
(***************************************************************************)
(* The origination controller over any gate that keeps the promise of      *)
(* CommitmentBook: commitments are executed and repaid while the owner     *)
(* moves quotas and institutions originate.                                *)
(***************************************************************************)
EXTENDS OriginationController, Functions

originationVars == <<commitments, controllerVars>>

OriginationInit == BookInit /\ ControllerInit

GateMoves == BookNext /\ UNCHANGED controllerVars

OwnerMoves ==
  /\ \/ \E i \in Institutions, authorized \in BOOLEAN : SetInstitution(i, authorized)
     \/ \E k \in QuotaKeys, limit \in QuotaLimits : SetQuota(k, limit)
  /\ UNCHANGED commitments

InstitutionMoves ==
  /\ \E i \in Institutions, c \in Commitments, s \in SourceKeys, l \in Loans,
        b \in Borrowers, amount \in Uint, p \in OriginationProofs :
       Originate(i, c, s, l, b, amount, p)
  /\ UNCHANGED commitments

OriginationNext == GateMoves \/ OwnerMoves \/ InstitutionMoves

OriginationSpec == OriginationInit /\ [][OriginationNext]_originationVars

-----------------------------------------------------------------------------
(* Types of the gate's commitments and the controller. *)
OriginationTypeOK == BookTypeOK /\ ControllerTypeOK

Recorded(records) == {id \in OriginationIds : records[id] # NoOrigination}

CountsAgainst(records, k) ==
  {id \in Recorded(records) :
     k \in Charged(records[id].institution, records[id].sourceKey)}

AmountOf(records, ids) ==
  SumFunctionOnSet([id \in ids |-> records[id].amount], ids)

(* What is used of each quota is what was originated against it, the total *)
(* is what was originated at all, and no quota is ever exceeded: not by an *)
(* origination that meets three of them, and not by a limit lowered later. *)
QuotasAddUp ==
  /\ \A k \in QuotaKeys :
       /\ quotaUsed[k] = AmountOf(originations, CountsAgainst(originations, k))
       /\ quotaUsed[k] <= quota[k]
  /\ totalOriginated = AmountOf(originations, Recorded(originations))

(* Settlement sees each commitment stand for one loan at most, recorded    *)
(* over exactly what is left of the executed commitment at that moment, and *)
(* for good, whatever owner, institutions and repayments do later.          *)
Recording == INSTANCE Obligations WITH
  NoObligation <- NoOrigination,
  obligations <- [id \in OriginationIds |->
    IF originations[id] = NoOrigination THEN NoOrigination
    ELSE [recipient |-> originations[id].borrower,
          amount |-> originations[id].amount]]

RecordsOnce ==
  /\ Recording!ObligationsSpec
  /\ [][\A id \in OriginationIds : originations'[id] # originations[id] =>
         commitments[id[1]] = [status |-> "EXECUTED",
                               amount |-> originations'[id].amount]]_originationVars

-----------------------------------------------------------------------------
(* The inductive invariant of the proofs: a commitment is consumed exactly  *)
(* when an origination of it is recorded.                                   *)
IInv ==
  /\ OriginationTypeOK
  /\ QuotasAddUp
  /\ IsFiniteSet(Recorded(originations))
  /\ \A id \in Recorded(originations) : originations[id].amount # 0
  /\ commitmentConsumed = {id[1] : id \in Recorded(originations)}
=============================================================================
