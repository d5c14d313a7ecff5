----------------------------- MODULE Obligations -----------------------------
(***************************************************************************)
(* What the origination controller promises to settlement: an obligation   *)
(* is recorded once, for a commitment that no other stands for, and never  *)
(* changed or withdrawn, not even when the commitment is repaid.           *)
(* OriginationController keeps this promise (run origination).             *)
(***************************************************************************)
EXTENDS SettlementTypes

CONSTANT NoObligation

VARIABLE obligations   \* the terms of each origination

ObligationsTypeOK == obligations \in [OriginationIds -> Terms \cup {NoObligation}]

ObligationsInit == obligations = [id \in OriginationIds |-> NoObligation]

Originations == {id \in OriginationIds : obligations[id] # NoObligation}

(* An origination's identifier names its commitment first. *)
Originated(id) ==
  /\ \A other \in Originations : other[1] # id[1]
  /\ \E terms \in Terms : obligations' = [obligations EXCEPT ![id] = terms]

ObligationsNext == \E id \in OriginationIds : Originated(id)

ObligationsSpec == ObligationsInit /\ [][ObligationsNext]_obligations
=============================================================================
