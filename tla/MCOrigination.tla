---------------------------- MODULE MCOrigination ----------------------------
(* Small instances of the origination controller. *)
EXTENDS Origination, TLC

MCOriginationIds == Commitments \X SourceKeys \X Loans

MCSymmetry == Permutations(Commitments) \cup Permutations(OriginationProofs)
                \cup Permutations(Registered)
=============================================================================
