------------------------------ MODULE MCCredit ------------------------------
(* Small instances of the gate over an abstract ledger; holders, *)
(* commitments and proof references are interchangeable.         *)
EXTENDS ExposureCredit, TLC

MCSymmetry == Permutations(Holders) \cup Permutations(Commitments)
                \cup Permutations(ProofIds)
=============================================================================
