---------------------------- MODULE MCAggregate ----------------------------
(* Small instances of the aggregate ledger; sources are interchangeable. *)
EXTENDS AggregateProps, TLC

MCEffectiveEpoch == [s \in Registered |-> 1]
MCSymmetry == Permutations(Registered)
=============================================================================
