------------------------- MODULE MCAggregateCredit -------------------------
(* A small instance of the aggregate system. *)
EXTENDS AggregateCredit

MCEffectiveEpoch == [s \in Registered |-> 1]
=============================================================================
