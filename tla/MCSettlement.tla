---------------------------- MODULE MCSettlement ----------------------------
(* A vault that the direct adapter and one OApp may have the authority of,   *)
(* and an operator's OApp on another chain; the first OApp talks to itself   *)
(* or to the second.                                                         *)
EXTENDS Settlement, TLC

CONSTANTS v1, v2, z1, z2, c1, c2, l

MCOriginationIds == {c1, c2} \X {l}

MCVaultOf == z1 :> v1 @@ z2 :> v2

Owned(by, source, destination) ==
  [owner |-> by, sourcePeer |-> source, destinationPeer |-> destination]

MCDeployments ==
  { z1 :> Owned(Controller, z1, z1) @@ z2 :> Owned(Operator, z1, z1),
    z1 :> Owned(Controller, z2, z2) @@ z2 :> Owned(Operator, z1, z1) }
=============================================================================
