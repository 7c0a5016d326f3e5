----------------------------- MODULE MCLinstor -----------------------------
(* Requests for Linstor: one resource, three nodes.                          *)
EXTENDS Linstor

MCKinds ==
  [a |-> {"create"},
   b |-> {"create", "diskless", "decrease", "lvm list", "lvm list lvs"},
   c |-> {"create", "delete", "increase", "lvm create"}]
MCName == [a |-> "res", b |-> "res", c |-> "res"]
MCTargets == [a |-> <<"n1", "n2">>, b |-> <<"n2">>, c |-> <<"n1">>]
MCHosts == <<"n1", "n2", "n3">>
=============================================================================
