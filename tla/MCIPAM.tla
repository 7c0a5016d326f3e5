------------------------------- MODULE MCIPAM -------------------------------
(* One pool for IPAM: its blocks and who uses which handle.                  *)
EXTENDS IPAM

CONSTANTS c1, c2, h1, h2

\* A VLAN pool: a single block, its first address reserved.
OneBlock == <<"b1">>
MCHandleOf == c1 :> h1 @@ c2 :> h2

\* Nothing tells the clients apart but their handles: both change places.
Exchange ==
  {p \in Permutations(Clients \cup Handles) :
     \A c \in Clients : p[c] \in Clients /\ p[HandleOf[c]] = HandleOf[p[c]]}
=============================================================================
