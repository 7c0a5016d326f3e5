---------------------------- MODULE MCQuotaWork ----------------------------
(* Instances of QuotaWork for TLC.                                          *)
EXTENDS QuotaWork, TLC

CONSTANTS a1, a2, a3, a4, n1, n2

\* Three requests of one namespace, one of another.
MCNsOf == a1 :> n1 @@ a2 :> n1 @@ a3 :> n1 @@ a4 :> n2
=============================================================================
