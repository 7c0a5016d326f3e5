---------------------------- MODULE MCQuotaLocks ----------------------------
(* Instances of QuotaLocks for TLC.                                         *)
EXTENDS QuotaLocks

CONSTANTS qa, qb

MCByName == <<qa, qb>>
=============================================================================
