----------------------------- MODULE MCBilling -----------------------------
(* Small instances of Billing for TLC.                                     *)
EXTENDS Billing, TLC

CONSTANTS s1, s2, t1, t2, p1, p2, c1

============================================================================
