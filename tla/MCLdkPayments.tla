--------------------------- MODULE MCLdkPayments ---------------------------
(* Instances of LdkPayments for TLC.                                       *)
EXTENDS LdkPayments
============================================================================
