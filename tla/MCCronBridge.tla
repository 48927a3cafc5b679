----------------------------- MODULE MCCronBridge -----------------------------
(* Instances of PaymentTimer with CronBridge for TLC: every task of the model *)
(* value set may be spawned once.                                            *)
EXTENDS CronBridge
===============================================================================
