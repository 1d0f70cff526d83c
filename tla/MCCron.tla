------------------------------ MODULE MCCron ------------------------------
(* Small instances of CronScheduler for TLC.                               *)
EXTENDS CronScheduler
=============================================================================
