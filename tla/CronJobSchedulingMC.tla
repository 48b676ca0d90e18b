-------------------------- MODULE CronJobSchedulingMC --------------------------
(* Instances of CronJobScheduling for TLC. *)
EXTENDS CronJobScheduling, TLC

(* The first retry starts between two firings, the second one with a later *)
(* firing.                                                                 *)
MCRetryIntervals == <<1, 1>>
=============================================================================
