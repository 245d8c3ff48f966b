-------------------------------- MODULE MCCron --------------------------------
(***************************************************************************)
(* Cron for TLC: two jobs are enough for a command to move the cursor over *)
(* another job; the seconds and the timer's errors lie around the minute   *)
(* and around its half, where cron_sync decides.                           *)
(***************************************************************************)
EXTENDS Cron

=============================================================================
