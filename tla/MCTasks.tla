-------------------------------- MODULE MCTasks --------------------------------
(***************************************************************************)
(* What goes on by itself, side by side: an update, and the jobs of every  *)
(* minute.  A behaviour is about one of them, and part tells which, and    *)
(* each one's fairness is asked of its own behaviours.                     *)
(***************************************************************************)
EXTENDS MCOta, MCCron

VARIABLE part

TasksInit ==
  /\ part \in {"ota", "cron"} /\ Init /\ CronInit
  /\ part # "ota" => check_version /\ reboot_on_completion
  /\ part # "cron" => enabled

TasksNext ==
  /\ UNCHANGED part
  /\ \/ part = "ota" /\ Next /\ UNCHANGED cronVars
     \/ part = "cron" /\ CronNext /\ UNCHANGED vars

Updating == part = "ota" /\ ~leaked
TasksFairness ==
  /\ WF_vars(Updating /\ ota_engine)
  /\ WF_vars(Updating /\ ConnectFails) /\ WF_vars(Updating /\ NoVersion)
  /\ WF_vars(Updating /\ ota_completed_cb)
  /\ WF_vars(part = "ota" /\ Restart)
  /\ WF_cronVars(part = "cron" /\ Timer)
  /\ WF_cronVars(part = "cron" /\ (Visit \/ EndWalk))

TasksSpec == TasksInit /\ [][TasksNext]_<<part, vars, cronVars>> /\ TasksFairness
================================================================================
