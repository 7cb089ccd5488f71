--------------------------- MODULE MCCronScheduler ---------------------------
(* Small instances of CronScheduler for TLC: a time a job may be set to, a    *)
(* period, and a cron expression that runs out before the clock does.         *)
EXTENDS CronScheduler

MCSchedules ==
    {[kind |-> "at", time |-> 1], [kind |-> "every", time |-> 1],
     [kind |-> "cron", times |-> {1}]}
=============================================================================
