--------------------------------- MODULE Cron ---------------------------------
(***************************************************************************)
(* The scheduler (espbot_cron.cpp): a timer synchronised with the clock's  *)
(* minutes walks the list of jobs and calls the commands of those that are *)
(* due; a command may itself add or delete jobs, which moves the one       *)
(* cursor the list has (espbot_list.hpp).                                  *)
(*                                                                         *)
(* The timer's callback runs to completion: while `walking' only Visit     *)
(* steps are taken, one per job.  Of a job's five fields the minute stands *)
(* for all.  Time is kept relative: the second of the last synchronisation *)
(* and the minutes that passed between two walks.                          *)
(***************************************************************************)
EXTENDS Integers, Sequences, FiniteSets

CONSTANTS
  MaxJobs,       \* CRON_MAX_JOBS (30)
  Minutes,       \* number of minutes told apart (60)
  Commands,      \* what commands do: a subset of {"plain", "add", "del"}
  Seconds,       \* seconds of the minute at which something else than the timer syncs
  MaxEarly, MaxLate  \* how early or late the timer may fire, in seconds

ASSUME CronConstants ==
  /\ MaxJobs \in Nat \ {0} /\ Minutes \in Nat \ {0}
  /\ Commands \subseteq {"plain", "add", "del"}
  /\ Seconds \subseteq 0..59
  /\ MaxEarly \in 0..29 /\ MaxLate \in 0..29

VARIABLES
  enabled,               \* cron_cfg.enabled
  running,               \* cron_state.running
  cron_period,           \* seconds cron_timer is armed for, 0 when it is disarmed
  minute, second,        \* the clock at the last cron_sync
  jobs,                  \* job_list
  cursor,                \* its m_cursor: a position, 0 for NULL, Dangling
  walking, current_job,  \* cron_execute runs, at this position (0 for NULL)
  on_time,               \* history: the last cron_sync was a walk's, less than 30 s late
  advance,               \* history: minutes between the last walks, 1 if one was not on time
  ran,                   \* history: positions whose command ran in this walk
  undefined              \* history: next() was called on a deleted element

clock == <<cron_period, minute, second, on_time, advance>>
list  == <<jobs, cursor>>
walk  == <<walking, current_job, ran, undefined>>
cronVars  == <<enabled, running, clock, list, walk>>

Star     == -1          \* CRON_STAR
Dangling == -1
JobFields   == {Star} \cup 0..(Minutes - 1)
Job      == [id : 1..MaxJobs, minute : JobFields, command : Commands]

-----------------------------------------------------------------------------
(***************************************************************************)
(* cron_add_job: the search for a free identifier goes through the list    *)
(* once, however many identifiers it tries.  At[idx] is where the iterator *)
(* finds identifier idx, 0 (NULL) when it runs off the end.                *)
(***************************************************************************)
Position(js, from, id) ==
  LET found == {i \in from..Len(js) : js[i].id = id}
  IN  IF found = {} THEN 0 ELSE CHOOSE i \in found : \A j \in found : i <= j

At_Rewinding(js) ==                           \* mutant: every identifier is sought from the front
  [idx \in 0..Len(js) |-> IF idx = 0 THEN 1 ELSE Position(js, 1, idx)]

At(js) ==
  LET at[idx \in 0..Len(js)] ==
        IF idx = 0 THEN 1
        ELSE IF at[idx - 1] = 0 THEN 0 ELSE Position(js, at[idx - 1], idx)
  IN  at

Unused(js) == {idx \in 1..Len(js) : At(js)[idx] = 0}

FreeId(js) == IF Unused(js) = {} THEN Len(js) + 1
              ELSE CHOOSE idx \in Unused(js) : \A i \in Unused(js) : idx <= i

AfterSearch(js) == IF Unused(js) = {} /\ js # <<>> THEN At(js)[Len(js)] ELSE Len(js)

Added_NoLimit(js, field, command) ==          \* mutant: the list grows past its maximum
  Append(js, [id |-> FreeId(js), minute |-> field, command |-> command])

Added(js, field, command) ==
  IF Len(js) < MaxJobs
  THEN Append(js, [id |-> FreeId(js), minute |-> field, command |-> command])
  ELSE js

\* cron_del_job: only the first job with this identifier goes, and the cursor stays
\* on its memory.
Deleted(js, id) ==
  LET p == Position(js, 1, id)
  IN  IF p = 0 THEN js ELSE SubSeq(js, 1, p - 1) \o SubSeq(js, p + 1, Len(js))

AfterDelete(js, id) == IF Position(js, 1, id) = 0 THEN Len(js) ELSE Dangling

-----------------------------------------------------------------------------
(***************************************************************************)
(* cron_sync at second s: late in the minute before the half, early after. *)
(***************************************************************************)
Period_NoMargin(s) == IF s = 0 THEN 60 ELSE 120 - s   \* mutant: any other second is early

Period(s) == IF s < 30 THEN 60 - s ELSE 120 - s

\* Called by the application or by a route, at any time of the clock.
Sync(m, s) ==
  /\ cron_period' = Period(s) /\ running' = TRUE
  /\ minute' = m /\ second' = s
  /\ on_time' = FALSE
  /\ UNCHANGED advance

Outside == ~walking /\ ~undefined

CronInit ==
  /\ enabled \in BOOLEAN
  /\ running = FALSE /\ cron_period = 0
  /\ minute = 0 /\ second = 0 /\ on_time = FALSE /\ advance = 1
  /\ jobs = <<>> /\ cursor = 0
  /\ walking = FALSE /\ current_job = 0 /\ ran = {} /\ undefined = FALSE

CronRestart ==
  /\ undefined
  /\ UNCHANGED enabled
  /\ running' = FALSE /\ cron_period' = 0
  /\ minute' = 0 /\ second' = 0 /\ on_time' = FALSE /\ advance' = 1
  /\ jobs' = <<>> /\ cursor' = 0
  /\ walking' = FALSE /\ current_job' = 0 /\ ran' = {} /\ undefined' = FALSE

cron_sync(m, s) ==
  /\ Outside /\ enabled
  /\ Sync(m, s)
  /\ UNCHANGED <<enabled, list, walk>>

cron_start(m, s) ==
  /\ Outside /\ ~running /\ enabled
  /\ Sync(m, s)
  /\ UNCHANGED <<enabled, list, walk>>

cron_enable_NoSync(m, s) ==                   \* mutant: marked as running, and not armed
  /\ Outside
  /\ enabled' = TRUE /\ running' = TRUE
  /\ UNCHANGED <<clock, list, walk>>

cron_enable(m, s) ==
  /\ Outside
  /\ enabled' = TRUE
  /\ IF running THEN UNCHANGED <<running, clock>> ELSE Sync(m, s)
  /\ UNCHANGED <<list, walk>>

Stop ==
  /\ cron_period' = 0 /\ running' = FALSE
  /\ UNCHANGED <<minute, second, on_time, advance>>

cron_disable ==
  /\ Outside
  /\ Stop /\ enabled' = FALSE
  /\ UNCHANGED <<list, walk>>

cron_stop ==
  /\ Outside
  /\ Stop
  /\ UNCHANGED <<enabled, list, walk>>

cron_add_job(field, command) ==
  /\ Outside
  /\ jobs' = Added(jobs, field, command)
  /\ cursor' = AfterSearch(jobs)
  /\ UNCHANGED <<enabled, running, clock, walk>>

cron_del_job(id) ==
  /\ Outside
  /\ jobs' = Deleted(jobs, id)
  /\ cursor' = AfterDelete(jobs, id)
  /\ UNCHANGED <<enabled, running, clock, walk>>

-----------------------------------------------------------------------------
(***************************************************************************)
(* cron_execute: the timer fires `error' seconds after it should, is armed *)
(* again, and the walk begins at the front.                                *)
(***************************************************************************)
cron_execute(error) ==
  /\ Outside
  /\ cron_period > 0
  /\ LET t == second + cron_period + error
     IN  /\ second' = t % 60
         /\ minute' = (minute + t \div 60) % Minutes
         /\ on_time' = (t % 60 < 30)
         /\ advance' = IF on_time /\ t % 60 < 30 THEN t \div 60 ELSE 1
         /\ IF enabled
            THEN cron_period' = Period(t % 60) /\ running' = TRUE
            ELSE cron_period' = 0 /\ UNCHANGED running
  /\ walking' = TRUE /\ ran' = {}
  /\ cursor' = IF jobs = <<>> THEN 0 ELSE 1
  /\ current_job' = cursor'
  /\ UNCHANGED <<enabled, jobs, undefined>>

Due(job) == job.minute \in {Star, minute}

\* current_job = job_list->next(), after a command that left the list and its cursor so.
GoOn(js, c) ==
  /\ jobs' = js
  /\ undefined' = (c = Dangling)
  /\ cursor' = IF c > 0 /\ c < Len(js) THEN c + 1 ELSE c
  /\ current_job' = IF c > 0 /\ c < Len(js) THEN c + 1 ELSE 0
  /\ walking' = (current_job' > 0)

Visit ==
  /\ walking /\ current_job > 0
  /\ LET job == jobs[current_job]
     IN  \/ /\ ~Due(job)
            /\ GoOn(jobs, cursor) /\ UNCHANGED ran
         \/ /\ Due(job) /\ ran' = ran \cup {current_job}
            /\ \/ job.command = "plain" /\ GoOn(jobs, cursor)
               \/ /\ job.command = "add"
                  /\ \E field \in JobFields, command \in Commands :
                       GoOn(Added(jobs, field, command), AfterSearch(jobs))
               \/ /\ job.command = "del"
                  /\ \E id \in 1..MaxJobs : GoOn(Deleted(jobs, id), AfterDelete(jobs, id))
  /\ UNCHANGED <<enabled, running, clock>>

\* There are no jobs to visit.
EndWalk ==
  /\ walking /\ current_job = 0
  /\ walking' = FALSE
  /\ UNCHANGED <<enabled, running, clock, list, current_job, ran, undefined>>

Calls ==
  \/ \E m \in 0..(Minutes - 1), s \in Seconds : cron_sync(m, s) \/ cron_start(m, s)
                                                \/ cron_enable(m, s)
  \/ cron_disable \/ cron_stop
  \/ \E field \in JobFields, command \in Commands : cron_add_job(field, command)
  \/ \E id \in 1..MaxJobs : cron_del_job(id)

Timer == \E error \in -MaxEarly..MaxLate : cron_execute(error)

CronNext == Calls \/ Timer \/ Visit \/ EndWalk \/ CronRestart

CronSpec == CronInit /\ [][CronNext]_cronVars

\* The SDK fires armed timers, and a callback that started runs on.
CronFairness == WF_cronVars(Timer) /\ WF_cronVars(Visit \/ EndWalk)
CronFairSpec == CronSpec /\ CronFairness

-----------------------------------------------------------------------------
\* The variables have their types: the list never holds more than its maximum, and
\* identifiers stay within it.
CronTypeOK ==
  /\ enabled \in BOOLEAN /\ running \in BOOLEAN
  /\ cron_period \in 0..90
  /\ minute \in 0..(Minutes - 1) /\ second \in 0..59
  /\ on_time \in BOOLEAN /\ advance \in 0..2
  /\ jobs \in Seq(Job) /\ Len(jobs) <= MaxJobs
  /\ cursor \in -1..MaxJobs /\ current_job \in 0..MaxJobs
  /\ walking \in BOOLEAN /\ undefined \in BOOLEAN
  /\ ran \subseteq 1..MaxJobs

\* The timer is armed exactly while cron says it is running, and then it is enabled:
\* enabling, disabling, starting and stopping in any order leave no timer behind.
TimerAgrees == (running <=> cron_period > 0) /\ (running => enabled)

\* A timer that is late, by less than 30 s, walks the jobs of every minute: from one
\* walk on time to the next exactly one minute passes.  A walk that came early is not on time.
EveryMinute == advance = 1

\* However commands add jobs, a walk never comes back to a job it has run.
NoRerun == walking /\ current_job > 0 => current_job \notin ran

\* Each walk ends: jobs that add jobs stop when the list is full.
WalkEnds == walking ~> ~walking

\* What a comment of the code promises, and the code does not do.

\* espbot_cron.cpp: "looking for a not used id": no two jobs have the same identifier.
UniqueIds == \A i, j \in DOMAIN jobs : jobs[i].id = jobs[j].id => i = j
=============================================================================
