----------------------------- MODULE Time_proofs -----------------------------
(***************************************************************************)
(* What holds of the scheduler for every number of jobs, of minutes and of *)
(* seconds, and for every timer that errs by less than half a minute:      *)
(* first of its timer, then of the walk of the list.  And of the clock,    *)
(* for every size of the RTC's counter.                                    *)
(***************************************************************************)
EXTENDS Cron, Clock, SequenceTheorems, WellFoundedInduction, TLAPS

\* What the clock and the timer hold between two steps.
ClockTypes ==
  /\ enabled \in BOOLEAN /\ running \in BOOLEAN /\ on_time \in BOOLEAN
  /\ cron_period \in {0} \cup 31..90 /\ second \in 0..59 /\ minute \in 0..(Minutes - 1)

\* After a walk on time the timer is armed for the next full minute, or not at all.
NextMinute == on_time => second < 30 /\ cron_period \in {0, 60 - second}

Inv == ClockTypes /\ TimerAgrees /\ NextMinute /\ EveryMinute

\* cron_sync arms the timer for 31 to 90 seconds, in the first half of a minute to the
\* next one.
LEMMA PeriodRange ==
  ASSUME NEW s \in 0..59
  PROVE  Period(s) \in 31..90 /\ (s < 30 => Period(s) = 60 - s)
BY SMT DEF Period

\* Seconds and minutes of a time in seconds, less than three minutes.
LEMMA SplitTime ==
  ASSUME NEW t \in Nat, t < 180
  PROVE  /\ t % 60 \in 0..59 /\ t \div 60 \in 0..2
         /\ t = 60 * (t \div 60) + (t % 60)
BY SMT

\* A timer armed for the next minute that is less than 30 s late fires in that minute.
LEMMA OneMinute ==
  ASSUME NEW e \in -29..29, (60 + e) % 60 < 30
  PROVE  (60 + e) \div 60 = 1
BY SMT

\* A synchronisation by the application or a route keeps the invariant.
LEMMA SyncKeeps ==
  ASSUME Inv, NEW m \in 0..(Minutes - 1), NEW s \in Seconds, Sync(m, s),
         enabled' = TRUE
  PROVE  Inv'
<1>1. s \in 0..59
  BY CronConstants
<1>2. Period(s) \in 31..90
  BY <1>1, PeriodRange
<1>3. ClockTypes'
  <2>1. enabled' \in BOOLEAN /\ running' \in BOOLEAN /\ on_time' \in BOOLEAN
    BY DEF Sync
  <2>2. cron_period' \in {0} \cup 31..90 /\ second' \in 0..59 /\ minute' \in 0..(Minutes - 1)
    BY <1>1, <1>2 DEF Sync
  <2> QED BY <2>1, <2>2 DEF ClockTypes
<1>4. TimerAgrees'
  <2>1. running' = TRUE
    BY DEF Sync
  <2>2. cron_period' > 0
    BY <1>2 DEF Sync
  <2> QED BY <2>1, <2>2 DEF TimerAgrees
<1>5. NextMinute'
  BY DEF Sync, NextMinute
<1>6. EveryMinute'
  BY DEF Sync, Inv, EveryMinute
<1> QED BY <1>3, <1>4, <1>5, <1>6 DEF Inv

\* So does stopping the timer.
LEMMA StopKeeps ==
  ASSUME Inv, Stop, enabled' \in BOOLEAN
  PROVE  Inv'
<1>1. ClockTypes'
  <2>1. enabled' \in BOOLEAN /\ running' \in BOOLEAN /\ on_time' \in BOOLEAN
    BY DEF Stop, Inv, ClockTypes
  <2>2. cron_period' \in {0} \cup 31..90 /\ second' \in 0..59 /\ minute' \in 0..(Minutes - 1)
    BY DEF Stop, Inv, ClockTypes
  <2> QED BY <2>1, <2>2 DEF ClockTypes
<1>2. TimerAgrees'
  <2>1. running' = FALSE
    BY DEF Stop
  <2>2. ~(cron_period' > 0)
    BY DEF Stop
  <2> QED BY <2>1, <2>2 DEF TimerAgrees
<1>3. NextMinute'
  BY DEF Stop, Inv, NextMinute
<1>4. EveryMinute'
  BY DEF Stop, Inv, EveryMinute
<1> QED BY <1>1, <1>2, <1>3, <1>4 DEF Inv

\* And so does a step that leaves the clock and the timer alone.
LEMMA IdleKeeps ==
  ASSUME Inv, UNCHANGED <<enabled, running, clock>>
  PROVE  Inv'
BY DEF Inv, ClockTypes, TimerAgrees, NextMinute, EveryMinute, clock

\* The timer's callback: the one place where minutes pass.
LEMMA TimerKeeps ==
  ASSUME Inv, NEW error \in -MaxEarly..MaxLate, cron_execute(error)
  PROVE  Inv'
<1> DEFINE t == second + cron_period + error
<1>1. error \in -29..29
  BY CronConstants
<1>2. /\ second \in 0..59 /\ cron_period \in 31..90
      /\ minute \in 0..(Minutes - 1)
  BY DEF Inv, ClockTypes, cron_execute
<1>3. enabled = TRUE /\ enabled' = TRUE
  <2>1. cron_period > 0
    BY <1>2
  <2>2. enabled
    BY <2>1 DEF Inv, TimerAgrees
  <2>3. enabled \in BOOLEAN
    BY DEF Inv, ClockTypes
  <2>4. enabled' = enabled
    BY DEF cron_execute
  <2> QED BY <2>2, <2>3, <2>4
<1>4. t \in Nat /\ t < 180
  BY <1>1, <1>2
<1>5. t % 60 \in 0..59 /\ t \div 60 \in 0..2
  BY <1>4, SplitTime
<1>6. /\ second' = t % 60
      /\ minute' = (minute + t \div 60) % Minutes
      /\ on_time' = (t % 60 < 30)
      /\ advance' = IF on_time /\ t % 60 < 30 THEN t \div 60 ELSE 1
  BY DEF cron_execute
<1>7. cron_period' = Period(t % 60) /\ running' = TRUE
  BY <1>3 DEF cron_execute
<1>8. Period(t % 60) \in 31..90 /\ (t % 60 < 30 => Period(t % 60) = 60 - (t % 60))
  BY <1>5, PeriodRange
<1>9. ClockTypes'
  <2>1. minute + t \div 60 \in Nat /\ Minutes \in Nat \ {0}
    BY <1>2, <1>5, CronConstants
  <2>2. minute' \in 0..(Minutes - 1)
    BY <2>1, <1>6
  <2>3. cron_period' \in {0} \cup 31..90 /\ second' \in 0..59
    BY <1>5, <1>6, <1>7, <1>8
  <2>4. enabled' \in BOOLEAN /\ running' \in BOOLEAN /\ on_time' \in BOOLEAN
    BY <1>3, <1>6, <1>7
  <2> QED BY <2>2, <2>3, <2>4 DEF ClockTypes
<1>10. TimerAgrees'
  <2>1. cron_period' > 0
    BY <1>7, <1>8
  <2> QED BY <2>1, <1>3, <1>7 DEF TimerAgrees
<1>11. NextMinute'
  <2> SUFFICES ASSUME on_time' PROVE second' < 30 /\ cron_period' \in {0, 60 - second'}
    BY DEF NextMinute
  <2>1. t % 60 < 30
    BY <1>6
  <2> QED BY <2>1, <1>6, <1>7, <1>8
<1>12. EveryMinute'
  <2>1. CASE on_time /\ t % 60 < 30
    <3>1. cron_period = 60 - second
      BY <2>1, <1>2 DEF Inv, NextMinute
    <3>2. t = 60 + error
      BY <3>1, <1>1, <1>2
    <3>3. t \div 60 = 1
      BY <3>2, <2>1, <1>1, OneMinute
    <3> QED BY <3>3, <2>1, <1>6 DEF EveryMinute
  <2>2. CASE ~(on_time /\ t % 60 < 30)
    BY <2>2, <1>6 DEF EveryMinute
  <2> QED BY <2>1, <2>2
<1> QED BY <1>9, <1>10, <1>11, <1>12 DEF Inv

LEMMA InitKeeps == CronInit => Inv
<1> SUFFICES ASSUME CronInit PROVE Inv
  OBVIOUS
<1>1. ClockTypes
  <2>1. enabled \in BOOLEAN /\ running \in BOOLEAN /\ on_time \in BOOLEAN
    BY DEF CronInit
  <2>2. cron_period \in {0} \cup 31..90 /\ second \in 0..59 /\ minute \in 0..(Minutes - 1)
    BY CronConstants DEF CronInit
  <2> QED BY <2>1, <2>2 DEF ClockTypes
<1>2. TimerAgrees
  <2>1. running = FALSE /\ ~(cron_period > 0)
    BY DEF CronInit
  <2> QED BY <2>1 DEF TimerAgrees
<1>3. NextMinute /\ EveryMinute
  BY DEF CronInit, NextMinute, EveryMinute
<1> QED BY <1>1, <1>2, <1>3 DEF Inv

LEMMA RestartKeeps ==
  ASSUME Inv, CronRestart
  PROVE  Inv'
<1>1. ClockTypes'
  <2>1. enabled' \in BOOLEAN /\ running' \in BOOLEAN /\ on_time' \in BOOLEAN
    BY DEF CronRestart, Inv, ClockTypes
  <2>2. cron_period' \in {0} \cup 31..90 /\ second' \in 0..59 /\ minute' \in 0..(Minutes - 1)
    BY CronConstants DEF CronRestart
  <2> QED BY <2>1, <2>2 DEF ClockTypes
<1>2. TimerAgrees'
  <2>1. running' = FALSE /\ ~(cron_period' > 0)
    BY DEF CronRestart
  <2> QED BY <2>1 DEF TimerAgrees
<1>3. NextMinute' /\ EveryMinute'
  BY DEF CronRestart, NextMinute, EveryMinute
<1> QED BY <1>1, <1>2, <1>3 DEF Inv

\* Every step of the scheduler keeps the invariant.
LEMMA NextKeeps ==
  ASSUME Inv, [CronNext]_cronVars
  PROVE  Inv'
<1>1. ASSUME NEW m \in 0..(Minutes - 1), NEW s \in Seconds, cron_sync(m, s)
      PROVE  Inv'
  <2>1. enabled' = TRUE
    BY <1>1 DEF cron_sync, Inv, ClockTypes
  <2> QED BY <1>1, <2>1, SyncKeeps DEF cron_sync
<1>2. ASSUME NEW m \in 0..(Minutes - 1), NEW s \in Seconds, cron_start(m, s)
      PROVE  Inv'
  <2>1. enabled' = TRUE
    BY <1>2 DEF cron_start, Inv, ClockTypes
  <2> QED BY <1>2, <2>1, SyncKeeps DEF cron_start
<1>3. ASSUME NEW m \in 0..(Minutes - 1), NEW s \in Seconds, cron_enable(m, s)
      PROVE  Inv'
  <2>1. CASE running
    <3>1. UNCHANGED <<running, clock>> /\ enabled' = TRUE
      BY <1>3, <2>1 DEF cron_enable
    <3>2. enabled = TRUE
      BY <2>1 DEF Inv, ClockTypes, TimerAgrees
    <3> QED BY <3>1, <3>2, IdleKeeps
  <2>2. CASE ~running
    <3>1. Sync(m, s) /\ enabled' = TRUE
      BY <1>3, <2>2 DEF cron_enable
    <3> QED BY <3>1, SyncKeeps
  <2> QED BY <2>1, <2>2
<1>4. ASSUME cron_disable PROVE Inv'
  BY <1>4, StopKeeps DEF cron_disable
<1>5. ASSUME cron_stop PROVE Inv'
  <2>1. Stop /\ enabled' \in BOOLEAN
    BY <1>5 DEF cron_stop, Inv, ClockTypes
  <2> QED BY <2>1, StopKeeps
<1>6. ASSUME NEW field \in JobFields, NEW command \in Commands, cron_add_job(field, command)
      PROVE  Inv'
  BY <1>6, IdleKeeps DEF cron_add_job
<1>7. ASSUME NEW id \in 1..MaxJobs, cron_del_job(id) PROVE Inv'
  BY <1>7, IdleKeeps DEF cron_del_job
<1>8. ASSUME Timer PROVE Inv'
  BY <1>8, TimerKeeps DEF Timer
<1>9. ASSUME Visit PROVE Inv'
  <2>1. UNCHANGED <<enabled, running, clock>>
    BY <1>9 DEF Visit
  <2> QED BY <2>1, IdleKeeps
<1>10. ASSUME EndWalk PROVE Inv'
  BY <1>10, IdleKeeps DEF EndWalk
<1>11. ASSUME CronRestart PROVE Inv'
  BY <1>11, RestartKeeps
<1>12. ASSUME UNCHANGED cronVars PROVE Inv'
  BY <1>12, IdleKeeps DEF cronVars
<1> QED
  BY <1>1, <1>2, <1>3, <1>4, <1>5, <1>6, <1>7, <1>8, <1>9, <1>10, <1>11, <1>12
  DEF CronNext, Calls

\* The invariant holds of the scheduler, whatever the application asks of it.
THEOREM InvCorrect == CronSpec => []Inv
<1>1. Inv /\ [CronNext]_cronVars => Inv'
  BY NextKeeps
<1> QED BY InitKeeps, <1>1, PTL DEF CronSpec

\* The timer is armed exactly while cron runs, and then cron is enabled: however
\* enabling, disabling, starting, stopping and the timer's own callback follow each other.
THEOREM TimerCorrect == CronSpec => []TimerAgrees
<1>1. Inv => TimerAgrees
  BY DEF Inv
<1> QED BY InvCorrect, <1>1, PTL

\* A timer that is late by less than half a minute, every time, skips no minute and
\* walks none twice: from one walk on time to the next exactly one minute passes.
THEOREM MinuteCorrect == CronSpec => []EveryMinute
<1>1. Inv => EveryMinute
  BY DEF Inv
<1> QED BY InvCorrect, <1>1, PTL

-----------------------------------------------------------------------------
(***************************************************************************)
(* The walk of the jobs.  A search for a free identifier goes through the  *)
(* list once: what it finds are places that grow, so that it leaves the    *)
(* cursor on the last job (SearchEnds), and a walk whose command adds a    *)
(* job goes on behind every job there was.                                 *)
(***************************************************************************)
Least(S) == CHOOSE i \in S : \A j \in S : i <= j

LEMMA LeastIs ==
  ASSUME NEW S, S \subseteq Nat, S # {}
  PROVE  Least(S) \in S /\ \A j \in S : Least(S) <= j
<1>1. PICK k \in S : \A m \in S : <<m, k>> \notin OpToRel(<, Nat)
  BY WFMin, NatLessThanWellFounded, Zenon
<1>2. ASSUME NEW m \in S
      PROVE  ~(m < k)
  BY <1>1, <1>2 DEF OpToRel
<1>3. k \in Nat /\ \A m \in S : m \in Nat
  BY <1>1
<1>4. ASSUME NEW m \in S
      PROVE  k <= m
  <2>1. ~(m < k) /\ m \in Nat /\ k \in Nat
    BY <1>2, <1>3
  <2> QED BY <2>1
<1>5. \E i \in S : \A j \in S : i <= j
  BY <1>1, <1>4
<1> QED
  BY <1>5, Zenon DEF Least

LEMMA PositionIs ==
  ASSUME NEW js \in Seq(Job), NEW from \in Nat \ {0}, NEW id
  PROVE  /\ Position(js, from, id) \in 0..Len(js)
         /\ Position(js, from, id) # 0 => /\ Position(js, from, id) >= from
                                          /\ js[Position(js, from, id)].id = id
<1> DEFINE found == {i \in from..Len(js) : js[i].id = id}
<1>1. Len(js) \in Nat
  OBVIOUS
<1>2. Position(js, from, id) = IF found = {} THEN 0 ELSE Least(found)
  BY DEF Position, Least
<1>3. found \subseteq Nat
  BY <1>1
<1>4. ASSUME found # {} PROVE Least(found) \in found
  <2> HIDE DEF found
  <2> QED BY <1>3, <1>4, LeastIs
<1>5. CASE found = {}
  BY <1>1, <1>2, <1>5
<1>6. CASE found # {}
  <2> DEFINE p == Least(found)
  <2>1. p \in from..Len(js) /\ js[p].id = id /\ Position(js, from, id) = p
    BY <1>2, <1>4, <1>6
  <2> HIDE DEF p
  <2> QED BY <1>1, <2>1
<1> QED
  BY <1>5, <1>6

\* One step of the search: from where an identifier was found to where the next one is.
Search(js, at, idx) ==
  IF idx = 0 THEN 1
  ELSE IF at[idx - 1] = 0 THEN 0 ELSE Position(js, at[idx - 1], idx)

Traces(js, n, at) == at = [idx \in 0..n |-> Search(js, at, idx)]

LEMMA SearchExists ==
  ASSUME NEW js, NEW n \in Nat
  PROVE  \E at : Traces(js, n, at)
<1> DEFINE Bad == {k \in Nat : ~ \E at : Traces(js, k, at)}
<1>1. SUFFICES ASSUME Bad # {} PROVE FALSE
  OBVIOUS
<1>2. PICK k \in Bad : \A m \in Bad : <<m, k>> \notin OpToRel(<, Nat)
  BY <1>1, WFMin, NatLessThanWellFounded, Zenon
<1>3. k \in Nat /\ \A m \in Nat : m < k => \E at : Traces(js, m, at)
  BY <1>2 DEF OpToRel
<1>4. CASE k = 0
  <2> DEFINE at == [idx \in 0..0 |-> 1]
  <2>1. at = [idx \in 0..0 |-> Search(js, at, idx)]
    BY DEF Search
  <2> QED
    BY <1>2, <1>4, <2>1 DEF Traces
<1>5. CASE k # 0
  <2>1. k - 1 \in Nat /\ k - 1 < k
    BY <1>3, <1>5
  <2>2. PICK at : Traces(js, k - 1, at)
    BY <1>3, <2>1
  <2> DEFINE on == [idx \in 0..k |-> IF idx < k THEN at[idx] ELSE Search(js, at, k)]
  <2>3. ASSUME NEW idx \in 0..k PROVE on[idx] = Search(js, on, idx)
    <3>1. idx # 0 => on[idx - 1] = at[idx - 1]
      BY <1>3
    <3>2. Search(js, on, idx) = Search(js, at, idx)
      BY <3>1 DEF Search
    <3>3. ASSUME idx < k PROVE at[idx] = Search(js, at, idx)
      <4>1. idx \in 0..(k - 1)
        BY <1>3, <3>3
      <4>2. \A i \in 0..(k - 1) : at[i] = Search(js, at, i)
        BY <2>2, Zenon DEF Traces
      <4> QED BY <4>1, <4>2
    <3>4. idx < k \/ idx = k
      BY <1>3
    <3> QED
      BY <3>2, <3>3, <3>4
  <2>4. on = [idx \in 0..k |-> Search(js, on, idx)]
    BY <2>3
  <2> QED
    BY <1>2, <2>4 DEF Traces
<1> QED
  BY <1>4, <1>5

LEMMA AtIs ==
  ASSUME NEW js \in Seq(Job)
  PROVE  /\ At(js)[0] = 1
         /\ \A idx \in 1..Len(js) :
              At(js)[idx] = IF At(js)[idx - 1] = 0 THEN 0 ELSE Position(js, At(js)[idx - 1], idx)
<1>1. Len(js) \in Nat
  OBVIOUS
<1>2. At(js) = CHOOSE at : at = [idx \in 0..Len(js) |-> Search(js, at, idx)]
  BY DEF At, Search
<1>3. At(js) = CHOOSE at : Traces(js, Len(js), at)
  BY <1>2, Zenon DEF Traces
<1>4. Traces(js, Len(js), At(js))
  BY <1>1, <1>3, SearchExists, Zenon
<1>5. \A idx \in 0..Len(js) : At(js)[idx] = Search(js, At(js), idx)
  BY <1>4, Zenon DEF Traces
<1> QED
  BY <1>1, <1>5 DEF Search

\* While identifiers are found, each one is behind the one before.
LEMMA SearchGrows ==
  ASSUME NEW js \in Seq(Job), Unused(js) = {}, NEW n \in 1..Len(js)
  PROVE  At(js)[n] \in n..Len(js) /\ js[At(js)[n]].id = n
<1> DEFINE Grown(k) == At(js)[k] \in k..Len(js) /\ js[At(js)[k]].id = k
           Bad == {k \in 1..Len(js) : ~Grown(k)}
<1>0. Len(js) \in Nat
  OBVIOUS
<1>1. SUFFICES ASSUME Bad # {} PROVE FALSE
  OBVIOUS
<1>2. Bad \subseteq Nat
  BY <1>0
<1>3. PICK k \in Bad : \A m \in Bad : k <= m
  BY <1>1, <1>2, LeastIs
<1>4. k \in 1..Len(js) /\ k \in Nat
  BY <1>0, <1>3
<1>5. At(js)[k] # 0 /\ (k # 1 => At(js)[k - 1] # 0)
  <2>1. \A j \in 1..Len(js) : At(js)[j] # 0
    BY DEF Unused
  <2>2. k # 1 => k - 1 \in 1..Len(js)
    BY <1>0, <1>4
  <2> QED
    BY <1>4, <2>1, <2>2
<1>6. CASE k = 1
  <2>1. At(js)[0] = 1 /\ k - 1 = 0
    BY <1>6, AtIs
  <2>2. At(js)[1] = Position(js, 1, 1)
    BY <1>4, <1>6, <2>1, AtIs
  <2>3. Grown(1)
    BY <1>0, <1>5, <1>6, <2>2, PositionIs
  <2> QED
    BY <1>3, <1>6, <2>3
<1>7. CASE k # 1
  <2>1. k - 1 \in 1..Len(js) /\ ~(k <= k - 1)
    BY <1>0, <1>4, <1>7
  <2>2. Grown(k - 1)
    BY <1>3, <2>1
  <2> DEFINE p == At(js)[k - 1]
  <2>3. p \in (k - 1)..Len(js) /\ js[p].id = k - 1 /\ p \in Nat \ {0}
    BY <1>0, <2>1, <2>2
  <2>4. At(js)[k] = Position(js, p, k)
    BY <1>4, <1>5, <1>7, AtIs
  <2> HIDE DEF p
  <2>5. At(js)[k] >= p /\ js[At(js)[k]].id = k /\ At(js)[k] \in 0..Len(js)
    BY <1>5, <2>3, <2>4, PositionIs
  <2>6. At(js)[k] # p
    BY <1>4, <2>3, <2>5
  <2>7. Grown(k)
    BY <1>0, <1>4, <2>3, <2>5, <2>6
  <2> QED
    BY <1>3, <2>7
<1> QED
  BY <1>6, <1>7

LEMMA SearchEnds ==
  ASSUME NEW js \in Seq(Job)
  PROVE  AfterSearch(js) = Len(js)
<1>1. Len(js) \in Nat /\ (js # <<>> => Len(js) \in 1..Len(js))
  BY EmptySeq
<1>2. CASE Unused(js) = {} /\ js # <<>>
  BY <1>1, <1>2, SearchGrows DEF AfterSearch
<1>3. CASE ~(Unused(js) = {} /\ js # <<>>)
  BY <1>3 DEF AfterSearch
<1> QED
  BY <1>2, <1>3

-----------------------------------------------------------------------------
\* Between two steps: while the walk is at a job so is the cursor, and the jobs whose
\* command ran are in front of it.
ListTypes ==
  /\ jobs \in Seq(Job) /\ Len(jobs) <= MaxJobs
  /\ cursor \in -1..MaxJobs /\ current_job \in 0..MaxJobs
  /\ walking \in BOOLEAN /\ undefined \in BOOLEAN
  /\ ran \subseteq 1..MaxJobs

Ahead ==
  walking /\ current_job > 0 =>
    cursor = current_job /\ current_job <= Len(jobs) /\ ran \subseteq 1..(current_job - 1)

ListInv == ListTypes /\ Ahead

LEMMA FreeIdIs ==
  ASSUME NEW js \in Seq(Job), Len(js) < MaxJobs
  PROVE  FreeId(js) \in 1..MaxJobs
<1>1. Len(js) \in Nat /\ MaxJobs \in Nat
  BY CronConstants
<1>2. Unused(js) \subseteq 1..Len(js) /\ Unused(js) \subseteq Nat
  BY <1>1 DEF Unused
<1>3. FreeId(js) = IF Unused(js) = {} THEN Len(js) + 1 ELSE Least(Unused(js))
  BY DEF FreeId, Least
<1>4. CASE Unused(js) = {}
  BY <1>1, <1>3, <1>4
<1>5. CASE Unused(js) # {}
  <2>1. Least(Unused(js)) \in Unused(js)
    BY <1>2, <1>5, LeastIs
  <2> QED BY <1>1, <1>2, <1>3, <1>5, <2>1
<1> QED
  BY <1>4, <1>5

\* An added job is behind all the others, and the list keeps within its maximum.
LEMMA AddedIs ==
  ASSUME NEW js \in Seq(Job), Len(js) <= MaxJobs, NEW field \in JobFields, NEW command \in Commands
  PROVE  Added(js, field, command) \in Seq(Job) /\ Len(Added(js, field, command)) <= MaxJobs
<1>1. Len(js) \in Nat /\ MaxJobs \in Nat
  BY CronConstants
<1>2. Commands \subseteq {"plain", "add", "del"}
  BY CronConstants
<1>3. CASE Len(js) < MaxJobs
  <2> DEFINE job == [id |-> FreeId(js), minute |-> field, command |-> command]
  <2>1. job \in Job
    BY <1>3, FreeIdIs DEF Job
  <2>2. Added(js, field, command) = Append(js, job)
    BY <1>3 DEF Added
  <2> HIDE DEF job
  <2> QED BY <1>1, <1>3, <2>1, <2>2
<1>4. CASE ~(Len(js) < MaxJobs)
  BY <1>4 DEF Added
<1> QED
  BY <1>3, <1>4

LEMMA DeletedIs ==
  ASSUME NEW js \in Seq(Job), Len(js) <= MaxJobs, NEW id
  PROVE  /\ Deleted(js, id) \in Seq(Job)
         /\ Len(Deleted(js, id)) <= Len(js) /\ Len(Deleted(js, id)) <= MaxJobs
<1>1. Len(js) \in Nat /\ MaxJobs \in Nat
  BY CronConstants
<1> DEFINE p == Position(js, 1, id)
<1>2. p \in 0..Len(js)
  BY PositionIs
<1>3. Deleted(js, id) = IF p = 0 THEN js ELSE SubSeq(js, 1, p - 1) \o SubSeq(js, p + 1, Len(js))
  BY DEF Deleted
<1> HIDE DEF p
<1>4. CASE p = 0
  BY <1>3, <1>4
<1>5. CASE p # 0
  <2> DEFINE front == SubSeq(js, 1, p - 1)
             back  == SubSeq(js, p + 1, Len(js))
  <2>1. front \in Seq(Job) /\ Len(front) = p - 1
    BY <1>1, <1>2, <1>5, SubSeqProperties
  <2>2. back \in Seq(Job) /\ Len(back) = Len(js) - p
    BY <1>1, <1>2, <1>5, SubSeqProperties
  <2>3. Deleted(js, id) = front \o back
    BY <1>3, <1>5
  <2> HIDE DEF front, back
  <2>4. front \o back \in Seq(Job) /\ Len(front \o back) = Len(front) + Len(back)
    BY <2>1, <2>2, ConcatProperties
  <2> QED BY <1>1, <1>2, <1>5, <2>1, <2>2, <2>3, <2>4
<1> QED
  BY <1>4, <1>5

\* After a command the walk goes on behind the job that ran, or ends.
LEMMA GoOnKeeps ==
  ASSUME ListInv, walking, current_job > 0,
         NEW js \in Seq(Job), Len(js) <= MaxJobs,
         NEW c \in Int, c = Dangling \/ c \in current_job..MaxJobs,
         GoOn(js, c), ran' = ran \/ ran' = ran \cup {current_job}
  PROVE  ListInv'
<1>1. Len(js) \in Nat /\ MaxJobs \in Nat
  BY CronConstants
<1>2. current_job \in 1..MaxJobs /\ ran \subseteq 1..MaxJobs /\ ran \subseteq 1..(current_job - 1)
  BY <1>1 DEF ListInv, ListTypes, Ahead
<1>3. c \in -1..MaxJobs
  BY <1>1, <1>2 DEF Dangling
<1>4. ran' \subseteq 1..current_job /\ ran' \subseteq 1..MaxJobs
  <2>1. \A r \in ran' : r \in ran \/ r = current_job
    OBVIOUS
  <2>2. \A r \in ran : r \in 1..current_job /\ r \in 1..MaxJobs
    BY <1>1, <1>2
  <2>3. current_job \in 1..current_job /\ current_job \in 1..MaxJobs
    BY <1>1, <1>2
  <2>4. \A r \in ran' : r \in 1..current_job /\ r \in 1..MaxJobs
    BY <2>1, <2>2, <2>3, Zenon
  <2> QED BY <2>4
<1>5. jobs' = js /\ undefined' \in BOOLEAN /\ walking' \in BOOLEAN
  BY DEF GoOn
<1>6. CASE c > 0 /\ c < Len(js)
  <2>1. cursor' = c + 1 /\ current_job' = c + 1
    BY <1>6 DEF GoOn
  <2>2. c + 1 \in 1..MaxJobs /\ c + 1 <= Len(js) /\ c >= current_job
    BY <1>1, <1>2, <1>3, <1>6 DEF Dangling
  <2>3. ran' \subseteq 1..(current_job' - 1)
    BY <1>2, <1>3, <1>4, <2>1, <2>2
  <2>4. ListTypes'
    BY <1>1, <1>4, <1>5, <2>1, <2>2 DEF ListTypes
  <2> QED BY <1>5, <2>1, <2>2, <2>3, <2>4 DEF ListInv, Ahead
<1>7. CASE ~(c > 0 /\ c < Len(js))
  <2>1. cursor' = c /\ current_job' = 0
    BY <1>7 DEF GoOn
  <2>2. ListTypes'
    BY <1>1, <1>3, <1>4, <1>5, <2>1 DEF ListTypes
  <2> QED BY <2>1, <2>2 DEF ListInv, Ahead
<1> QED
  BY <1>6, <1>7

\* A command leaves the list within its maximum, and the cursor on its job, behind it or
\* on memory that was freed: nowhere in front.
LEMMA VisitGoesOn ==
  ASSUME ListInv, Visit
  PROVE  \E js \in Seq(Job), c \in Int :
           /\ Len(js) <= MaxJobs
           /\ c = Dangling \/ c \in current_job..MaxJobs
           /\ GoOn(js, c)
<1> DEFINE Goes(js, c) == /\ Len(js) <= MaxJobs
                          /\ c = Dangling \/ c \in current_job..MaxJobs
                          /\ GoOn(js, c)
<1>1. walking /\ current_job > 0
  BY DEF Visit
<1>2. /\ jobs \in Seq(Job) /\ Len(jobs) <= MaxJobs /\ Len(jobs) \in Nat /\ MaxJobs \in Nat
      /\ current_job \in 1..MaxJobs /\ cursor = current_job /\ current_job <= Len(jobs)
  BY <1>1, CronConstants DEF ListInv, ListTypes, Ahead
<1>3. cursor \in Int /\ cursor \in current_job..MaxJobs
  BY <1>2
<1>4. CASE GoOn(jobs, cursor)
  BY <1>2, <1>3, <1>4
<1>5. ASSUME NEW field \in JobFields, NEW command \in Commands,
             GoOn(Added(jobs, field, command), AfterSearch(jobs))
      PROVE  \E js \in Seq(Job), c \in Int : Goes(js, c)
  <2> DEFINE js == Added(jobs, field, command)
             c  == AfterSearch(jobs)
  <2>1. js \in Seq(Job) /\ Len(js) <= MaxJobs
    BY <1>2, AddedIs
  <2>2. c \in Int /\ c \in current_job..MaxJobs
    BY <1>2, SearchEnds
  <2>3. GoOn(js, c)
    BY <1>5
  <2> HIDE DEF js, c
  <2> QED BY <2>1, <2>2, <2>3
<1>6. ASSUME NEW id \in 1..MaxJobs, GoOn(Deleted(jobs, id), AfterDelete(jobs, id))
      PROVE  \E js \in Seq(Job), c \in Int : Goes(js, c)
  <2> DEFINE js == Deleted(jobs, id)
             c  == AfterDelete(jobs, id)
  <2>1. js \in Seq(Job) /\ Len(js) <= MaxJobs
    BY <1>2, DeletedIs
  <2>2. c \in Int /\ (c = Dangling \/ c \in current_job..MaxJobs)
    BY <1>2 DEF AfterDelete, Dangling
  <2>3. GoOn(js, c)
    BY <1>6
  <2> HIDE DEF js, c
  <2> QED BY <2>1, <2>2, <2>3
<1>7. \/ GoOn(jobs, cursor)
      \/ \E field \in JobFields, command \in Commands :
           GoOn(Added(jobs, field, command), AfterSearch(jobs))
      \/ \E id \in 1..MaxJobs : GoOn(Deleted(jobs, id), AfterDelete(jobs, id))
  BY DEF Visit
<1> QED
  BY <1>4, <1>5, <1>6, <1>7

LEMMA VisitKeeps ==
  ASSUME ListInv, Visit
  PROVE  ListInv'
<1>1. PICK js \in Seq(Job), c \in Int :
        /\ Len(js) <= MaxJobs
        /\ c = Dangling \/ c \in current_job..MaxJobs
        /\ GoOn(js, c)
  BY VisitGoesOn
<1>2. walking /\ current_job > 0 /\ (ran' = ran \/ ran' = ran \cup {current_job})
  BY DEF Visit
<1> QED BY <1>1, <1>2, GoOnKeeps

LEMMA ListRest ==
  ASSUME ListInv, UNCHANGED <<list, walk>>
  PROVE  ListInv'
BY DEF ListInv, ListTypes, Ahead, list, walk

LEMMA ListKeeps ==
  ASSUME ListInv, [CronNext]_cronVars
  PROVE  ListInv'
<1>0. /\ jobs \in Seq(Job) /\ Len(jobs) <= MaxJobs /\ Len(jobs) \in Nat /\ MaxJobs \in Nat \ {0}
  BY CronConstants DEF ListInv, ListTypes
<1>1. ASSUME NEW m \in 0..(Minutes - 1), NEW s \in Seconds,
             cron_sync(m, s) \/ cron_start(m, s) \/ cron_enable(m, s)
      PROVE  ListInv'
  <2>1. UNCHANGED <<list, walk>>
    BY <1>1 DEF cron_sync, cron_start, cron_enable
  <2> QED BY <2>1, ListRest
<1>2. ASSUME cron_disable \/ cron_stop PROVE ListInv'
  BY <1>2, ListRest DEF cron_disable, cron_stop
<1>3. ASSUME NEW field \in JobFields, NEW command \in Commands, cron_add_job(field, command)
      PROVE  ListInv'
  <2>1. jobs' \in Seq(Job) /\ Len(jobs') <= MaxJobs
    BY <1>0, <1>3, AddedIs DEF cron_add_job
  <2>2. cursor' \in -1..MaxJobs
    BY <1>0, <1>3, SearchEnds DEF cron_add_job
  <2>3. UNCHANGED walk /\ ~walking
    BY <1>3 DEF cron_add_job, Outside
  <2> QED BY <2>1, <2>2, <2>3 DEF ListInv, ListTypes, Ahead, walk
<1>4. ASSUME NEW id \in 1..MaxJobs, cron_del_job(id) PROVE ListInv'
  <2>1. jobs' \in Seq(Job) /\ Len(jobs') <= MaxJobs
    BY <1>0, <1>4, DeletedIs DEF cron_del_job
  <2>2. cursor' \in -1..MaxJobs
    BY <1>0, <1>4 DEF cron_del_job, AfterDelete, Dangling
  <2>3. UNCHANGED walk /\ ~walking
    BY <1>4 DEF cron_del_job, Outside
  <2> QED BY <2>1, <2>2, <2>3 DEF ListInv, ListTypes, Ahead, walk
<1>5. ASSUME Timer PROVE ListInv'
  <2>1. /\ walking' = TRUE /\ ran' = {} /\ current_job' = cursor'
        /\ cursor' = IF jobs = <<>> THEN 0 ELSE 1
        /\ UNCHANGED <<enabled, jobs, undefined>>
    BY <1>5 DEF Timer, cron_execute
  <2>2. jobs # <<>> => Len(jobs) >= 1
    BY <1>0, EmptySeq
  <2> QED BY <1>0, <2>1, <2>2 DEF ListInv, ListTypes, Ahead
<1>6. ASSUME Visit PROVE ListInv'
  BY <1>6, VisitKeeps
<1>7. ASSUME EndWalk PROVE ListInv'
  BY <1>7 DEF EndWalk, list, ListInv, ListTypes, Ahead
<1>8. ASSUME CronRestart PROVE ListInv'
  <2>1. <<>> \in Seq(Job) /\ Len(<<>>) = 0
    OBVIOUS
  <2>2. /\ jobs' = <<>> /\ cursor' = 0 /\ current_job' = 0
        /\ ~walking' /\ ran' = {} /\ ~undefined' /\ walking' \in BOOLEAN /\ undefined' \in BOOLEAN
    BY <1>8 DEF CronRestart
  <2>3. 0 \in -1..MaxJobs /\ 0 \in 0..MaxJobs /\ 0 <= MaxJobs
    BY <1>0
  <2>4. ListTypes'
    BY <2>1, <2>2, <2>3 DEF ListTypes
  <2> QED BY <2>2, <2>4 DEF ListInv, Ahead
<1>9. ASSUME UNCHANGED cronVars PROVE ListInv'
  BY <1>9, ListRest DEF cronVars
<1> QED
  BY <1>1, <1>2, <1>3, <1>4, <1>5, <1>6, <1>7, <1>8, <1>9 DEF CronNext, Calls

LEMMA ListInit == CronInit => ListInv
<1>1. <<>> \in Seq(Job) /\ Len(<<>>) = 0
  OBVIOUS
<1> SUFFICES ASSUME CronInit PROVE ListInv
  OBVIOUS
<1>2. /\ jobs = <<>> /\ cursor = 0 /\ current_job = 0
      /\ ~walking /\ ran = {} /\ ~undefined /\ walking \in BOOLEAN /\ undefined \in BOOLEAN
  BY DEF CronInit
<1>3. 0 \in -1..MaxJobs /\ 0 \in 0..MaxJobs /\ 0 <= MaxJobs
  BY CronConstants
<1>4. ListTypes
  BY <1>1, <1>2, <1>3 DEF ListTypes
<1> QED BY <1>2, <1>4 DEF ListInv, Ahead

THEOREM ListCorrect == CronSpec => []ListInv
<1>1. ListInv /\ [CronNext]_cronVars => ListInv'
  BY ListKeeps
<1> QED BY ListInit, <1>1, PTL DEF CronSpec

\* Whatever jobs the commands of a walk add or delete, and wherever that leaves the
\* list's one cursor, the walk never comes back to a job whose command it ran.
THEOREM NoRerunCorrect == CronSpec => []NoRerun
<1>1. ListInv => NoRerun
  <2> SUFFICES ASSUME ListInv, walking, current_job > 0, current_job \in ran
               PROVE  FALSE
    BY DEF NoRerun
  <2>1. current_job \in 1..(current_job - 1) /\ current_job \in Int
    BY CronConstants DEF ListInv, ListTypes, Ahead
  <2> QED BY <2>1
<1> QED BY ListCorrect, <1>1, PTL

\* A walk that goes on is at a later place of the list, and there are MaxJobs of them: it
\* ends after that many jobs, whatever their commands add.  That it does end (WalkEnds)
\* takes only fairness beyond this.
MovesOn == walking /\ walking' => current_job' \in (current_job + 1)..MaxJobs

THEOREM WalkCorrect == CronSpec => [][MovesOn]_cronVars
<1>1. ASSUME ListInv, CronNext PROVE MovesOn
  <2>1. CASE Visit
    <3>1. PICK js \in Seq(Job), c \in Int :
            /\ Len(js) <= MaxJobs
            /\ c = Dangling \/ c \in current_job..MaxJobs
            /\ GoOn(js, c)
      BY <1>1, <2>1, VisitGoesOn
    <3>2. /\ current_job' = IF c > 0 /\ c < Len(js) THEN c + 1 ELSE 0
          /\ walking' = (current_job' > 0)
      BY <3>1 DEF GoOn
    <3>3. Len(js) \in Nat /\ MaxJobs \in Nat /\ current_job \in Nat
      BY <1>1, CronConstants DEF ListInv, ListTypes
    <3>4. walking' => current_job' > 0
      BY <3>2, Zenon
    <3>5. current_job' > 0 => current_job' \in (current_job + 1)..MaxJobs
      BY <3>1, <3>2, <3>3 DEF Dangling
    <3> QED BY <3>4, <3>5, Zenon DEF MovesOn
  <2>2. CASE ~Visit
    <3>1. EndWalk \/ CronRestart => ~walking'
      BY DEF EndWalk, CronRestart
    <3>2. Calls => ~walking
      BY DEF Calls, cron_sync, cron_start, cron_enable, cron_disable, cron_stop,
             cron_add_job, cron_del_job, Outside
    <3>3. Timer => ~walking
      BY DEF Timer, cron_execute, Outside
    <3> QED BY <1>1, <2>2, <3>1, <3>2, <3>3 DEF CronNext, MovesOn
  <2> QED BY <2>1, <2>2
<1>2. ListInv /\ [CronNext]_cronVars => [MovesOn]_cronVars
  BY <1>1
<1> QED BY ListCorrect, <1>2, PTL DEF CronSpec

\* The variables keep their types: the list never holds more jobs than its maximum, and
\* their identifiers stay within it.
THEOREM TypeCorrect == CronSpec => []CronTypeOK
<1>1. Inv /\ ListInv => CronTypeOK
  <2> SUFFICES ASSUME Inv, ListInv PROVE CronTypeOK
    OBVIOUS
  <2>1. /\ enabled \in BOOLEAN /\ running \in BOOLEAN /\ on_time \in BOOLEAN
        /\ minute \in 0..(Minutes - 1) /\ second \in 0..59
    BY DEF Inv, ClockTypes
  <2>2. cron_period \in 0..90 /\ advance \in 0..2
    BY DEF Inv, ClockTypes, EveryMinute
  <2> QED BY <2>1, <2>2 DEF ListInv, ListTypes, CronTypeOK
<1> QED BY InvCorrect, ListCorrect, <1>1, PTL

-----------------------------------------------------------------------------
(***************************************************************************)
(* The identifiers.                                                        *)
(***************************************************************************)
\* The identifiers are the places of the jobs in the list.
InOrder(js) == \A i \in 1..Len(js) : js[i].id = i

\* A place of the list that is still there has its job still: no job was deleted but the last.
KeepsPlaces == \A i \in (DOMAIN jobs) \cap (DOMAIN jobs') : jobs'[i] = jobs[i]

\* In a list in order an identifier is found at its place, from wherever before it.
LEMMA PositionInOrder ==
  ASSUME NEW js \in Seq(Job), InOrder(js), NEW from \in Nat \ {0}, NEW id \in from..Len(js)
  PROVE  Position(js, from, id) = id
<1> DEFINE found == {i \in from..Len(js) : js[i].id = id}
<1>1. Len(js) \in Nat /\ id \in 1..Len(js)
  OBVIOUS
<1>2. \A i \in from..Len(js) : js[i].id = i
  BY <1>1 DEF InOrder
<1>3. found = {id}
  BY <1>1, <1>2
<1>4. Position(js, from, id) = IF found = {} THEN 0 ELSE Least(found)
  BY DEF Position, Least
<1>5. Least({id}) \in {id}
  <2>1. {id} \subseteq Nat /\ {id} # {}
    BY <1>1
  <2> QED BY <2>1, LeastIs, Zenon
<1> HIDE DEF found
<1> QED BY <1>3, <1>4, <1>5

\* There the search tries every identifier in use, and takes the next one.
LEMMA FreeInOrder ==
  ASSUME NEW js \in Seq(Job), InOrder(js)
  PROVE  FreeId(js) = Len(js) + 1
<1> DEFINE Bad == {k \in 1..Len(js) : At(js)[k] # k}
<1>0. Len(js) \in Nat
  OBVIOUS
<1>1. ASSUME Bad # {} PROVE FALSE
  <2>0. Bad \subseteq Nat
    BY <1>0
  <2>1. PICK k \in Bad : \A m \in Bad : k <= m
    BY <1>1, <2>0, LeastIs
  <2>2. k \in 1..Len(js) /\ k \in Nat /\ k - 1 \in 0..Len(js)
    BY <1>0, <2>1
  <2>3. At(js)[k - 1] = IF k = 1 THEN 1 ELSE k - 1
    <3>1. CASE k = 1
      BY <3>1, AtIs
    <3>2. CASE k # 1
      <4>1. k - 1 \in 1..Len(js) /\ ~(k <= k - 1)
        BY <2>2, <3>2
      <4> QED BY <2>1, <3>2, <4>1
    <3> QED BY <3>1, <3>2
  <2> DEFINE from == At(js)[k - 1]
  <2>4. from \in Nat \ {0} /\ k \in from..Len(js)
    BY <2>2, <2>3
  <2>5. At(js)[k] = Position(js, from, k)
    BY <2>2, <2>4, AtIs
  <2> HIDE DEF from
  <2> QED BY <2>1, <2>4, <2>5, PositionInOrder
<1>2. \A k \in 1..Len(js) : At(js)[k] # 0
  BY <1>0, <1>1
<1> QED BY <1>2 DEF FreeId, Unused

LEMMA AddedInOrder ==
  ASSUME NEW js \in Seq(Job), InOrder(js), Len(js) <= MaxJobs,
         NEW field \in JobFields, NEW command \in Commands
  PROVE  InOrder(Added(js, field, command))
<1>1. Len(js) \in Nat /\ MaxJobs \in Nat
  BY CronConstants
<1>2. CASE Len(js) < MaxJobs
  <2> DEFINE job == [id |-> FreeId(js), minute |-> field, command |-> command]
  <2>1. job.id = Len(js) + 1
    BY FreeInOrder
  <2>2. Added(js, field, command) = Append(js, job)
    BY <1>2 DEF Added
  <2> HIDE DEF job
  <2>3. /\ Len(Append(js, job)) = Len(js) + 1
        /\ Append(js, job)[Len(js) + 1] = job
        /\ \A i \in 1..Len(js) : Append(js, job)[i] = js[i]
    BY <1>1
  <2> QED BY <1>1, <2>1, <2>2, <2>3 DEF InOrder
<1>3. CASE ~(Len(js) < MaxJobs)
  BY <1>3 DEF Added
<1> QED BY <1>2, <1>3

LEMMA OrderKeeps ==
  ASSUME ListInv, InOrder(jobs), [CronNext]_cronVars, [KeepsPlaces]_jobs
  PROVE  InOrder(jobs)'
<1>1. jobs \in Seq(Job) /\ Len(jobs) <= MaxJobs
  BY DEF ListInv, ListTypes
<1>2. jobs' \in Seq(Job)
  BY ListKeeps DEF ListInv, ListTypes
<1>3. ASSUME NEW field \in JobFields, NEW command \in Commands,
             jobs' = Added(jobs, field, command)
      PROVE  InOrder(jobs)'
  BY <1>1, <1>3, AddedInOrder DEF InOrder
<1>4. ASSUME NEW id \in 1..MaxJobs, jobs' = Deleted(jobs, id) PROVE InOrder(jobs)'
  <2>1. Len(jobs') <= Len(jobs)
    BY <1>1, <1>4, DeletedIs
  <2>2. \A i \in 1..Len(jobs') : i \in 1..Len(jobs)
    BY <1>1, <1>2, <2>1
  <2>3. \A i \in 1..Len(jobs') : jobs'[i] = jobs[i]
    BY <1>1, <1>2, <2>2 DEF KeepsPlaces
  <2> QED BY <2>2, <2>3 DEF InOrder
<1>5. CASE jobs' = jobs
  BY <1>5 DEF InOrder
<1>6. CASE jobs' = <<>>
  BY <1>6 DEF InOrder
<1>7. \/ jobs' = jobs \/ jobs' = <<>>
      \/ \E field \in JobFields, command \in Commands : jobs' = Added(jobs, field, command)
      \/ \E id \in 1..MaxJobs : jobs' = Deleted(jobs, id)
  <2>1. CASE Visit
    BY <2>1 DEF Visit, GoOn
  <2>2. CASE Calls
    BY <2>2 DEF Calls, cron_sync, cron_start, cron_enable, cron_disable, cron_stop,
                cron_add_job, cron_del_job, list
  <2>3. CASE Timer \/ EndWalk \/ CronRestart \/ UNCHANGED cronVars
    BY <2>3 DEF Timer, cron_execute, EndWalk, CronRestart, cronVars, list
  <2> QED BY <2>1, <2>2, <2>3 DEF CronNext
<1> QED BY <1>3, <1>4, <1>5, <1>6, <1>7

\* As long as no job was deleted but the last one, no two jobs have the same identifier
\* (UniqueIds): the search that does not start again from the front misses an identifier
\* only in a list that a deletion has put out of order.
THEOREM IdsCorrect == CronSpec /\ [][KeepsPlaces]_jobs => []UniqueIds
<1>1. CronInit => InOrder(jobs)
  BY DEF CronInit, InOrder
<1>2. ListInv /\ InOrder(jobs) /\ [CronNext]_cronVars /\ [KeepsPlaces]_jobs => InOrder(jobs)'
  BY OrderKeeps
<1>3. ListInv /\ InOrder(jobs) => UniqueIds
  <2> SUFFICES ASSUME ListInv, InOrder(jobs) PROVE UniqueIds
    OBVIOUS
  <2>1. DOMAIN jobs = 1..Len(jobs)
    BY DEF ListInv, ListTypes
  <2> QED BY <2>1 DEF InOrder, UniqueIds
<1> QED BY ListCorrect, <1>1, <1>2, <1>3, PTL DEF CronSpec

-----------------------------------------------------------------------------
(***************************************************************************)
(* The clock.  What is off is the saved pair.  The ticks since it was      *)
(* saved are counted exactly, whatever turn the RTC made, but each of them *)
(* lasted anything from Shortest to Longest: so the bound of the pair's    *)
(* error (Bounded) falls by Shortest, or Longest, for every tick, and a    *)
(* reading adds what it measures them to and half a second.                *)
(***************************************************************************)
Pairs == [sntp_time : Nat, rtc_time : 0..RtcSize]

TimeTypes ==
  /\ {now, gap, ticks, roundings} \subseteq Nat
  /\ rtc \in 0..RtcSize
  /\ pair \in Pairs
  /\ stamped \in BOOLEAN /\ sure \in BOOLEAN

Lossy == Spread + Cut
Offset(p) == Second * p.sntp_time - now

\* SNTP answers no time before the first second of the epoch.
Begun == sure => now >= Second

Counted ==
  sure => /\ gap < RtcSize /\ gap <= ticks /\ Since(pair, rtc) = gap
          /\ \A cal \in Periods : Micros(gap, cal) < Wrap

Above(o, n, g, t) == o <= One * Half * n + Spread * (t - g) - Shortest * g
Below(o, n, g, t) == o > -(Second + One * Half * n + Lossy * (t - g) + Longest * g)
Bounded == sure => /\ Above(Offset(pair), roundings, gap, ticks)
                   /\ Below(Offset(pair), roundings, gap, ticks)

TimeInv == TimeTypes /\ Begun /\ Counted /\ Bounded

\* Division of natural numbers.
LEMMA DivIs ==
  ASSUME NEW d \in Nat, NEW n \in Nat \ {0}
  PROVE  d = n * (d \div n) + (d % n) /\ d % n \in 0..(n - 1) /\ d \div n \in Nat
<1>1. d % n \in 0..(n - 1) /\ d \div n \in Int /\ d = n * (d \div n) + (d % n)
  BY SMT
<1>2. d \div n \in Nat
  BY <1>1, SMT
<1> QED BY <1>1, <1>2

LEMMA ClockNumbers ==
  /\ {One, Milli, Half, Wrap, PerSecond, Second} \subseteq Nat \ {0}
  /\ {RtcSize, Shortest, Longest} \subseteq Nat
  /\ Cut \in Nat \ {0} /\ One < Milli * Cut
  /\ PerSecond = 2 * Half
  /\ \A cal \in Periods : cal \in Shortest..Longest
<1>1. /\ {One, Milli, Half, Wrap} \subseteq Nat \ {0} /\ {RtcSize, Shortest, Longest} \subseteq Nat
      /\ \A cal \in Periods : cal \in Shortest..Longest
  BY ClockConstants
<1>2. PerSecond \in Nat \ {0} /\ PerSecond = 2 * Half
  BY <1>1 DEF PerSecond
<1>3. Second \in Nat \ {0}
  BY <1>1, <1>2 DEF Second
<1>4. /\ One = Milli * (One \div Milli) + (One % Milli)
      /\ One % Milli \in 0..(Milli - 1) /\ One \div Milli \in Nat
  BY <1>1, DivIs
<1> DEFINE q == One \div Milli
<1>5. Cut \in Nat \ {0} /\ Milli * Cut = Milli * q + Milli
  <2>1. Cut = q + 1 /\ q \in Nat
    BY <1>4 DEF Cut
  <2> HIDE DEF q
  <2> QED BY <1>1, <2>1
<1> QED BY <1>1, <1>2, <1>3, <1>4, <1>5

\* Rounding a time adds at most half a second to it and takes less than one.
LEMMA RoundedIs ==
  ASSUME NEW d \in Nat
  PROVE  Rounded(d) \in Nat /\ PerSecond * Rounded(d) - d \in (1 - Half)..Half
<1> DEFINE q == d \div PerSecond
           m == d % PerSecond
<1>1. d = PerSecond * q + m /\ m \in 0..(PerSecond - 1) /\ q \in Nat
  <2>1. PerSecond \in Nat \ {0}
    BY ClockNumbers
  <2> QED BY <2>1, DivIs
<1>2. Rounded(d) = q + IF m >= Half THEN 1 ELSE 0
  BY DEF Rounded
<1>3. PerSecond = 2 * Half /\ Half \in Nat \ {0}
  BY ClockNumbers
<1> HIDE DEF q, m
<1>4. CASE m >= Half
  <2>1. Rounded(d) = q + 1 /\ PerSecond * Rounded(d) = PerSecond * q + PerSecond
    BY <1>1, <1>2, <1>3, <1>4
  <2> QED BY <1>1, <1>3, <1>4, <2>1
<1>5. CASE ~(m >= Half)
  <2>1. Rounded(d) = q
    BY <1>1, <1>2, <1>5
  <2> QED BY <1>1, <1>3, <1>5, <2>1
<1> QED BY <1>4, <1>5

\* The microseconds of d ticks of the length cal: the factor loses less than Cut parts of a
\* tick, and the division less than a microsecond.
LEMMA MicrosIs ==
  ASSUME NEW d \in Nat, NEW cal \in Nat
  PROVE  /\ Micros(d, cal) \in Nat
         /\ One * Micros(d, cal) <= d * cal
         /\ One * Micros(d, cal) > d * cal - d * Cut - One
<1> DEFINE f == (cal * Milli) \div One
           e == (d * f) \div Milli
<1>1. One \in Nat \ {0} /\ Milli \in Nat \ {0} /\ Cut \in Nat \ {0} /\ One < Milli * Cut
  BY ClockNumbers
<1>2. PICK m \in 0..(One - 1) : cal * Milli = One * f + m /\ f \in Nat
  <2>1. cal * Milli \in Nat
    BY <1>1
  <2> QED BY <1>1, <2>1, DivIs
<1>3. PICK n \in 0..(Milli - 1) : d * f = Milli * e + n /\ e \in Nat
  <2> HIDE DEF f
  <2>1. d * f \in Nat
    BY <1>2
  <2> QED BY <1>1, <2>1, DivIs
<1>4. Micros(d, cal) = e
  BY DEF Micros
<1> HIDE DEF f, e
\* In parts of a thousandth: Milli * One * e is d * cal * Milli without d * m and One * n.
<1>5. Milli * (One * e) = Milli * (d * cal) - d * m - One * n
  <2>1. One * (d * f) = One * (Milli * e) + One * n
    BY <1>1, <1>2, <1>3
  <2>2. d * (cal * Milli) = d * (One * f) + d * m
    BY <1>1, <1>2, <1>3
  <2>3. /\ d * (cal * Milli) = Milli * (d * cal) /\ d * (One * f) = One * (d * f)
        /\ One * (Milli * e) = Milli * (One * e)
    BY <1>1, <1>2, <1>3
  <2>4. d * m \in Nat /\ One * n \in Nat /\ Milli * (One * e) \in Nat /\ Milli * (d * cal) \in Nat
    BY <1>1, <1>2, <1>3
  <2> QED BY <2>1, <2>2, <2>3, <2>4
<1>6. One * e \in Nat /\ d * cal \in Nat /\ d * m \in Nat /\ One * n \in Nat /\ d * Cut \in Nat
  BY <1>1, <1>2, <1>3
<1>7. One * e <= d * cal
  BY <1>1, <1>5, <1>6
<1>8. d * m <= Milli * (d * Cut)
  <2>1. d * m <= d * (Milli * Cut)
    BY <1>1, <1>2
  <2>2. d * (Milli * Cut) = Milli * (d * Cut)
    BY <1>1
  <2> QED BY <2>1, <2>2
<1>9. One * n < Milli * One
  BY <1>1, <1>3
<1>10. Milli * (One * e) > Milli * (d * cal - d * Cut - One)
  <2>1. Milli * (d * cal - d * Cut - One) = Milli * (d * cal) - Milli * (d * Cut) - Milli * One
    BY <1>1, <1>6
  <2>2. Milli * (d * cal) \in Nat /\ Milli * (d * Cut) \in Nat /\ Milli * One \in Nat
    BY <1>1, <1>6
  <2> QED BY <1>5, <1>6, <1>8, <1>9, <2>1, <2>2
<1>11. One * e > d * cal - d * Cut - One
  BY <1>1, <1>6, <1>10
<1> QED BY <1>3, <1>4, <1>7, <1>11

\* What a reading after d ticks adds to the pair.
LEMMA MeasuredIs ==
  ASSUME NEW d \in Nat, NEW cal \in Periods
  PROVE  LET R == Rounded(Micros(d, cal))
         IN  /\ R \in Nat
             /\ Second * R <= Longest * d + One * Half
             /\ Second * R > Shortest * d - Cut * d - One * Half
             /\ d = 0 => R = 0
<1> DEFINE e == Micros(d, cal)
           R == Rounded(e)
<1>1. /\ One \in Nat \ {0} /\ Half \in Nat \ {0} /\ PerSecond \in Nat \ {0} /\ Cut \in Nat
      /\ Shortest \in Nat /\ Longest \in Nat /\ cal \in Shortest..Longest /\ cal \in Nat
      /\ Second = One * PerSecond
  BY ClockNumbers DEF Second
<1>2. e \in Nat /\ One * e <= d * cal /\ One * e > d * cal - d * Cut - One
  BY <1>1, MicrosIs
<1>3. R \in Nat /\ PerSecond * R - e \in (1 - Half)..Half
  BY <1>2, RoundedIs
<1>4. d = 0 => R = 0
  <2> SUFFICES ASSUME d = 0 PROVE R = 0
    OBVIOUS
  <2>1. One * e <= 0
    BY <1>1, <1>2
  <2>2. e = 0
    <3> HIDE DEF e
    <3> QED BY <1>1, <1>2, <2>1
  <2>3. PerSecond * R <= Half /\ PerSecond = 2 * Half
    <3> HIDE DEF e, R
    <3> QED BY <1>1, <1>3, <2>2, ClockNumbers
  <2> HIDE DEF e, R
  <2>4. R >= 1 => PerSecond * R >= PerSecond
    BY <1>1, <1>3
  <2> QED BY <1>1, <1>3, <2>3, <2>4
<1> HIDE DEF e, R
<1>5. PICK x \in (1 - Half)..Half : PerSecond * R = e + x
  BY <1>1, <1>2, <1>3
<1>6. Second * R = One * e + One * x
  <2>1. Second * R = One * (PerSecond * R)
    BY <1>1, <1>3
  <2> QED BY <1>1, <1>2, <1>5, <2>1
<1>7. One * x <= One * Half /\ One * x >= One - One * Half
  BY <1>1, <1>5
<1>8. d * cal <= Longest * d /\ d * cal >= Shortest * d /\ d * Cut = Cut * d
  BY <1>1
<1>9. /\ Second * R \in Int /\ One * e \in Int /\ One * x \in Int /\ One * Half \in Int
      /\ d * cal \in Int /\ Longest * d \in Int /\ Shortest * d \in Int /\ Cut * d \in Int
  BY <1>1, <1>2, <1>3, <1>5
<1>10. /\ Second * R <= Longest * d + One * Half
       /\ Second * R > Shortest * d - Cut * d - One * Half
  BY <1>1, <1>2, <1>6, <1>7, <1>8, <1>9
<1> QED BY <1>3, <1>4, <1>10 DEF e, R

\* The bounds of the error after a reading, and after k ticks of the length c.
LEMMA ReadBounds ==
  ASSUME NEW o \in Int, NEW n \in Nat, NEW g \in Nat, NEW t \in Nat, NEW r \in Nat,
         Above(o, n, g, t), Below(o, n, g, t),
         Second * r <= Longest * g + One * Half,
         Second * r > Shortest * g - Cut * g - One * Half
  PROVE  Above(o + Second * r, n + 1, 0, t) /\ Below(o + Second * r, n + 1, 0, t)
<1>1. /\ One \in Nat /\ Half \in Nat /\ Second \in Nat /\ Cut \in Nat
      /\ Shortest \in Nat /\ Longest \in Nat /\ Spread = Longest - Shortest
      /\ Lossy = Spread + Cut
  BY ClockNumbers DEF Spread, Lossy
<1> DEFINE h == One * Half
<1>2. h \in Nat /\ h * (n + 1) = h * n + h
  BY <1>1
<1>3. /\ Spread * (t - g) = Spread * t - Spread * g /\ Spread * g = Longest * g - Shortest * g
      /\ Lossy * (t - g) = Lossy * t - Lossy * g
      /\ Lossy * g = Longest * g - Shortest * g + Cut * g
  BY <1>1
<1>4. /\ Spread * t \in Int /\ Lossy * t \in Int /\ h * n \in Int /\ Second * r \in Int
      /\ Spread * g \in Int /\ Lossy * g \in Int
      /\ Longest * g \in Int /\ Shortest * g \in Int /\ Cut * g \in Int
  BY <1>1, <1>2
<1>5. /\ o <= h * n + Spread * (t - g) - Shortest * g
      /\ o > -(Second + h * n + Lossy * (t - g) + Longest * g)
  BY DEF Above, Below
<1>6. Second * r <= Longest * g + h /\ Second * r > Shortest * g - Cut * g - h
  OBVIOUS
<1> HIDE DEF h
<1>7. /\ o + Second * r <= h * (n + 1) + Spread * t
      /\ o + Second * r > -(Second + h * (n + 1) + Lossy * t)
  BY <1>1, <1>2, <1>3, <1>4, <1>5, <1>6
<1>8. Spread * (t - 0) = Spread * t /\ Lossy * (t - 0) = Lossy * t /\ Shortest * 0 = 0 /\ Longest * 0 = 0
  BY <1>1
<1>9. /\ o + Second * r <= h * (n + 1) + Spread * (t - 0) - Shortest * 0
      /\ o + Second * r > -(Second + h * (n + 1) + Lossy * (t - 0) + Longest * 0)
  BY <1>1, <1>2, <1>4, <1>7, <1>8
<1> QED BY <1>9 DEF Above, Below, h

LEMMA PassBounds ==
  ASSUME NEW o \in Int, NEW n \in Nat, NEW g \in Nat, NEW t \in Nat, NEW k \in Nat,
         NEW c \in Shortest..Longest, Above(o, n, g, t), Below(o, n, g, t)
  PROVE  Above(o - k * c, n, g + k, t + k) /\ Below(o - k * c, n, g + k, t + k)
<1>1. /\ One \in Nat /\ Half \in Nat /\ Second \in Nat /\ Cut \in Nat
      /\ Shortest \in Nat /\ Longest \in Nat /\ Spread \in Int /\ Lossy \in Int /\ c \in Nat
  BY ClockNumbers DEF Spread, Lossy
<1>2. k * c >= Shortest * k /\ k * c <= Longest * k
  BY <1>1
<1>3. /\ Shortest * (g + k) = Shortest * g + Shortest * k
      /\ Longest * (g + k) = Longest * g + Longest * k
      /\ (t + k) - (g + k) = t - g
  BY <1>1
<1>4. /\ One * Half * n \in Int /\ Spread * (t - g) \in Int /\ Lossy * (t - g) \in Int
      /\ k * c \in Int /\ Shortest * k \in Int /\ Longest * k \in Int
      /\ Shortest * g \in Int /\ Longest * g \in Int
  BY <1>1
<1>5. /\ o <= One * Half * n + Spread * (t - g) - Shortest * g
      /\ o > -(Second + One * Half * n + Lossy * (t - g) + Longest * g)
  BY DEF Above, Below
<1>6. /\ o - k * c <= One * Half * n + Spread * (t - g) - Shortest * (g + k)
      /\ o - k * c > -(Second + One * Half * n + Lossy * (t - g) + Longest * (g + k))
  BY <1>1, <1>2, <1>3, <1>4, <1>5
<1> QED BY <1>3, <1>6 DEF Above, Below

LEMMA SntpIs ==
  ASSUME now \in Nat, NEW st \in BOOLEAN
  PROVE  /\ Sntp(st) \in Nat
         /\ Sntp(st) > 0 => Second * Sntp(st) - now \in (1 - Second)..0
         /\ st /\ now >= Second => Sntp(st) > 0
<1> DEFINE q == now \div Second
<1>1. Second \in Nat \ {0}
  BY ClockNumbers
<1>2. now = Second * q + (now % Second) /\ now % Second \in 0..(Second - 1) /\ q \in Nat
  BY <1>1, DivIs
<1>3. Sntp(st) = IF st THEN q ELSE 0
  BY DEF Sntp
<1> HIDE DEF q
<1>4. now >= Second => q > 0
  BY <1>1, <1>2
<1> QED BY <1>1, <1>2, <1>3, <1>4

LEMMA SinceIs ==
  ASSUME TimeTypes, NEW p \in Pairs
  PROVE  Since(p, rtc) \in Nat
BY ClockNumbers DEF Since, TimeTypes, Pairs

LEMMA ElapsedIs ==
  ASSUME TimeTypes, NEW p \in Pairs, NEW cal \in Periods
  PROVE  /\ Elapsed(p, rtc, cal) \in Nat
         /\ Micros(Since(p, rtc), cal) < Wrap
              => Elapsed(p, rtc, cal) = Micros(Since(p, rtc), cal)
<1> DEFINE e == Micros(Since(p, rtc), cal)
<1>1. cal \in Nat /\ Wrap \in Nat \ {0}
  BY ClockNumbers
<1>2. e \in Nat
  BY <1>1, SinceIs, MicrosIs
<1>3. Elapsed(p, rtc, cal) = e % Wrap
  BY DEF Elapsed
<1> HIDE DEF e
<1>4. e % Wrap \in Nat /\ (e < Wrap => e % Wrap = e)
  <2>1. e = Wrap * (e \div Wrap) + (e % Wrap) /\ e % Wrap \in 0..(Wrap - 1) /\ e \div Wrap \in Nat
    BY <1>1, <1>2, DivIs
  <2> DEFINE q == e \div Wrap
  <2>2. e = Wrap * q + (e % Wrap) /\ q \in Nat /\ e % Wrap \in 0..(Wrap - 1)
    BY <2>1
  <2> HIDE DEF q
  <2>3. q >= 1 => Wrap * q >= Wrap
    BY <1>1, <2>2
  <2>4. q = 0 => Wrap * q = 0
    BY <1>1
  <2> QED BY <1>1, <1>2, <2>2, <2>3, <2>4
<1> QED BY <1>3, <1>4 DEF e

\* What a reading leaves of any pair: the count starts again, and with SNTP's time the
\* clock is right to the second.
LEMMA ReadIs ==
  ASSUME TimeTypes, NEW st \in BOOLEAN, NEW p \in Pairs, ReadAt(p, st), stamped' \in BOOLEAN
  PROVE  /\ TimeTypes' /\ Counted'
         /\ now' = now /\ gap' = 0 /\ sure' = (sure \/ Sntp(st) > 0)
         /\ IF Sntp(st) > 0 THEN Begun' /\ Bounded'
            ELSE \E cal \in Periods :
                   /\ pair'.sntp_time = p.sntp_time + Rounded(Elapsed(p, rtc, cal))
                   /\ ticks' = ticks
                   /\ roundings' = IF Since(p, rtc) = 0 THEN roundings ELSE roundings + 1
<1> DEFINE a == Sntp(st)
<1>1. PICK cal \in Periods : pair' = Reading(p, st, cal)
  BY DEF ReadAt
<1> DEFINE e == Elapsed(p, rtc, cal)
<1>2. /\ {now, ticks, roundings} \subseteq Nat /\ rtc \in 0..RtcSize /\ RtcSize \in Nat
      /\ sure \in BOOLEAN /\ p.sntp_time \in Nat /\ {Second, One, Half, Wrap} \subseteq Nat \ {0}
  BY ClockNumbers DEF TimeTypes, Pairs
<1>3. Rounded(e) \in Nat
  BY <1>1, ElapsedIs, RoundedIs
<1>4. a \in Nat /\ (a > 0 => Second * a - now \in (1 - Second)..0)
  BY <1>2, SntpIs
<1>5. /\ pair' = [sntp_time |-> IF a > 0 THEN a ELSE p.sntp_time + Rounded(e), rtc_time |-> rtc]
      /\ gap' = 0 /\ now' = now /\ rtc' = rtc /\ sure' = (sure \/ a > 0)
      /\ ticks' = IF a > 0 THEN 0 ELSE ticks
      /\ roundings' = IF a > 0 THEN 0 ELSE IF Since(p, rtc) = 0 THEN roundings ELSE roundings + 1
  BY <1>1 DEF ReadAt, Reading
<1> HIDE DEF a, e
<1>6. TimeTypes'
  BY <1>2, <1>3, <1>4, <1>5 DEF TimeTypes, Pairs
<1>7. gap' < RtcSize /\ gap' <= ticks' /\ Since(pair, rtc)' = gap'
      /\ \A c \in Periods : Micros(gap', c) < Wrap
  <2>1. Since(pair, rtc)' = 0
    BY <1>2, <1>5 DEF Since
  <2>2. ticks' \in Nat /\ 0 < RtcSize
    BY <1>2, <1>5, ClockConstants
  <2>3. ASSUME NEW c \in Periods PROVE Micros(0, c) < Wrap
    <3>1. c \in Nat
      BY ClockNumbers
    <3>2. Micros(0, c) \in Nat /\ One * Micros(0, c) <= 0 * c
      BY <3>1, MicrosIs
    <3>3. Micros(0, c) = 0
      BY <1>2, <3>1, <3>2
    <3> QED BY <1>2, <3>3
  <2> QED BY <1>5, <2>1, <2>2, <2>3
<1>8. CASE a > 0
  <2>1. now >= Second /\ Second * a - now \in (1 - Second)..0
    <3>1. Second * a >= Second
      BY <1>2, <1>4, <1>8
    <3> QED BY <1>2, <1>4, <1>8, <3>1
  <2>2. Begun'
    BY <1>5, <2>1 DEF Begun
  <2>3. /\ Offset(pair)' = Second * a - now /\ roundings' = 0 /\ ticks' = 0 /\ gap' = 0
    BY <1>5, <1>8 DEF Offset
  <2>4. Bounded'
    <3>1. Spread \in Int /\ Lossy \in Int /\ Shortest \in Nat /\ Longest \in Nat
      BY ClockNumbers DEF Spread, Lossy
    <3>2. /\ One * Half * 0 = 0 /\ Spread * (0 - 0) = 0 /\ Lossy * (0 - 0) = 0
          /\ Shortest * 0 = 0 /\ Longest * 0 = 0
      BY <1>2, <3>1
    <3>3. \A o \in (1 - Second)..0 : Above(o, 0, 0, 0) /\ Below(o, 0, 0, 0)
      BY <1>2, <3>2 DEF Above, Below
    <3>4. Above(Offset(pair)', roundings', gap', ticks') /\ Below(Offset(pair)', roundings', gap', ticks')
      BY <2>1, <2>3, <3>3
    <3> QED BY <3>4 DEF Bounded, Above, Below
  <2> QED BY <1>5, <1>6, <1>7, <1>8, <2>2, <2>4 DEF Counted, a
<1>9. CASE ~(a > 0)
  <2>1. /\ pair'.sntp_time = p.sntp_time + Rounded(e) /\ ticks' = ticks
        /\ roundings' = IF Since(p, rtc) = 0 THEN roundings ELSE roundings + 1
    BY <1>5, <1>9
  <2> QED BY <1>1, <1>5, <1>6, <1>7, <1>9, <2>1 DEF Counted, a, e
<1> QED BY <1>8, <1>9

\* A reading of a pair that is sure leaves one that is off by its rounding more.
LEMMA ReadKeeps ==
  ASSUME TimeInv, NEW st \in BOOLEAN, ReadAt(pair, st), stamped' \in BOOLEAN
  PROVE  TimeInv'
<1>1. /\ TimeTypes /\ pair \in Pairs /\ {now, gap, ticks, roundings} \subseteq Nat
      /\ pair.sntp_time \in Nat /\ Second \in Nat
  BY ClockNumbers DEF TimeInv, TimeTypes, Pairs
<1>2. /\ TimeTypes' /\ Counted'
      /\ now' = now /\ gap' = 0 /\ sure' = (sure \/ Sntp(st) > 0)
      /\ IF Sntp(st) > 0 THEN Begun' /\ Bounded'
         ELSE \E cal \in Periods :
                /\ pair'.sntp_time = pair.sntp_time + Rounded(Elapsed(pair, rtc, cal))
                /\ ticks' = ticks
                /\ roundings' = IF Since(pair, rtc) = 0 THEN roundings ELSE roundings + 1
  BY <1>1, ReadIs
<1>3. CASE Sntp(st) > 0
  BY <1>2, <1>3 DEF TimeInv
<1>4. CASE ~(Sntp(st) > 0)
  <2>1. SUFFICES ASSUME sure' PROVE Begun' /\ Bounded'
    BY <1>2 DEF TimeInv, Begun, Bounded
  <2>2. sure /\ Begun'
    BY <1>2, <1>4, <2>1 DEF TimeInv, Begun
  <2>3. PICK cal \in Periods :
          /\ pair'.sntp_time = pair.sntp_time + Rounded(Elapsed(pair, rtc, cal))
          /\ ticks' = ticks
          /\ roundings' = IF Since(pair, rtc) = 0 THEN roundings ELSE roundings + 1
    BY <1>2, <1>4
  <2> DEFINE R == Rounded(Micros(gap, cal))
             o == Offset(pair)
  <2>4. Since(pair, rtc) = gap /\ Elapsed(pair, rtc, cal) = Micros(gap, cal)
    BY <1>1, <2>2, ElapsedIs DEF TimeInv, Counted
  <2>5. /\ R \in Nat /\ (gap = 0 => R = 0)
        /\ Second * R <= Longest * gap + One * Half
        /\ Second * R > Shortest * gap - Cut * gap - One * Half
    BY <1>1, MeasuredIs
  <2>6. o \in Int /\ Above(o, roundings, gap, ticks) /\ Below(o, roundings, gap, ticks)
    BY <1>1, <2>2 DEF TimeInv, Bounded, Offset
  <2>7. Above(o + Second * R, roundings + 1, 0, ticks) /\ Below(o + Second * R, roundings + 1, 0, ticks)
    <3> HIDE DEF o, R
    <3> QED BY <1>1, <2>5, <2>6, ReadBounds
  <2>8. Offset(pair)' = o + Second * R
    <3>1. pair'.sntp_time = pair.sntp_time + R /\ now' = now
      BY <1>2, <2>3, <2>4
    <3> HIDE DEF R
    <3> QED BY <1>1, <2>5, <3>1 DEF Offset
  <2>9. gap' = 0 /\ ticks' = ticks /\ roundings' = IF gap = 0 THEN roundings ELSE roundings + 1
    BY <1>2, <2>3, <2>4
  <2> HIDE DEF o
  <2>10. CASE gap = 0
    <3>1. R = 0 /\ roundings' = roundings
      BY <2>5, <2>9, <2>10
    <3>2. o + Second * R = o
      <4> HIDE DEF R
      <4> QED BY <1>1, <2>6, <3>1
    <3> HIDE DEF R
    <3>3. Above(Offset(pair)', roundings', gap', ticks') /\ Below(Offset(pair)', roundings', gap', ticks')
      BY <2>6, <2>8, <2>9, <2>10, <3>1, <3>2
    <3> QED BY <2>2, <3>3 DEF Bounded, Above, Below
  <2>11. CASE gap # 0
    <3> HIDE DEF R
    <3>1. Above(Offset(pair)', roundings', gap', ticks') /\ Below(Offset(pair)', roundings', gap', ticks')
      BY <2>7, <2>8, <2>9, <2>11
    <3> QED BY <2>2, <3>1 DEF Bounded, Above, Below
  <2> QED BY <2>10, <2>11
<1> QED BY <1>3, <1>4

\* The RTC counts the ticks that pass, over its turn, however long they last.
LEMMA PassKeeps ==
  ASSUME TimeInv, Pass
  PROVE  TimeInv'
<1>1. PICK k \in Ticks, c \in Periods :
        /\ now' = now + k * c
        /\ rtc' = IF rtc + k >= RtcSize THEN rtc + k - RtcSize ELSE rtc + k
        /\ gap' = gap + k /\ ticks' = ticks + k
        /\ sure' = (/\ sure /\ gap + k < RtcSize
                    /\ \A cal \in Periods : Micros(gap + k, cal) < Wrap)
        /\ UNCHANGED <<pair, sntp_enabled, sntp_running, stamped, roundings>>
  BY DEF Pass
<1>2. /\ k \in 0..RtcSize /\ k \in Nat /\ c \in Nat /\ c \in Shortest..Longest /\ RtcSize \in Nat
      /\ {now, gap, ticks, roundings} \subseteq Nat /\ rtc \in 0..RtcSize
      /\ pair.sntp_time \in Nat /\ pair.rtc_time \in 0..RtcSize /\ Second \in Nat
  BY ClockNumbers, ClockConstants DEF TimeInv, TimeTypes, Pairs
<1>3. TimeTypes'
  BY <1>1, <1>2 DEF TimeInv, TimeTypes
<1>4. CASE ~sure'
  BY <1>3, <1>4 DEF TimeInv, Begun, Counted, Bounded
<1>5. CASE sure'
  <2>1. /\ gap + k < RtcSize /\ Since(pair, rtc) = gap /\ now >= Second /\ sure /\ gap <= ticks
        /\ \A cal \in Periods : Micros(gap + k, cal) < Wrap
    BY <1>1, <1>5 DEF TimeInv, Counted, Begun
  <2>2. Since(pair, rtc)' = gap + k
    BY <1>1, <1>2, <2>1 DEF Since
  <2>3. k * c \in Nat /\ gap + k <= ticks + k
    BY <1>2, <2>1
  <2>4. Begun' /\ Counted'
    BY <1>1, <1>2, <2>1, <2>2, <2>3 DEF Begun, Counted
  <2> DEFINE o == Offset(pair)
  <2>5. o \in Int /\ Offset(pair)' = o - k * c
    BY <1>1, <1>2, <2>3 DEF Offset
  <2>6. Above(o, roundings, gap, ticks) /\ Below(o, roundings, gap, ticks)
    BY <2>1 DEF TimeInv, Bounded
  <2> HIDE DEF o
  <2>7. Above(o - k * c, roundings, gap + k, ticks + k) /\ Below(o - k * c, roundings, gap + k, ticks + k)
    BY <1>2, <2>5, <2>6, PassBounds
  <2>8. Above(Offset(pair)', roundings', gap', ticks') /\ Below(Offset(pair)', roundings', gap', ticks')
    BY <1>1, <2>5, <2>7
  <2>9. Bounded'
    BY <2>8 DEF Bounded, Above, Below
  <2> QED BY <1>3, <2>4, <2>9 DEF TimeInv
<1> QED BY <1>4, <1>5

\* Given by hand, the time is right, or SNTP's replaces it at once.
LEMMA ByHandKeeps ==
  ASSUME TimeInv, timedate_set_time_manually \/ SetInVain
  PROVE  TimeInv'
<1>0. /\ {RtcSize, Wrap, Second, One, Half} \subseteq Nat \ {0} /\ rtc \in 0..RtcSize /\ TimeTypes
      /\ roundings \in Nat /\ now \in Nat
  BY ClockNumbers, ClockConstants DEF TimeInv, TimeTypes
<1>1. CASE timedate_set_time_manually
  <2>1. PICK t \in Stamps :
          /\ pair' = [sntp_time |-> t, rtc_time |-> rtc] /\ now' = Second * t
          /\ gap' = 0 /\ ticks' = 0 /\ roundings' = 0 /\ sure' = TRUE
          /\ UNCHANGED <<rtc, sntp_enabled, sntp_running, stamped>>
    BY <1>1 DEF timedate_set_time_manually
  <2>2. t \in Nat \ {0} /\ Second * t \in Nat /\ Second * t >= Second
    BY <1>0, ClockConstants
  <2>3. TimeTypes'
    BY <1>0, <2>1, <2>2 DEF TimeTypes, Pairs
  <2>4. Begun' /\ Since(pair, rtc)' = 0
    BY <1>0, <2>1, <2>2 DEF Begun, Since
  <2>5. Counted'
    <3>1. ASSUME NEW c \in Periods PROVE Micros(0, c) < Wrap
      <4>1. c \in Nat
        BY ClockNumbers
      <4>2. Micros(0, c) \in Nat /\ One * Micros(0, c) <= 0 * c
        BY <4>1, MicrosIs
      <4>3. Micros(0, c) = 0
        BY <1>0, <4>1, <4>2
      <4> QED BY <1>0, <4>3
    <3> QED BY <1>0, <2>1, <2>4, <3>1 DEF Counted
  <2>6. Bounded'
    <3>1. Offset(pair)' = 0
      BY <1>0, <2>1, <2>2 DEF Offset
    <3>2. Spread \in Int /\ Lossy \in Int /\ Shortest \in Nat /\ Longest \in Nat
      BY ClockNumbers DEF Spread, Lossy
    <3>3. Above(0, 0, 0, 0) /\ Below(0, 0, 0, 0)
      BY <1>0, <3>2 DEF Above, Below
    <3>4. Above(Offset(pair)', roundings', gap', ticks') /\ Below(Offset(pair)', roundings', gap', ticks')
      BY <2>1, <3>1, <3>3
    <3> QED BY <3>4 DEF Bounded, Above, Below
  <2> QED BY <2>3, <2>4, <2>5, <2>6 DEF TimeInv
<1>2. CASE SetInVain
  <2>1. PICK t \in Stamps : ReadAt([sntp_time |-> t, rtc_time |-> rtc], TRUE) /\ stamped' = stamped
    BY <1>2 DEF SetInVain
  <2>2. [sntp_time |-> t, rtc_time |-> rtc] \in Pairs /\ stamped' \in BOOLEAN
    BY <1>0, <2>1, ClockConstants DEF TimeTypes, Pairs
  <2>3. /\ TimeTypes' /\ Counted' /\ sure' = (sure \/ Sntp(TRUE) > 0)
        /\ (Sntp(TRUE) > 0 => Begun' /\ Bounded')
    BY <1>0, <2>1, <2>2, ReadIs
  <2>4. sure => Sntp(TRUE) > 0
    BY <1>0, SntpIs DEF TimeInv, Begun
  <2> QED BY <2>3, <2>4 DEF TimeInv, Begun, Bounded
<1> QED BY <1>1, <1>2

\* A restart leaves the pair and the counter; what loses either is not sure.
LEMMA BootKeeps ==
  ASSUME TimeInv, timedate_init_essential
  PROVE  TimeInv'
<1>1. RtcSize \in Nat
  BY ClockConstants
<1>2. TimeTypes'
  <2>1. rtc' \in {rtc, 0} /\ pair' \in {pair, [sntp_time |-> 0, rtc_time |-> 0]}
    BY DEF timedate_init_essential
  <2>2. rtc' \in 0..RtcSize /\ pair' \in Pairs
    BY <1>1, <2>1 DEF TimeInv, TimeTypes, Pairs
  <2> QED BY <2>2 DEF TimeInv, TimeTypes, timedate_init_essential
<1>3. sure' => sure /\ UNCHANGED <<rtc, pair, now, gap, ticks, roundings>>
  BY DEF timedate_init_essential
<1>4. Begun' /\ Counted' /\ Bounded'
  BY <1>3 DEF TimeInv, Begun, Counted, Bounded, Since, Offset, Above, Below
<1> QED BY <1>2, <1>4 DEF TimeInv

LEMMA TimeStep ==
  ASSUME TimeInv, [ClockNext]_clockVars
  PROVE  TimeInv'
<1>0. /\ stamped \in BOOLEAN
      /\ \A st \in BOOLEAN : ReadAt(pair, st) /\ stamped' \in BOOLEAN => TimeInv'
  BY ReadKeeps DEF TimeInv, TimeTypes
<1>1. CASE UNCHANGED <<now, rtc, pair, gap, ticks, roundings, sure>> /\ stamped' \in BOOLEAN
  BY <1>1 DEF TimeInv, TimeTypes, Begun, Counted, Bounded, Since, Offset, Above, Below
<1>2. CASE Pass
  BY <1>2, PassKeeps
<1>3. CASE timedate_get_timestamp \/ timedate_start_sntp
  BY <1>0, <1>3 DEF timedate_get_timestamp, timedate_start_sntp
<1>4. CASE timedate_set_time_manually \/ SetInVain
  BY <1>4, ByHandKeeps
<1>5. CASE timedate_stop_sntp
  BY <1>0, <1>5 DEF timedate_stop_sntp
<1>6. CASE timedate_enable_sntp
  BY <1>0, <1>1, <1>6 DEF timedate_enable_sntp
<1>7. CASE timedate_disable_sntp
  BY <1>0, <1>1, <1>7 DEF timedate_disable_sntp
<1>8. CASE SntpAnswers
  BY <1>1, <1>8 DEF SntpAnswers
<1>9. CASE timedate_init_essential
  BY <1>9, BootKeeps
<1>10. CASE UNCHANGED clockVars
  BY <1>0, <1>1, <1>10 DEF clockVars
<1> QED
  BY <1>2, <1>3, <1>4, <1>5, <1>6, <1>7, <1>8, <1>9, <1>10 DEF ClockNext

\* What the clock shows is off by SNTP's fraction, half a second for every reading and for every
\* tick what its measured length differs from the true one: the pair in RTC memory survives
\* restarts and the turn of the RTC's counter.
THEOREM DriftCorrect == ClockSpec => []DriftBounded
<1>1. ClockInit => TimeInv
  <2> SUFFICES ASSUME ClockInit PROVE TimeInv
    OBVIOUS
  <2>1. [sntp_time |-> 0, rtc_time |-> 0] \in Pairs /\ 0 \in 0..RtcSize
    BY ClockConstants DEF Pairs
  <2>2. TimeTypes /\ ~sure
    <3>1. now = 0 /\ gap = 0 /\ ticks = 0 /\ roundings = 0 /\ stamped = FALSE /\ sure = FALSE
      BY DEF ClockInit
    <3>2. rtc \in 0..RtcSize /\ pair \in Pairs
      BY <2>1 DEF ClockInit
    <3>3. {now, gap, ticks, roundings} \subseteq Nat
      BY <3>1
    <3>4. stamped \in BOOLEAN /\ sure \in BOOLEAN /\ ~sure
      BY <3>1, Zenon
    <3> QED BY <3>2, <3>3, <3>4 DEF TimeTypes
  <2> QED BY <2>2 DEF TimeInv, Begun, Counted, Bounded
<1>2. TimeInv /\ [ClockNext]_clockVars => TimeInv'
  BY TimeStep
<1>3. TimeInv => DriftBounded
  <2> SUFFICES ASSUME TimeInv, sure PROVE DriftBounded
    BY DEF DriftBounded
  <2>1. /\ TimeTypes /\ pair \in Pairs /\ pair.sntp_time \in Nat /\ Second \in Nat
        /\ {now, gap, ticks, roundings} \subseteq Nat
    BY ClockNumbers DEF TimeInv, TimeTypes, Pairs
  <2> SUFFICES ASSUME NEW cal \in Periods
               PROVE  /\ ClockError(cal) <= One * Half * (roundings + 1) + Spread * ticks
                      /\ ClockError(cal) > -(Second + One * Half * (roundings + 1) + Lossy * ticks)
    BY DEF DriftBounded, Lossy
  <2> DEFINE R == Rounded(Micros(gap, cal))
             o == Offset(pair)
  <2>2. Elapsed(pair, rtc, cal) = Micros(gap, cal)
    BY <2>1, ElapsedIs DEF TimeInv, Counted
  <2>3. ClockError(cal) = Second * (pair.sntp_time + R) - now
    BY <2>2 DEF ClockError, Reading, Sntp
  <2>4. /\ R \in Nat
        /\ Second * R <= Longest * gap + One * Half
        /\ Second * R > Shortest * gap - Cut * gap - One * Half
    BY <2>1, MeasuredIs
  <2>5. o \in Int /\ Above(o, roundings, gap, ticks) /\ Below(o, roundings, gap, ticks)
    BY <2>1 DEF TimeInv, Bounded, Offset
  <2>6. ClockError(cal) = o + Second * R
    <3> HIDE DEF R
    <3> QED BY <2>1, <2>3, <2>4 DEF Offset
  <2> HIDE DEF o, R
  <2>7. Above(o + Second * R, roundings + 1, 0, ticks) /\ Below(o + Second * R, roundings + 1, 0, ticks)
    BY <2>1, <2>4, <2>5, ReadBounds
  <2>8. /\ Spread \in Int /\ Lossy \in Int /\ {Shortest, Longest, One, Half} \subseteq Nat
        /\ Spread * (ticks - 0) = Spread * ticks /\ Lossy * (ticks - 0) = Lossy * ticks
        /\ Shortest * 0 = 0 /\ Longest * 0 = 0
    BY <2>1, ClockNumbers DEF Spread, Lossy
  <2>9. /\ One * Half * (roundings + 1) \in Int /\ Spread * ticks \in Int /\ Lossy * ticks \in Int
    BY <2>1, <2>8
  <2> QED BY <2>1, <2>6, <2>7, <2>8, <2>9 DEF Above, Below
<1> QED BY <1>1, <1>2, <1>3, PTL DEF ClockSpec
=================================================================================
