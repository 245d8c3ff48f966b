------------------------------- MODULE Clock -------------------------------
(***************************************************************************)
(* The time of day.  With SNTP it is the SDK's; without, it is the last    *)
(* known time plus what the chip's RTC counted since, turned to            *)
(* microseconds by the length of a tick that the SDK measures at the       *)
(* moment of the reading.  The two are a pair in the RTC's memory, which a *)
(* restart leaves as it is and the loss of power erases.  Every reading    *)
(* replaces the pair by the answer, rounded to a second, and the RTC's     *)
(* count.                                                                  *)
(*                                                                         *)
(* A tick of the RTC lasts what the chip's temperature makes of it: one of *)
(* Periods, in parts of a microsecond, and so is what the SDK measures.    *)
(* The true time is in such parts, too.  How many parts a microsecond has, *)
(* and half a second microseconds, are constants: in the code 4096 and     *)
(* 500000.                                                                 *)
(***************************************************************************)
EXTENDS Integers

CONSTANTS
  RtcSize,    \* the RTC's counter starts again from zero
  Wrap,       \* the microseconds since the pair was saved do
  One,        \* the parts of a microsecond: a period is a fixed-point number
  Milli,      \* the factor of ticks has three decimals
  Half,       \* the microseconds in half a second
  Periods,    \* how long a tick may last, and be measured to
  Shortest, Longest,
  MaxTime,    \* bound of the time
  Ticks,      \* how many ticks may pass at once
  Stamps      \* the times given by hand: not the start of the epoch

ASSUME ClockConstants ==
  /\ MaxTime \in Nat
  /\ {RtcSize, Wrap, One, Milli, Half} \subseteq Nat \ {0}
  /\ {Shortest, Longest} \subseteq Nat /\ Periods \subseteq Shortest..Longest
  /\ Ticks \subseteq 0..RtcSize /\ Stamps \subseteq Nat \ {0}

PerSecond == 2 * Half
Second == One * PerSecond

VARIABLES
  now,          \* the true time, as far as somebody told it
  rtc,          \* system_get_rtc_time
  pair,         \* in RTC memory: sntp_time and rtc_time
  sntp_enabled, sntp_running,
  stamped,      \* the SDK has had an answer of an SNTP server
  gap,          \* history: the ticks since the pair was saved
  ticks,        \* history: the ticks since the time was known
  roundings,    \* history: the readings that rounded since the time was known
  sure          \* history: the time was known, and the RTC counted on from it

clockVars == <<now, rtc, pair, sntp_enabled, sntp_running, stamped, gap,
               ticks, roundings, sure>>

Since(p, r) == IF r >= p.rtc_time THEN r - p.rtc_time
               ELSE r + RtcSize - p.rtc_time

\* cal is what system_rtc_clock_cali_proc answers.
Micros(d, cal) == (d * ((cal * Milli) \div One)) \div Milli

\* mutant: ticks are taken for microseconds
Elapsed_InTicks(p, r, cal) == Since(p, r) % Wrap
\* 32 bits are kept.
Elapsed(p, r, cal) == Micros(Since(p, r), cal) % Wrap

Sntp(st) == IF st THEN now \div Second ELSE 0

Rounded(d) == d \div PerSecond + IF d % PerSecond >= Half THEN 1 ELSE 0

\* timedate_get_timestamp: the pair it leaves holds what it answers.
Reading(p, st, cal) ==
  [sntp_time |-> IF Sntp(st) > 0 THEN Sntp(st)
                 ELSE p.sntp_time + Rounded(Elapsed(p, rtc, cal)),
   rtc_time |-> rtc]

\* The variables after a reading of the pair p.
ReadAt(p, st) ==
  /\ \E cal \in Periods : pair' = Reading(p, st, cal)
  /\ gap' = 0
  /\ ticks' = IF Sntp(st) > 0 THEN 0 ELSE ticks
  /\ roundings' = IF Sntp(st) > 0 THEN 0
                  ELSE IF Since(p, rtc) = 0 THEN roundings
                  ELSE roundings + 1
  /\ sure' = (sure \/ Sntp(st) > 0)
  /\ UNCHANGED <<now, rtc>>

-----------------------------------------------------------------------------
ClockInit ==
  /\ now = 0 /\ rtc = 0
  /\ pair = [sntp_time |-> 0, rtc_time |-> 0]
  /\ sntp_enabled = FALSE /\ sntp_running = FALSE /\ stamped = FALSE
  /\ gap = 0 /\ ticks = 0 /\ roundings = 0 /\ sure = FALSE

\* k ticks pass, of the length c.  The time stays known as long as neither the
\* RTC's counter comes round to the pair nor the microseconds exceed 32 bits.
Pass ==
  \E k \in Ticks, c \in Periods :
    /\ now + k * c <= MaxTime
    /\ now' = now + k * c
    /\ rtc' = IF rtc + k >= RtcSize THEN rtc + k - RtcSize ELSE rtc + k
    /\ gap' = gap + k /\ ticks' = ticks + k
    /\ sure' = (/\ sure /\ gap + k < RtcSize
                /\ \A cal \in Periods : Micros(gap + k, cal) < Wrap)
    /\ UNCHANGED <<pair, sntp_enabled, sntp_running, stamped, roundings>>

\* Jobs, events and routes read the clock; so does the event that each of
\* the following reports.
timedate_get_timestamp ==
  /\ ReadAt(pair, stamped)
  /\ UNCHANGED <<sntp_enabled, sntp_running, stamped>>

\* The time given by hand is the true one from now on.
timedate_set_time_manually ==
  \E t \in Stamps :
    /\ ~stamped
    /\ pair' = [sntp_time |-> t, rtc_time |-> rtc]
    /\ now' = Second * t
    /\ gap' = 0 /\ ticks' = 0 /\ roundings' = 0 /\ sure' = TRUE
    /\ UNCHANGED <<rtc, sntp_enabled, sntp_running, stamped>>
\* With SNTP it lasts until the event that reports it reads the clock.
SetInVain ==
  \E t \in Stamps :
    /\ stamped
    /\ ReadAt([sntp_time |-> t, rtc_time |-> rtc], TRUE)
    /\ UNCHANGED <<sntp_enabled, sntp_running, stamped>>

timedate_start_sntp ==
  /\ sntp_enabled /\ ~sntp_running
  /\ sntp_running' = TRUE
  /\ ReadAt(pair, stamped)
  /\ UNCHANGED <<sntp_enabled, stamped>>

\* sntp_stop forgets the time.
timedate_stop_sntp ==
  /\ sntp_running
  /\ sntp_running' = FALSE /\ stamped' = FALSE
  /\ ReadAt(pair, FALSE)
  /\ UNCHANGED sntp_enabled

timedate_enable_sntp ==
  /\ ~sntp_enabled
  /\ sntp_enabled' = TRUE
  /\ IF sntp_running THEN UNCHANGED <<pair, gap, ticks, roundings, sure, now, rtc, sntp_running>>
     ELSE sntp_running' = TRUE /\ ReadAt(pair, stamped)
  /\ UNCHANGED stamped

timedate_disable_sntp ==
  /\ sntp_enabled' = FALSE
  /\ sntp_running' = FALSE /\ stamped' = FALSE
  /\ IF sntp_running THEN ReadAt(pair, FALSE)
     ELSE UNCHANGED <<now, rtc, pair, gap, ticks, roundings, sure>>

SntpAnswers ==
  /\ sntp_running /\ ~stamped
  /\ stamped' = TRUE
  /\ UNCHANGED <<now, rtc, pair, sntp_enabled, sntp_running, gap, ticks, roundings,
                 sure>>

\* The chip starts again: a restart of the program or the watchdog's, the
\* reset pin, which zeroes the RTC's counter, or the power, which erases its
\* memory as well.  timedate_init_essential tells that by the magic number.
timedate_init_essential ==
  \E cause \in {"restart", "pin", "power"} :
    /\ rtc' = IF cause = "restart" THEN rtc ELSE 0
    /\ pair' = IF cause = "power" THEN [sntp_time |-> 0, rtc_time |-> 0] ELSE pair
    /\ sure' = (sure /\ cause = "restart")
    /\ sntp_enabled' \in BOOLEAN       \* timedate_init reads it from the file
    /\ sntp_running' = FALSE /\ stamped' = FALSE
    /\ UNCHANGED <<now, gap, ticks, roundings>>

ClockNext ==
  \/ Pass \/ timedate_get_timestamp \/ timedate_set_time_manually \/ SetInVain
  \/ timedate_start_sntp \/ timedate_stop_sntp
  \/ timedate_enable_sntp \/ timedate_disable_sntp
  \/ SntpAnswers \/ timedate_init_essential

ClockSpec == ClockInit /\ [][ClockNext]_clockVars

-----------------------------------------------------------------------------
(***************************************************************************)
(* Once the time was known, by SNTP or by hand, what the clock shows is    *)
(* off by at most a second for SNTP's own fraction, half a second for      *)
(* every reading since, and for every tick since what its measured length  *)
(* may differ from its true one and what the factor's three decimals lose  *)
(* of it: no restart and no turn of the RTC's counter adds to it, as long  *)
(* as the clock is read before 2^32 microseconds passed.                   *)
(***************************************************************************)
Spread == Longest - Shortest
Cut == One \div Milli + 1

ClockError(cal) == Second * Reading(pair, FALSE, cal).sntp_time - now

DriftBounded ==
  sure => \A cal \in Periods :
    /\ ClockError(cal) <= One * Half * (roundings + 1) + Spread * ticks
    /\ ClockError(cal) > -(Second + One * Half * (roundings + 1) + (Spread + Cut) * ticks)
=============================================================================
