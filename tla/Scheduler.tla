----------------------------- MODULE Scheduler ------------------------------
(***************************************************************************)
(* CWScheduler (cw_scheduler.cpp) for one scheduled task, with the parts   *)
(* of CWApplication and CWConfig that start it, stop it, change its        *)
(* settings, and keep the time of its last run in ClamWin.conf.            *)
(*                                                                         *)
(* The scan and the update have separate settings and last-run times and   *)
(* meet only in save(), which writes both; the module describes either.    *)
(* Time is local time in minutes; an hour and a day are parameters so that *)
(* small days can be checked.  Clock changes are not modelled.             *)
(***************************************************************************)
EXTENDS Integers, FiniteSets

CONSTANTS MinutesPerHour, HoursPerDay,
          FirstWeekday,  \* tm_wday of day 0
          Settings,      \* settings the user may choose
          SaveCanFail,   \* ClamWin.conf may be impossible to write
          MaxGap,        \* minutes between two calls of check() at most
          Horizon        \* bound: the last minute

ASSUME SchedulerAssumption ==
    /\ MinutesPerHour \in Nat \ {0}
    /\ HoursPerDay \in Nat \ {0}
    /\ FirstWeekday \in 0 .. 6
    /\ MaxGap \in Nat \ {0}
    /\ Horizon \in Nat
    /\ SaveCanFail \in BOOLEAN
    /\ Settings \subseteq
         [scheduled : BOOLEAN, hour : 0 .. HoursPerDay - 1,
          minute : 0 .. MinutesPerHour - 1,
          frequency : {"daily", "workdays", "weekly", "hourly"},
          day : 0 .. 6, runMissed : BOOLEAN]

Never == 0
MinutesPerDay == HoursPerDay * MinutesPerHour

(* localtime().                                                            *)
Minute(t) == t % MinutesPerHour
HourCount(t) == t \div MinutesPerHour
Hour(t) == HourCount(t) % HoursPerDay
Day(t) == HourCount(t) \div HoursPerDay
Weekday(t) == (FirstWeekday + Day(t)) % 7

(* Fault: configured days and tm_wday count from the same day.             *)
SameCount(d) == d

(* Configured days count from Monday, tm_wday from Sunday.                 *)
cfgDayToTmWday(d) == (d + 1) % 7

(* The scheduled time of t's day, or minute of t's hour, has been reached. *)
Reached(c, t) ==
    IF c.frequency = "hourly" THEN Minute(t) >= c.minute
    ELSE \/ Hour(t) > c.hour
         \/ Hour(t) = c.hour /\ Minute(t) >= c.minute

SameInterval(c, s, t) ==
    /\ Day(s) = Day(t)
    /\ c.frequency = "hourly" => Hour(s) = Hour(t)

(* Fault: a run before the scheduled time counts for its whole interval.   *)
RanInInterval(c, last, t) == last # Never /\ SameInterval(c, last, t)

RanThisInterval(c, last, t) ==
    last # Never /\ SameInterval(c, last, t) /\ Reached(c, last)

EligibleDay(c, t) ==
    CASE c.frequency = "workdays" -> Weekday(t) \in 1 .. 5
      [] c.frequency = "weekly" -> Weekday(t) = cfgDayToTmWday(c.day)
      [] OTHER -> TRUE

(* Fault: the hour must match even when a missed task is to be run.        *)
ExactHour(c, t) == Hour(t) = c.hour /\ Minute(t) >= c.minute

TimeToRun(c, t) ==
    IF c.frequency = "hourly" \/ c.runMissed THEN Reached(c, t)
    ELSE Hour(t) = c.hour /\ Minute(t) >= c.minute

(* The gap after which a missed task is run: 90 minutes, 36 hours, 84      *)
(* hours and 180 hours, in the module's hours and days.                    *)
CatchUp(c, last, t) ==
    /\ c.runMissed
    /\ last # Never
    /\ Reached(c, t)
    /\ 2 * (t - last) >
         CASE c.frequency = "hourly" -> 3 * MinutesPerHour
           [] c.frequency = "daily" -> 3 * MinutesPerDay
           [] c.frequency = "workdays" -> 7 * MinutesPerDay
           [] c.frequency = "weekly" -> 15 * MinutesPerDay

isDue(c, last, t) ==
    /\ c.scheduled
    /\ ~RanThisInterval(c, last, t)
    /\ EligibleDay(c, t)
    /\ TimeToRun(c, t) \/ CatchUp(c, last, t)

-----------------------------------------------------------------------------
VARIABLES
    now,       \* local time
    on,        \* the application runs
    cfg,       \* the task's settings in m_config
    last,      \* scanLastRunTime or updateLastRunTime in m_config
    disk,      \* what ClamWin.conf holds of both
    checkedAt, \* when check() was last called
    runs,      \* history: the posts made under the present settings
    settled,   \* history: when the settings were last changed
    since      \* history: when the scheduler was last started

vars == <<now, on, cfg, last, disk, checkedAt, runs, settled, since>>

TypeOK ==
    /\ now \in MinutesPerDay .. Horizon
    /\ on \in BOOLEAN
    /\ cfg \in Settings
    /\ last \in 0 .. now
    /\ disk \in [cfg : Settings, last : 0 .. now]
    /\ checkedAt \in 0 .. now
    /\ runs \subseteq [planned : 0 .. now, at : 1 .. now]
    /\ settled \in 1 .. now
    /\ since \in 1 .. now

(* Day 0 is left out, so that no moment is Never.                          *)
Init ==
    /\ now = MinutesPerDay
    /\ on = FALSE
    /\ cfg \in Settings
    /\ last = Never
    /\ disk = [cfg |-> cfg, last |-> Never]
    /\ checkedAt = 0
    /\ runs = {}
    /\ settled = now
    /\ since = now

(* The scheduled moment of t's interval.                                   *)
Moment(c, t) ==
    IF c.frequency = "hourly"
    THEN HourCount(t) * MinutesPerHour + c.minute
    ELSE (Day(t) * HoursPerDay + c.hour) * MinutesPerHour + c.minute

(* save() over disk contents d; a write that fails goes unnoticed.         *)
Saved(c, l, d) == {[cfg |-> c, last |-> l]} \cup IF SaveCanFail THEN {d} ELSE {}

(* Fault: the new last-run time is not saved.                              *)
ForgottenRun(c, d) == {d}

(* What a run leaves on disk.                                              *)
SavedRun(c, d) == Saved(c, now, d)

(* What is left of the history when the settings become c.                 *)
KeepHistory(c) ==
    /\ cfg' = c
    /\ settled' = IF c = cfg THEN settled ELSE now

(* check() with settings c, last run l and disk contents d: a due task is  *)
(* posted, its last-run time is set and the configuration is saved.        *)
Check(c, l, d) ==
    LET before == IF c = cfg THEN runs ELSE {}
    IN  /\ checkedAt' = now
        /\ \/ /\ isDue(c, l, now)
              /\ last' = now
              /\ runs' = before \cup {[planned |-> Moment(c, now), at |-> now]}
              /\ disk' \in SavedRun(c, d)
           \/ /\ ~isDue(c, l, now)
              /\ last' = l
              /\ runs' = before
              /\ disk' = d

(* WM_TIMER.                                                               *)
TimerCheck ==
    /\ on
    /\ Check(cfg, last, disk)
    /\ UNCHANGED <<now, on, cfg, settled, since>>

(* The application starts: the configuration is loaded, and start() checks *)
(* at once.                                                                *)
Launch ==
    /\ ~on
    /\ on' = TRUE
    /\ KeepHistory(disk.cfg)
    /\ Check(disk.cfg, disk.last, disk)
    /\ since' = now
    /\ UNCHANGED now

(* The application ends or crashes, or the computer is turned off.         *)
Quit ==
    /\ on
    /\ on' = FALSE
    /\ UNCHANGED <<now, cfg, last, disk, checkedAt, runs, settled, since>>

(* doSchedule, doPreferences: the settings are saved, the scheduler is     *)
(* restarted and checks at once.  Cancel does the same with the settings   *)
(* unchanged.                                                              *)
Reconfigure(c) ==
    /\ on
    /\ KeepHistory(c)
    /\ \E d \in Saved(c, last, disk) : Check(c, last, d)
    /\ since' = now
    /\ UNCHANGED <<now, on>>

(* IDM_TRAY_CHECK_VERSION loads the configuration again.                   *)
Reload ==
    /\ on
    /\ KeepHistory(disk.cfg)
    /\ last' = disk.last
    /\ runs' = IF disk.cfg = cfg THEN runs ELSE {}
    /\ UNCHANGED <<now, on, disk, checkedAt, since>>

(* While the application runs its timer calls check() every MaxGap minutes *)
(* or more often.                                                          *)
Tick ==
    /\ now < Horizon
    /\ on => now - checkedAt < MaxGap
    /\ now' = now + 1
    /\ UNCHANGED <<on, cfg, last, disk, checkedAt, runs, settled, since>>

Next ==
    \/ TimerCheck \/ Launch \/ Quit \/ Reload \/ Tick
    \/ \E c \in Settings : Reconfigure(c)

Spec == Init /\ [][Next]_vars

-----------------------------------------------------------------------------
(* The days of the week a task is meant for, by name.                      *)
Sunday == 0
WorkDays == {1, 2, 3, 4, 5}
ConfiguredWeekday(d) == IF d = 6 THEN Sunday ELSE d + 1

(* t is a moment at which a task with settings c is to be run.             *)
Planned(c, t) ==
    /\ c.scheduled
    /\ t = Moment(c, t)
    /\ c.frequency = "workdays" => Weekday(t) \in WorkDays
    /\ c.frequency = "weekly" => Weekday(t) = ConfiguredWeekday(c.day)

Answered(p) == \E r \in runs : r.planned = p

(* Every post answers a planned moment that has come; without runMissed it *)
(* comes within that moment's hour.                                        *)
RunsAreForPlan ==
    \A r \in runs :
        /\ Planned(cfg, r.planned)
        /\ r.planned <= r.at
        /\ cfg.runMissed \/ HourCount(r.at) = HourCount(r.planned)

(* "prevent running twice" (cw_scheduler.cpp:77): a planned moment is      *)
(* answered once, across restarts, reloads and dialogs that are cancelled. *)
AtMostOnce == \A r, s \in runs : r.planned = s.planned => r = s

(* A planned moment that comes while the application runs is answered by   *)
(* the check that follows, if the hour still has MaxGap minutes.           *)
OnTime ==
    \A p \in since + 1 .. now - MaxGap :
        /\ on
        /\ Planned(cfg, p)
        /\ cfg.minute + MaxGap <= MinutesPerHour
        => Answered(p)

(* With runMissed a task missed earlier in the day is run by the first     *)
(* check, however late in the day the application starts.                  *)
CaughtUpSameDay ==
    LET p == Moment(cfg, now)
    IN  /\ on
        /\ checkedAt = now
        /\ cfg.runMissed
        /\ Planned(cfg, p)
        /\ settled < p
        /\ p <= now
        => Answered(p)

=============================================================================
