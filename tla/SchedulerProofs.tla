-------------------------- MODULE SchedulerProofs ---------------------------
(* Proofs about the two ends of a scheduled run: about Scheduler, which    *)
(* decides that it is due, for hours and days of any length; then about    *)
(* Background, which carries it out, for any set of addresses a task can   *)
(* have and any bound on the queue.                                        *)
EXTENDS Scheduler, Background, TLAPS

(* The catch-up block of isDue (cw_scheduler.cpp:134-145) never decides:   *)
(* whenever its condition holds the task has already been found due, or    *)
(* is not due at all.  So runMissed has no effect beyond the scheduled day.*)
THEOREM CatchUpNeverDecides ==
    ASSUME NEW c \in Settings, NEW l, NEW t
    PROVE  isDue(c, l, t) <=> /\ c.scheduled
                              /\ ~RanThisInterval(c, l, t)
                              /\ EligibleDay(c, t)
                              /\ TimeToRun(c, t)
  BY Zenon DEF isDue, CatchUp, TimeToRun

-----------------------------------------------------------------------------
(* Division with remainder.                                                *)
LEMMA DivMod ==
    ASSUME NEW n \in Nat \ {0}, NEW x \in Nat
    PROVE  /\ x \div n \in Int /\ x % n \in 0 .. n - 1
           /\ x = n * (x \div n) + (x % n)
  OBVIOUS

(* Division and remainder in order.                                        *)
LEMMA DivOrder ==
    ASSUME NEW n \in Nat \ {0}, NEW a \in Nat, NEW b \in Nat, a <= b
    PROVE  /\ a \div n \in Nat /\ a % n \in 0 .. n - 1
           /\ a \div n <= b \div n
           /\ a \div n = b \div n => a % n <= b % n
<1>1. \A x \in Nat : /\ x \div n \in Int /\ x % n \in 0 .. n - 1
                     /\ x = n * (x \div n) + (x % n)
  BY DivMod
<1>2. a \div n >= 0
  OBVIOUS
<1>3. a \div n <= b \div n
  <2>1. SUFFICES ASSUME b \div n + 1 <= a \div n PROVE FALSE
    BY <1>1, Z3
  <2>2. n * (b \div n) + n <= n * (a \div n)
    BY <1>1, <2>1, Z3
  <2>3. QED
    BY <1>1, <2>2, Z3
<1>4. a \div n = b \div n => a % n <= b % n
  BY <1>1, Z3
<1>5. QED
  BY <1>1, <1>2, <1>3, <1>4

(* A positive factor can be cancelled.                                     *)
LEMMA Cancel ==
    ASSUME NEW n \in Nat \ {0}, NEW a \in Int, NEW b \in Int, a * n = b * n
    PROVE  a = b
<1>1. CASE a < b
  BY <1>1, Z3
<1>2. CASE b < a
  BY <1>2, Z3
<1>3. QED
  BY <1>1, <1>2, Z3

-----------------------------------------------------------------------------
(* Hours and days follow each other in time.                               *)
LEMMA CalendarOrder ==
    ASSUME NEW s \in Nat, NEW t \in Nat, s <= t
    PROVE  /\ HourCount(s) \in Nat /\ Day(s) \in Nat
           /\ Hour(s) \in Nat /\ Minute(s) \in Nat
           /\ HourCount(s) <= HourCount(t)
           /\ Day(s) <= Day(t)
           /\ Day(s) = Day(t) => Hour(s) <= Hour(t)
           /\ HourCount(s) = HourCount(t) => Minute(s) <= Minute(t)
<1> DEFINE n == MinutesPerHour
<1>a. n \in Nat \ {0}
  BY SchedulerAssumption
<1>b. /\ s \div n \in Nat /\ s % n \in 0 .. n - 1
      /\ s \div n <= t \div n
      /\ s \div n = t \div n => s % n <= t % n
  <2> HIDE DEF n
  <2> QED BY <1>a, DivOrder
<1>c. t \div n \in Nat
  <2> HIDE DEF n
  <2> QED BY <1>a, DivOrder
<1>d. \A x \in 0 .. n - 1 : x \in Nat
  BY <1>a
<1>1. /\ HourCount(s) \in Nat /\ HourCount(t) \in Nat
      /\ HourCount(s) <= HourCount(t) /\ Minute(s) \in Nat
      /\ HourCount(s) = HourCount(t) => Minute(s) <= Minute(t)
  BY <1>b, <1>c, <1>d DEF HourCount, Minute
<1>2. /\ Day(s) \in Nat /\ Hour(s) \in Nat /\ Day(s) <= Day(t)
      /\ Day(s) = Day(t) => Hour(s) <= Hour(t)
  BY <1>1, SchedulerAssumption, DivOrder DEF Day, Hour
<1>3. QED
  BY <1>1, <1>2

(* A day and an hour of it determine the hour.                             *)
LEMMA HourOfDay ==
    ASSUME NEW t \in Nat
    PROVE  HourCount(t) = HoursPerDay * Day(t) + Hour(t)
<1>1. HourCount(t) \in Nat
  BY CalendarOrder
<1>2. QED
  BY <1>1, SchedulerAssumption, DivMod DEF Day, Hour

(* What has been reached stays reached until the interval ends.            *)
LEMMA ReachedLater ==
    ASSUME NEW c \in Settings, NEW s \in Nat, NEW t \in Nat, s <= t,
           SameInterval(c, s, t), Reached(c, s)
    PROVE  Reached(c, t)
<1>1. c.hour \in Int /\ c.minute \in Int
  BY SchedulerAssumption
<1>2. /\ Hour(s) \in Nat /\ Hour(t) \in Nat /\ Minute(s) \in Nat
      /\ Minute(t) \in Nat /\ Day(s) = Day(t) /\ Hour(s) <= Hour(t)
  BY CalendarOrder DEF SameInterval
<1>3. Hour(s) = Hour(t) => Minute(s) <= Minute(t)
  BY <1>2, HourOfDay, CalendarOrder
<1>4. QED
  BY <1>1, <1>2, <1>3 DEF Reached, SameInterval

(* An interval has no gaps.                                                *)
LEMMA Between ==
    ASSUME NEW c, NEW r \in Nat, NEW s \in Nat, NEW t \in Nat,
           r <= s, s <= t, SameInterval(c, r, t)
    PROVE  SameInterval(c, r, s) /\ SameInterval(c, s, t)
<1>1. /\ Day(r) \in Nat /\ Day(s) \in Nat /\ Day(t) \in Nat
      /\ Hour(r) \in Nat /\ Hour(s) \in Nat /\ Hour(t) \in Nat
      /\ Day(r) <= Day(s) /\ Day(s) <= Day(t)
  BY CalendarOrder
<1>2. Day(r) = Day(s) /\ Day(s) = Day(t)
  BY <1>1 DEF SameInterval
<1>3. Hour(r) <= Hour(s) /\ Hour(s) <= Hour(t)
  BY <1>2, CalendarOrder
<1>4. QED
  BY <1>1, <1>2, <1>3 DEF SameInterval

(* A scheduled moment belongs to one interval.                             *)
LEMMA SameMoment ==
    ASSUME NEW c \in Settings, NEW s \in Nat, NEW t \in Nat,
           Moment(c, s) = Moment(c, t)
    PROVE  SameInterval(c, s, t)
<1>1. c.hour \in Int /\ c.minute \in Int
  BY SchedulerAssumption
<1>2. /\ HourCount(s) \in Nat /\ HourCount(t) \in Nat
      /\ Day(s) \in Nat /\ Day(t) \in Nat
  BY CalendarOrder
<1>3. ASSUME NEW a \in Int, NEW b \in Int, NEW n \in Nat \ {0}, NEW m \in Int,
             a * n + m = b * n + m
      PROVE  a = b
  <2>1. a * n \in Int /\ b * n \in Int
    OBVIOUS
  <2>2. a * n = b * n
    BY <1>3, <2>1
  <2>3. QED
    BY <2>2, Cancel
<1>4. CASE c.frequency = "hourly"
  <2>1. HourCount(s) * MinutesPerHour + c.minute
          = HourCount(t) * MinutesPerHour + c.minute
    BY <1>4 DEF Moment
  <2>2. HourCount(s) = HourCount(t)
    BY <1>1, <1>2, <1>3, <2>1, SchedulerAssumption
  <2>3. QED
    BY <2>2 DEF SameInterval, Day, Hour
<1>5. CASE c.frequency # "hourly"
  <2>1. /\ Day(s) * HoursPerDay \in Int /\ Day(t) * HoursPerDay \in Int
        /\ Day(s) * HoursPerDay + c.hour \in Int
        /\ Day(t) * HoursPerDay + c.hour \in Int
    BY <1>1, <1>2, SchedulerAssumption
  <2>2. Day(s) * HoursPerDay + c.hour = Day(t) * HoursPerDay + c.hour
    BY <1>1, <1>3, <1>5, <2>1, SchedulerAssumption DEF Moment
  <2>3. Day(s) = Day(t)
    BY <1>1, <1>2, <1>3, <2>2, SchedulerAssumption
  <2>4. QED
    BY <1>5, <2>3 DEF SameInterval
<1>6. QED
  BY <1>4, <1>5

-----------------------------------------------------------------------------
(* AtMostOnce is not inductive: that a moment was answered must be visible *)
(* in last, which is what isDue looks at, and disk must not fall behind.   *)
RunsCounted ==
    \A r \in runs : /\ r.at \in Nat \ {0}
                    /\ r.at <= last
                    /\ r.planned = Moment(cfg, r.at)
                    /\ Reached(cfg, r.at)

IInv ==
    /\ now \in Nat \ {0}
    /\ cfg \in Settings
    /\ last \in Nat
    /\ last <= now
    /\ disk = [cfg |-> cfg, last |-> last]
    /\ RunsCounted
    /\ AtMostOnce

(* A task whose present moment was answered before is not due.             *)
LEMMA AnsweredNotDue ==
    ASSUME IInv, NEW r \in runs, r.planned = Moment(cfg, now)
    PROVE  ~isDue(cfg, last, now)
<1>1. /\ r.at \in Nat \ {0} /\ r.at <= last /\ last <= now
      /\ last \in Nat /\ now \in Nat /\ cfg \in Settings
      /\ Moment(cfg, r.at) = Moment(cfg, now) /\ Reached(cfg, r.at)
  BY DEF IInv, RunsCounted
<1>2. SameInterval(cfg, r.at, now)
  BY <1>1, SameMoment
<1>3. SameInterval(cfg, r.at, last) /\ SameInterval(cfg, last, now)
  BY <1>1, <1>2, Between
<1>4. Reached(cfg, last)
  BY <1>1, <1>3, ReachedLater
<1>5. last # Never
  BY <1>1 DEF Never
<1>6. QED
  BY <1>3, <1>4, <1>5 DEF isDue, RanThisInterval

(* What a check does with the run history, whoever calls it.               *)
LEMMA CheckStep ==
    ASSUME IInv, ~SaveCanFail, NEW c \in Settings, cfg' = c, now' = now,
           Check(c, last, [cfg |-> c, last |-> last])
    PROVE  IInv'
<1> DEFINE before == IF c = cfg THEN runs ELSE {}
           e == [planned |-> Moment(c, now), at |-> now]
<1>1. /\ now \in Nat \ {0} /\ last \in Nat /\ last <= now
      /\ RunsCounted /\ AtMostOnce
  BY DEF IInv
<1>2. \A r \in before : /\ c = cfg /\ r \in runs
                        /\ r.at \in Nat \ {0} /\ r.at <= last /\ r.at <= now
                        /\ r.planned = Moment(c, r.at) /\ Reached(c, r.at)
  BY <1>1 DEF RunsCounted
<1>3. \A r, s \in before : r.planned = s.planned => r = s
  BY <1>1 DEF AtMostOnce
<1>4. CASE isDue(c, last, now)
  <2>1. /\ last' = now /\ runs' = before \cup {e}
        /\ disk' \in SavedRun(c, [cfg |-> c, last |-> last])
    BY <1>4 DEF Check
  <2>2. disk' = [cfg |-> c, last |-> now]
    BY <2>1 DEF SavedRun, Saved
  <2>3. Reached(c, now)
    BY <1>4 DEF isDue, TimeToRun, CatchUp, Reached
  <2>4. RunsCounted'
    <3>1. ASSUME NEW r \in before \cup {e}
          PROVE  /\ r.at \in Nat \ {0} /\ r.at <= now
                 /\ r.planned = Moment(c, r.at) /\ Reached(c, r.at)
      BY <1>1, <1>2, <2>3
    <3>2. RunsCounted' <=>
            \A r \in runs' : /\ r.at \in Nat \ {0} /\ r.at <= last'
                             /\ r.planned = Moment(cfg', r.at)
                             /\ Reached(cfg', r.at)
      BY DEF RunsCounted, Moment, Reached
    <3>3. QED
      BY <2>1, <3>1, <3>2
  <2>5. \A r \in before : r.planned # e.planned
    BY <1>2, <1>4, AnsweredNotDue
  <2>6. AtMostOnce'
    BY <1>3, <2>1, <2>5 DEF AtMostOnce
  <2>7. QED
    BY <1>1, <2>1, <2>2, <2>4, <2>6 DEF IInv
<1>5. CASE ~isDue(c, last, now)
  <2>1. /\ last' = last /\ runs' = before
        /\ disk' = [cfg |-> c, last |-> last]
    BY <1>5 DEF Check
  <2>2. RunsCounted'
    BY <1>2, <2>1 DEF RunsCounted, Moment, Reached
  <2>3. AtMostOnce'
    BY <1>3, <2>1 DEF AtMostOnce
  <2>4. QED
    BY <1>1, <2>1, <2>2, <2>3 DEF IInv
<1>6. QED
  BY <1>4, <1>5

LEMMA CountedInvariance ==
    ASSUME ~SaveCanFail
    PROVE  Spec => []IInv
<1>1. Init => IInv
  <2>1. MinutesPerDay \in Nat \ {0}
    BY SchedulerAssumption DEF MinutesPerDay
  <2>2. QED
    BY <2>1 DEF Init, IInv, RunsCounted, AtMostOnce, Never
<1>2. IInv /\ [Next]_vars => IInv'
  <2> SUFFICES ASSUME IInv, [Next]_vars PROVE IInv'
    OBVIOUS
  <2>0. /\ cfg \in Settings /\ disk = [cfg |-> cfg, last |-> last]
        /\ disk.cfg = cfg /\ disk.last = last
    BY DEF IInv
  <2>1. CASE TimerCheck
    BY <2>0, <2>1, CheckStep DEF TimerCheck
  <2>2. CASE Launch
    BY <2>0, <2>2, CheckStep DEF Launch, KeepHistory
  <2>3. ASSUME NEW c \in Settings, Reconfigure(c) PROVE IInv'
    <3>1. Check(c, last, [cfg |-> c, last |-> last])
      BY <2>3 DEF Reconfigure, Saved
    <3>2. QED
      BY <2>3, <3>1, CheckStep DEF Reconfigure, KeepHistory
  <2>4. CASE Reload
    <3>1. /\ cfg' = cfg /\ last' = last /\ runs' = runs
          /\ UNCHANGED <<now, disk>>
      BY <2>0, <2>4 DEF Reload, KeepHistory
    <3>2. QED
      BY <3>1 DEF IInv, RunsCounted, AtMostOnce, Moment, Reached
  <2>5. CASE Tick
    BY <2>5 DEF Tick, IInv, RunsCounted, AtMostOnce, Moment, Reached
  <2>6. CASE Quit \/ UNCHANGED vars
    BY <2>6 DEF Quit, vars, IInv, RunsCounted, AtMostOnce, Moment, Reached
  <2>7. QED
    BY <2>1, <2>2, <2>3, <2>4, <2>5, <2>6 DEF Next
<1>3. QED
  BY <1>1, <1>2, PTL DEF Spec

(* A planned moment is answered at most once, as long as ClamWin.conf can  *)
(* be written: across timer checks, restarts, dialogs and reloads.         *)
THEOREM AtMostOnceSafe ==
    ASSUME ~SaveCanFail
    PROVE  Spec => []AtMostOnce
<1>1. IInv => AtMostOnce
  BY DEF IInv
<1>2. QED
  BY <1>1, CountedInvariance, PTL

-----------------------------------------------------------------------------
(* A quotient and a remainder that fit are the quotient and the remainder. *)
LEMMA DivUnique ==
    ASSUME NEW n \in Nat \ {0}, NEW q \in Nat, NEW m \in 0 .. n - 1
    PROVE  (q * n + m) \div n = q /\ q * n + m \in Nat
<1> DEFINE x == q * n + m
           d == x \div n
<1>1. x \in Nat
  <2>1. q * n \in Nat
    OBVIOUS
  <2>2. QED
    BY <2>1
<1>2. d \in Int /\ x % n \in 0 .. n - 1 /\ x = n * d + (x % n)
  <2> HIDE DEF x
  <2>1. QED BY <1>1, DivMod
<1>3. ~(d >= q + 1)
  <2> HIDE DEF d
  <2>1. SUFFICES ASSUME d >= q + 1 PROVE FALSE
    OBVIOUS
  <2>2. n * d >= n * q + n
    BY <1>2, <2>1, Z3
  <2>3. QED
    BY <1>2, <2>2, Z3
<1>4. ~(d <= q - 1)
  <2> HIDE DEF d
  <2>1. SUFFICES ASSUME d <= q - 1 PROVE FALSE
    OBVIOUS
  <2>2. n * d <= n * q - n
    BY <1>2, <2>1, Z3
  <2>3. QED
    BY <1>2, <2>2, Z3
<1>5. d = q
  <2> HIDE DEF d
  <2>1. QED BY <1>2, <1>3, <1>4
<1>6. QED
  BY <1>1, <1>5

(* A scheduled moment lies in the interval it is the moment of.            *)
LEMMA MomentInside ==
    ASSUME NEW c \in Settings, NEW t \in Nat
    PROVE  /\ Moment(c, t) \in Nat
           /\ Day(Moment(c, t)) = Day(t)
           /\ c.frequency = "hourly" => HourCount(Moment(c, t)) = HourCount(t)
           /\ c.frequency # "hourly" =>
                HourCount(Moment(c, t)) = Day(t) * HoursPerDay + c.hour
           /\ Moment(c, Moment(c, t)) = Moment(c, t)
<1>1. /\ c.hour \in 0 .. HoursPerDay - 1 /\ c.minute \in 0 .. MinutesPerHour - 1
      /\ HourCount(t) \in Nat /\ Day(t) \in Nat
  BY SchedulerAssumption, CalendarOrder
<1>2. CASE c.frequency = "hourly"
  <2>1. Moment(c, t) = HourCount(t) * MinutesPerHour + c.minute
    BY <1>2 DEF Moment
  <2>2. Moment(c, t) \in Nat /\ HourCount(Moment(c, t)) = HourCount(t)
    <3> DEFINE h == HourCount(t)
    <3>1. h \in Nat
      BY <1>1
    <3>2. /\ (h * MinutesPerHour + c.minute) \div MinutesPerHour = h
          /\ h * MinutesPerHour + c.minute \in Nat
      <4> HIDE DEF h
      <4>1. QED BY <1>1, <3>1, SchedulerAssumption, DivUnique
    <3>3. QED
      BY <2>1, <3>2 DEF HourCount
  <2>3. QED
    BY <1>2, <2>2 DEF Moment, Day
<1>3. CASE c.frequency # "hourly"
  <2> DEFINE k == Day(t) * HoursPerDay + c.hour
  <2>1. Moment(c, t) = k * MinutesPerHour + c.minute
    BY <1>3 DEF Moment
  <2>2. k \in Nat /\ k \div HoursPerDay = Day(t)
    BY <1>1, SchedulerAssumption, DivUnique
  <2>3. Moment(c, t) \in Nat /\ HourCount(Moment(c, t)) = k
    <3> HIDE DEF k
    <3>1. /\ (k * MinutesPerHour + c.minute) \div MinutesPerHour = k
          /\ k * MinutesPerHour + c.minute \in Nat
      BY <1>1, <2>2, SchedulerAssumption, DivUnique
    <3>2. QED
      BY <2>1, <3>1 DEF HourCount
  <2>4. Day(Moment(c, t)) = Day(t)
    BY <2>2, <2>3 DEF Day
  <2>5. QED
    BY <1>3, <2>1, <2>3, <2>4 DEF Moment
<1>4. QED
  BY <1>2, <1>3

(* Times are told apart by their hour and their minute.                    *)
LEMMA TimeOfHour ==
    ASSUME NEW t \in Nat
    PROVE  t = HourCount(t) * MinutesPerHour + Minute(t)
<1> DEFINE n == MinutesPerHour
<1>1. n \in Nat \ {0}
  BY SchedulerAssumption
<1>2. t \div n \in Int /\ t % n \in 0 .. n - 1 /\ t = n * (t \div n) + (t % n)
  <2> HIDE DEF n
  <2>1. QED BY <1>1, DivMod
<1>3. QED
  BY <1>1, <1>2 DEF HourCount, Minute

(* A moment has been reached when its time has come.                       *)
LEMMA MomentReached ==
    ASSUME NEW c \in Settings, NEW t \in Nat
    PROVE  Reached(c, t) <=> Moment(c, t) <= t
<1>1. /\ c.hour \in 0 .. HoursPerDay - 1 /\ c.minute \in 0 .. MinutesPerHour - 1
      /\ HourCount(t) \in Nat /\ Day(t) \in Nat /\ Hour(t) \in Nat
      /\ HoursPerDay \in Nat \ {0} /\ MinutesPerHour \in Nat \ {0}
  BY SchedulerAssumption, CalendarOrder
<1>a. Minute(t) \in 0 .. MinutesPerHour - 1
  BY SchedulerAssumption DEF Minute
<1>2. t = HourCount(t) * MinutesPerHour + Minute(t)
  BY TimeOfHour
<1>3. CASE c.frequency = "hourly"
  BY <1>1, <1>a, <1>2, <1>3 DEF Moment, Reached
<1>4. CASE c.frequency # "hourly"
  <2> DEFINE k == Day(t) * HoursPerDay + c.hour
             h == HourCount(t)
             n == MinutesPerHour
             p == k * n + c.minute
  <2>1. k \in Nat /\ h \in Nat /\ n \in Nat \ {0} /\ Moment(c, t) = p
        /\ c.hour \in Nat /\ c.minute \in 0 .. n - 1
    BY <1>1, <1>4 DEF Moment
  <2>2. h = Day(t) * HoursPerDay + Hour(t)
    BY <1>1, HourOfDay
  <2>3. Day(t) * HoursPerDay \in Int
    BY <1>1
  <2>4. /\ Hour(t) > c.hour <=> k + 1 <= h
        /\ Hour(t) = c.hour <=> k = h
    BY <1>1, <2>1, <2>2, <2>3
  <2>5. Reached(c, t) <=> k + 1 <= h \/ (k = h /\ Minute(t) >= c.minute)
    BY <1>4, <2>4 DEF Reached
  <2>6. t = h * n + Minute(t) /\ Minute(t) \in 0 .. n - 1
    BY <1>a, <1>2
  <2> HIDE DEF k, h, n
  <2>7. k * n \in Nat /\ h * n \in Nat
    BY <2>1
  <2>8. CASE k + 1 <= h
    <3>1. k * n + n <= h * n
      BY <2>1, <2>8, Z3
    <3>2. QED
      BY <2>1, <2>5, <2>6, <2>7, <2>8, <3>1
  <2>9. CASE h + 1 <= k
    <3>1. h * n + n <= k * n
      BY <2>1, <2>9, Z3
    <3>2. ~(p <= t)
      BY <2>1, <2>6, <2>7, <3>1
    <3>3. QED
      BY <2>1, <2>5, <2>9, <3>2
  <2>10. CASE h = k
    BY <2>1, <2>5, <2>6, <2>7, <2>10
  <2>11. QED
    BY <2>1, <2>8, <2>9, <2>10
<1>5. QED
  BY <1>3, <1>4

(* A due task has a planned moment, which has come, and without runMissed  *)
(* it came within the present hour.                                        *)
LEMMA DueIsPlanned ==
    ASSUME NEW c \in Settings, NEW l, NEW t \in Nat, isDue(c, l, t)
    PROVE  /\ Moment(c, t) \in Nat
           /\ Planned(c, Moment(c, t))
           /\ Moment(c, t) <= t
           /\ c.runMissed \/ HourCount(t) = HourCount(Moment(c, t))
<1> DEFINE p == Moment(c, t)
<1>1. /\ c.hour \in 0 .. HoursPerDay - 1 /\ c.minute \in 0 .. MinutesPerHour - 1
      /\ c.day \in 0 .. 6
      /\ HourCount(t) \in Nat /\ Day(t) \in Nat /\ Hour(t) \in Nat
      /\ Minute(t) \in Nat
  BY SchedulerAssumption, CalendarOrder
<1>2. /\ p \in Nat /\ Day(p) = Day(t) /\ Moment(c, p) = p
      /\ c.frequency = "hourly" => HourCount(p) = HourCount(t)
      /\ c.frequency # "hourly" => HourCount(p) = Day(t) * HoursPerDay + c.hour
  BY MomentInside
<1>3. HourCount(t) = HoursPerDay * Day(t) + Hour(t)
  BY HourOfDay
<1>4. Planned(c, p)
  <2>1. c.scheduled /\ EligibleDay(c, t) /\ Weekday(p) = Weekday(t)
    BY <1>2 DEF isDue, Weekday
  <2>2. c.frequency = "workdays" => Weekday(p) \in WorkDays
    BY <2>1 DEF EligibleDay, WorkDays
  <2>3. cfgDayToTmWday(c.day) = ConfiguredWeekday(c.day)
    BY <1>1 DEF cfgDayToTmWday, ConfiguredWeekday, Sunday
  <2>4. c.frequency = "weekly" => Weekday(p) = ConfiguredWeekday(c.day)
    BY <2>1, <2>3 DEF EligibleDay
  <2>5. QED
    BY <1>2, <2>1, <2>2, <2>4 DEF Planned
<1>5. Reached(c, t)
  BY DEF isDue, TimeToRun, CatchUp, Reached
<1>6. p <= t
  BY <1>5, MomentReached
<1>7. c.runMissed \/ HourCount(t) = HourCount(p)
  <2>1. CASE c.frequency = "hourly"
    BY <1>2, <2>1
  <2>2. CASE c.frequency # "hourly" /\ ~c.runMissed
    <3>1. Hour(t) = c.hour
      BY <2>2 DEF isDue, TimeToRun, CatchUp
    <3>2. QED
      BY <1>1, <1>2, <1>3, <2>2, <3>1, SchedulerAssumption
  <2>3. QED
    BY <2>1, <2>2
<1>8. QED
  BY <1>2, <1>4, <1>6, <1>7

-----------------------------------------------------------------------------
(* What a post is for depends on the clock and the settings alone, so this *)
(* holds whatever becomes of the file.                                     *)
PlanInv ==
    /\ now \in Nat \ {0}
    /\ on \in BOOLEAN
    /\ cfg \in Settings
    /\ last \in 0 .. now
    /\ disk \in [cfg : Settings, last : 0 .. now]
    /\ checkedAt \in 0 .. now
    /\ runs \subseteq [planned : 0 .. now, at : 1 .. now]
    /\ settled \in 1 .. now
    /\ since \in 1 .. now
    /\ RunsAreForPlan

(* A check posts only what is planned, whoever calls it.                   *)
LEMMA PlannedCheck ==
    ASSUME PlanInv, NEW c \in Settings, NEW l \in 0 .. now,
           NEW d \in [cfg : Settings, last : 0 .. now],
           cfg' = c, now' = now, on' \in BOOLEAN, Check(c, l, d),
           settled' \in 1 .. now, since' \in 1 .. now
    PROVE  PlanInv'
<1> DEFINE before == IF c = cfg THEN runs ELSE {}
           e == [planned |-> Moment(c, now), at |-> now]
           For(r) == /\ Planned(c, r.planned)
                     /\ r.planned <= r.at
                     /\ c.runMissed \/ HourCount(r.at) = HourCount(r.planned)
<1>1. now \in Nat \ {0} /\ checkedAt' = now
  BY DEF PlanInv, Check
<1>2. before \subseteq [planned : 0 .. now, at : 1 .. now]
  BY DEF PlanInv
<1>3. \A r \in before : For(r)
  BY DEF PlanInv, RunsAreForPlan
<1>4. CASE isDue(c, l, now)
  <2>1. last' = now /\ runs' = before \cup {e} /\ disk' \in SavedRun(c, d)
    BY <1>4 DEF Check
  <2>2. disk' \in [cfg : Settings, last : 0 .. now]
    BY <1>1, <2>1 DEF SavedRun, Saved
  <2>3. Moment(c, now) \in Nat /\ Moment(c, now) <= now /\ For(e)
    BY <1>1, <1>4, DueIsPlanned
  <2>4. e \in [planned : 0 .. now, at : 1 .. now]
    BY <1>1, <2>3
  <2>5. RunsAreForPlan'
    BY <1>3, <2>1, <2>3 DEF RunsAreForPlan, Planned, Moment, Weekday
  <2>6. QED
    BY <1>1, <1>2, <2>1, <2>2, <2>4, <2>5 DEF PlanInv
<1>5. CASE ~isDue(c, l, now)
  <2>1. last' = l /\ runs' = before /\ disk' = d
    BY <1>5 DEF Check
  <2>2. RunsAreForPlan'
    BY <1>3, <2>1 DEF RunsAreForPlan, Planned, Moment, Weekday
  <2>3. QED
    BY <1>1, <1>2, <2>1, <2>2 DEF PlanInv
<1>6. QED
  BY <1>4, <1>5

LEMMA PlanStep ==
    ASSUME PlanInv, [Next]_vars
    PROVE  PlanInv'
<1>1. /\ now \in Nat \ {0} /\ now \in 1 .. now
      /\ cfg \in Settings /\ disk.cfg \in Settings
      /\ last \in 0 .. now /\ disk.last \in 0 .. now
      /\ disk \in [cfg : Settings, last : 0 .. now]
      /\ settled \in 1 .. now /\ since \in 1 .. now /\ on \in BOOLEAN
  BY DEF PlanInv
<1>2. CASE TimerCheck
  BY <1>1, <1>2, PlannedCheck DEF TimerCheck
<1>3. CASE Launch
  BY <1>1, <1>3, PlannedCheck DEF Launch, KeepHistory
<1>4. ASSUME NEW c \in Settings, Reconfigure(c) PROVE PlanInv'
  <2>1. PICK d \in Saved(c, last, disk) : Check(c, last, d)
    BY <1>4 DEF Reconfigure
  <2>2. d \in [cfg : Settings, last : 0 .. now]
    BY <1>1, <2>1 DEF Saved
  <2>3. QED
    BY <1>1, <1>4, <2>1, <2>2, PlannedCheck DEF Reconfigure, KeepHistory
<1>5. CASE Reload
  <2>1. RunsAreForPlan'
    BY <1>5 DEF PlanInv, Reload, KeepHistory, RunsAreForPlan, Planned, Moment,
                Weekday
  <2>2. QED
    BY <1>1, <1>5, <2>1 DEF PlanInv, Reload, KeepHistory
<1>6. CASE Tick
  <2>1. RunsAreForPlan'
    BY <1>6 DEF PlanInv, Tick, RunsAreForPlan, Planned, Moment, Weekday
  <2>2. 0 .. now \subseteq 0 .. now + 1 /\ 1 .. now \subseteq 1 .. now + 1
    BY <1>1
  <2>3. /\ disk \in [cfg : Settings, last : 0 .. now + 1]
        /\ runs \subseteq [planned : 0 .. now + 1, at : 1 .. now + 1]
    BY <2>2 DEF PlanInv
  <2>4. QED
    BY <1>1, <1>6, <2>1, <2>2, <2>3 DEF PlanInv, Tick
<1>7. CASE Quit \/ UNCHANGED vars
  <2>1. RunsAreForPlan'
    BY <1>7 DEF PlanInv, Quit, vars, RunsAreForPlan, Planned, Moment, Weekday
  <2>2. QED
    BY <1>7, <2>1 DEF PlanInv, Quit, vars
<1>8. QED
  BY <1>2, <1>3, <1>4, <1>5, <1>6, <1>7 DEF Next

LEMMA PlanInvariance == Spec => []PlanInv
<1>1. Init => PlanInv
  <2>1. MinutesPerDay \in Nat \ {0}
    BY SchedulerAssumption DEF MinutesPerDay
  <2>2. QED
    <3> SUFFICES ASSUME Init PROVE PlanInv
      OBVIOUS
    <3>1. /\ now \in Nat \ {0} /\ on \in BOOLEAN /\ cfg \in Settings
          /\ last = 0 /\ disk = [cfg |-> cfg, last |-> 0]
          /\ checkedAt = 0 /\ runs = {} /\ settled = now /\ since = now
      BY <2>1 DEF Init, Never
    <3>2. 0 \in 0 .. now /\ now \in 1 .. now
      BY <3>1
    <3>3. disk \in [cfg : Settings, last : 0 .. now]
      BY <3>1, <3>2
    <3>4. QED
      BY <3>1, <3>2, <3>3 DEF PlanInv, RunsAreForPlan
<1>2. PlanInv /\ [Next]_vars => PlanInv'
  BY PlanStep
<1>3. QED
  BY <1>1, <1>2, PTL DEF Spec

(* A task is posted only for a planned moment of its own interval, never   *)
(* before it, and without runMissed within its hour (isDue): for hours and *)
(* days of any length and any settings, whether or not saving works.       *)
THEOREM PlannedRunsSafe == Spec => []RunsAreForPlan
<1>1. PlanInv => RunsAreForPlan
  BY DEF PlanInv
<1>2. QED
  BY <1>1, PlanInvariance, PTL

InHorizon == now \in MinutesPerDay .. Horizon

(* The last-run times in memory and in ClamWin.conf never lie in the       *)
(* future, and nothing posted does.                                        *)
THEOREM TypeCorrect ==
    ASSUME MinutesPerDay <= Horizon
    PROVE  Spec => []TypeOK
<1>1. Init => InHorizon
  BY SchedulerAssumption DEF Init, InHorizon, MinutesPerDay
<1>2. InHorizon /\ [Next]_vars => InHorizon'
  <2>1. MinutesPerDay \in Int /\ Horizon \in Int
    BY SchedulerAssumption DEF MinutesPerDay
  <2>2. QED
    BY <2>1 DEF InHorizon, Next, TimerCheck, Launch, Quit, Reload, Tick,
                Reconfigure, MinutesPerDay, vars
<1>3. PlanInv /\ InHorizon => TypeOK
  BY DEF PlanInv, InHorizon, TypeOK
<1>4. QED
  BY <1>1, <1>2, <1>3, PlanInvariance, PTL DEF Spec

-----------------------------------------------------------------------------
(* The times at which a task is found due.                                 *)
LEMMA IntervalMoment ==
    ASSUME NEW c \in Settings, NEW s \in Nat, NEW t \in Nat, SameInterval(c, s, t)
    PROVE  Moment(c, s) = Moment(c, t)
<1>1. Day(s) = Day(t) /\ (c.frequency = "hourly" => Hour(s) = Hour(t))
  BY DEF SameInterval
<1>2. c.frequency = "hourly" => HourCount(s) = HourCount(t)
  BY <1>1, HourOfDay
<1>3. QED
  BY <1>1, <1>2 DEF Moment

(* The hour and the minute of a planned moment.                            *)
LEMMA PlannedTime ==
    ASSUME NEW c \in Settings, NEW p \in Nat, Moment(c, p) = p
    PROVE  /\ Minute(p) = c.minute
           /\ c.frequency # "hourly" => Hour(p) = c.hour
<1>1. /\ c.hour \in 0 .. HoursPerDay - 1 /\ c.minute \in 0 .. MinutesPerHour - 1
      /\ HourCount(p) \in Nat /\ Day(p) \in Nat /\ Hour(p) \in Nat /\ Minute(p) \in Nat
      /\ HoursPerDay \in Nat \ {0} /\ MinutesPerHour \in Nat \ {0}
  BY SchedulerAssumption, CalendarOrder
<1>2. p = HourCount(p) * MinutesPerHour + Minute(p)
  BY TimeOfHour
<1>3. c.frequency # "hourly" => HourCount(p) = Day(p) * HoursPerDay + c.hour
  BY MomentInside
<1>4. p = HourCount(p) * MinutesPerHour + c.minute
  BY <1>3 DEF Moment
<1>5. Minute(p) = c.minute
  <2> DEFINE x == HourCount(p) * MinutesPerHour
  <2>1. x \in Int /\ p = x + Minute(p) /\ p = x + c.minute
    BY <1>1, <1>2, <1>4
  <2> HIDE DEF x
  <2>2. QED
    BY <1>1, <2>1
<1>6. c.frequency # "hourly" => Hour(p) = c.hour
  <2> DEFINE y == Day(p) * HoursPerDay
  <2>1. y \in Int /\ HourCount(p) = y + Hour(p)
    BY <1>1, HourOfDay
  <2>2. c.frequency # "hourly" => HourCount(p) = y + c.hour
    BY <1>3
  <2> HIDE DEF y
  <2>3. QED
    BY <1>1, <2>1, <2>2
<1>7. QED
  BY <1>5, <1>6

(* Minutes that fit in the hour of p.                                      *)
LEMMA WithinHour ==
    ASSUME NEW p \in Nat, NEW t \in Nat, p <= t, Minute(p) + (t - p) < MinutesPerHour
    PROVE  HourCount(t) = HourCount(p)
<1> DEFINE n == MinutesPerHour   h == HourCount(p)   m == Minute(p) + (t - p)
<1>1. n \in Nat \ {0} /\ h \in Nat /\ Minute(p) \in Nat /\ p = h * n + Minute(p)
  BY SchedulerAssumption, CalendarOrder, TimeOfHour
<1>2. h * n \in Int /\ m \in 0 .. n - 1
  BY <1>1
<1>3. t = h * n + m
  <2> DEFINE x == h * n
  <2>1. x \in Int /\ p = x + Minute(p) /\ Minute(p) \in Nat
    BY <1>1, <1>2
  <2> HIDE DEF x
  <2>2. t = x + (Minute(p) + (t - p))
    BY <2>1
  <2>3. QED
    BY <2>2 DEF x
<1>4. (h * n + m) \div n = h
  <2> HIDE DEF n, h, m
  <2>1. QED BY <1>1, <1>2, DivUnique
<1>5. QED
  BY <1>3, <1>4 DEF HourCount

(* The converse of DueIsPlanned: a planned moment that has come, and is    *)
(* not too long ago, makes the task due unless it ran.                     *)
LEMMA PlannedIsDue ==
    ASSUME NEW c \in Settings, NEW l, NEW t \in Nat,
           Planned(c, Moment(c, t)), Moment(c, t) <= t,
           c.runMissed \/ HourCount(t) = HourCount(Moment(c, t)),
           ~RanThisInterval(c, l, t)
    PROVE  isDue(c, l, t)
<1> DEFINE p == Moment(c, t)
<1>1. c.scheduled /\ p \in Nat /\ Day(p) = Day(t) /\ Moment(c, p) = p /\ c.day \in 0 .. 6
  BY MomentInside, SchedulerAssumption DEF Planned
<1>2. Weekday(p) = Weekday(t)
  BY <1>1 DEF Weekday
<1>3. EligibleDay(c, t)
  <2>1. cfgDayToTmWday(c.day) = ConfiguredWeekday(c.day)
    BY <1>1 DEF cfgDayToTmWday, ConfiguredWeekday, Sunday
  <2>2. QED
    BY <1>2, <2>1 DEF EligibleDay, Planned, WorkDays
<1>4. Reached(c, t)
  BY MomentReached
<1>5. CASE c.frequency = "hourly" \/ c.runMissed
  BY <1>1, <1>3, <1>4, <1>5 DEF isDue, TimeToRun
<1>6. CASE c.frequency # "hourly" /\ ~c.runMissed
  <2>1. Hour(t) = Hour(p)
    BY <1>6 DEF Hour
  <2>2. Hour(t) = c.hour
    BY <1>1, <1>6, <2>1, PlannedTime
  <2>3. Hour(t) \in Nat /\ c.hour \in Nat
    BY SchedulerAssumption, CalendarOrder
  <2>4. Minute(t) >= c.minute
    BY <1>4, <1>6, <2>2, <2>3 DEF Reached
  <2>5. QED
    BY <1>1, <1>3, <1>6, <2>2, <2>4 DEF isDue, TimeToRun
<1>7. QED
  BY <1>5, <1>6

-----------------------------------------------------------------------------
(* A check leaves nothing due, and what it has posted, it has answered.    *)
LEMMA CheckLeavesNothing ==
    ASSUME NEW c \in Settings, NEW l, NEW d, now \in Nat \ {0}, Check(c, l, d),
           cfg' = c, now' = now
    PROVE  /\ checkedAt' = now /\ ~isDue(c, last', now)
           /\ c = cfg => runs \subseteq runs'
           /\ \/ last' = now /\ \E r \in runs' : r.planned = Moment(c, now)
              \/ last' = l
<1>1. CASE isDue(c, l, now)
  <2>1. /\ checkedAt' = now /\ last' = now
        /\ runs' = (IF c = cfg THEN runs ELSE {})
                   \cup {[planned |-> Moment(c, now), at |-> now]}
    BY <1>1 DEF Check
  <2>2. Reached(c, now)
    BY <1>1 DEF isDue, TimeToRun, CatchUp, Reached
  <2>3. RanThisInterval(c, now, now)
    BY <2>2 DEF RanThisInterval, SameInterval, Never
  <2>4. ~isDue(c, last', now)
    BY <2>1, <2>3 DEF isDue
  <2>5. \E r \in runs' : r.planned = Moment(c, now)
    <3> DEFINE e == [planned |-> Moment(c, now), at |-> now]
    <3>1. e \in runs' /\ e.planned = Moment(c, now)
      BY <2>1
    <3> HIDE DEF e
    <3>2. QED
      BY <3>1
  <2>6. c = cfg => runs \subseteq runs'
    BY <2>1
  <2>7. QED
    BY <2>1, <2>4, <2>5, <2>6
<1>2. CASE ~isDue(c, l, now)
  BY <1>2 DEF Check
<1>3. QED
  BY <1>1, <1>2

(* The moments that the checks since the scheduler's start have answered.  *)
Punctual(p) ==
    Planned(cfg, p) /\ cfg.minute + MaxGap <= MinutesPerHour => Answered(p)

(* That every planned moment is answered is not inductive: it must be      *)
(* known that no check is late, that a check leaves nothing due, and that  *)
(* a last run under the present settings was a post that is recorded.      *)
TimeInv ==
    /\ settled <= since
    /\ on => since <= checkedAt /\ now - checkedAt <= MaxGap
    /\ on /\ checkedAt = now => ~isDue(cfg, last, now)
    /\ last # Never => last <= settled \/ Answered(Moment(cfg, last))
    /\ on => \A p \in since + 1 .. checkedAt : Punctual(p)

(* A moment after the last change of the settings whose interval the last  *)
(* run counts for was answered by it.                                      *)
LEMMA RanAnswers ==
    ASSUME NEW c \in Settings, NEW l \in Nat, NEW t \in Nat, RanThisInterval(c, l, t)
    PROVE  l # Never /\ Moment(c, l) = Moment(c, t) /\ Moment(c, t) <= l
<1>1. l # Never /\ SameInterval(c, l, t) /\ Reached(c, l)
  BY DEF RanThisInterval
<1>2. Moment(c, l) = Moment(c, t)
  BY <1>1, IntervalMoment
<1>3. QED
  BY <1>1, <1>2, MomentReached

(* A check of the timer answers the moments since the last one.            *)
LEMMA TimerAnswers ==
    ASSUME PlanInv, TimeInv, TimerCheck, NEW p \in since + 1 .. now, Planned(cfg, p),
           cfg.minute + MaxGap <= MinutesPerHour
    PROVE  \E r \in runs' : r.planned = p
<1>1. /\ now \in Nat \ {0} /\ cfg \in Settings /\ last \in Nat /\ checkedAt \in Nat
      /\ since \in Nat /\ settled \in Nat /\ on
      /\ Check(cfg, last, disk) /\ cfg' = cfg /\ now' = now
      /\ MaxGap \in Nat \ {0} /\ MinutesPerHour \in Nat \ {0}
  BY SchedulerAssumption DEF PlanInv, TimerCheck
<1>2. /\ ~isDue(cfg, last', now) /\ runs \subseteq runs'
      /\ \/ last' = now /\ \E r \in runs' : r.planned = Moment(cfg, now)
         \/ last' = last
  BY <1>1, CheckLeavesNothing
<1>3. CASE p <= checkedAt
  <2>1. Answered(p)
    BY <1>1, <1>3 DEF TimeInv, Punctual
  <2>2. QED
    BY <1>2, <2>1 DEF Answered
<1>4. CASE p > checkedAt
  <2>1. p \in Nat /\ p <= now /\ now - p < MaxGap /\ p > settled
    BY <1>1, <1>4 DEF TimeInv
  <2>2. Moment(cfg, p) = p
    BY DEF Planned
  <2>3. Minute(p) = cfg.minute /\ cfg.minute \in Nat
    BY <1>1, <2>1, <2>2, PlannedTime, SchedulerAssumption
  <2>4. HourCount(now) = HourCount(p)
    BY <1>1, <2>1, <2>3, WithinHour
  <2>5. SameInterval(cfg, p, now)
    BY <2>4 DEF SameInterval, Day, Hour
  <2>6. Moment(cfg, now) = p
    BY <1>1, <2>1, <2>2, <2>5, IntervalMoment
  <2>7. RanThisInterval(cfg, last', now)
    BY <1>1, <1>2, <2>1, <2>4, <2>6, PlannedIsDue
  <2>8. CASE last' = last
    <3>1. last # Never /\ Moment(cfg, last) = p /\ p <= last
      BY <1>1, <2>6, <2>7, <2>8, RanAnswers
    <3>2. Answered(p)
      BY <1>1, <2>1, <3>1 DEF TimeInv
    <3>3. QED
      BY <1>2, <3>2 DEF Answered
  <2>9. QED
    BY <1>2, <2>6, <2>8
<1>5. QED
  BY <1>1, <1>3, <1>4

LEMMA TimeStep ==
    ASSUME PlanInv, IInv, TimeInv, [Next]_vars, ~SaveCanFail
    PROVE  TimeInv'
<1>1. /\ now \in Nat \ {0} /\ cfg \in Settings /\ last \in Nat /\ last <= now
      /\ checkedAt \in Nat /\ checkedAt <= now /\ since \in Nat /\ since <= now
      /\ settled \in Nat /\ MaxGap \in Nat \ {0}
      /\ disk = [cfg |-> cfg, last |-> last] /\ disk.cfg = cfg /\ disk.last = last
  BY SchedulerAssumption DEF PlanInv, IInv
(* What a check of settings c leaves, whoever calls it.                    *)
<1>2. ASSUME NEW c \in Settings, NEW d, Check(c, last, d), cfg' = c, now' = now, on',
             settled' = (IF c = cfg THEN settled ELSE now),
             since' = now \/ TimerCheck
      PROVE  TimeInv'
  <2>1. /\ checkedAt' = now /\ ~isDue(c, last', now)
        /\ c = cfg => runs \subseteq runs'
        /\ \/ last' = now /\ \E r \in runs' : r.planned = Moment(c, now)
           \/ last' = last
    BY <1>1, <1>2, CheckLeavesNothing
  <2>2. since' \in Nat /\ since' <= now /\ settled' <= since'
    <3>1. settled <= since /\ (TimerCheck => settled' = settled /\ since' = since)
      BY DEF TimerCheck, TimeInv
    <3>2. settled' \in Nat /\ settled' <= now
      BY <1>1, <1>2, <3>1
    <3>3. QED
      BY <1>1, <1>2, <3>1, <3>2
  <2>3. last' # Never => \/ last' <= settled'
                         \/ \E r \in runs' : r.planned = Moment(c, last')
    <3>1. CASE last' = last /\ c = cfg
      BY <1>2, <2>1, <3>1 DEF TimeInv, Answered
    <3>2. CASE last' = last /\ c # cfg
      BY <1>1, <1>2, <3>2
    <3>3. QED
      BY <2>1, <3>1, <3>2
  <2>4. ASSUME NEW p \in since' + 1 .. checkedAt', Planned(c, p),
               c.minute + MaxGap <= MinutesPerHour
        PROVE  \E r \in runs' : r.planned = p
    <3>1. CASE since' = now
      BY <1>1, <2>1, <2>4, <3>1
    <3>2. CASE TimerCheck
      <4>1. c = cfg /\ since' = since
        BY <1>2, <3>2 DEF TimerCheck
      <4>2. QED
        BY <2>1, <2>4, <3>2, <4>1, TimerAnswers
    <3>3. QED
      BY <1>2, <3>1, <3>2
  <2>5. since' <= checkedAt' /\ now' - checkedAt' <= MaxGap
    BY <1>1, <1>2, <2>1, <2>2
  <2>6. QED
    BY <1>2, <2>1, <2>2, <2>3, <2>4, <2>5
       DEF TimeInv, Punctual, Answered, isDue, RanThisInterval, SameInterval, Reached,
           EligibleDay, TimeToRun, CatchUp, Moment, Planned, Weekday, Day, Hour, HourCount,
           Minute
<1>3. CASE TimerCheck
  BY <1>1, <1>2, <1>3 DEF TimerCheck
<1>4. CASE Launch
  BY <1>1, <1>2, <1>4 DEF Launch, KeepHistory
<1>5. ASSUME NEW c \in Settings, Reconfigure(c) PROVE TimeInv'
  BY <1>1, <1>2, <1>5 DEF Reconfigure, KeepHistory
(* The other steps leave the settings and the posts.                       *)
<1>6. ASSUME UNCHANGED <<cfg, last, runs, settled, since>>,
             on' => on /\ checkedAt' = checkedAt /\ now' - checkedAt' <= MaxGap,
             on' => \/ now' = now
                    \/ checkedAt' # now'
      PROVE  TimeInv'
  <2>1. \A p : Punctual(p)' <=> Punctual(p)
    BY <1>6 DEF Punctual, Planned, Answered, Moment, Weekday
  <2>2. on' /\ checkedAt' = now' => now' = now /\ checkedAt = now /\ on
    BY <1>6
  <2>3. isDue(cfg, last, now)' <=> isDue(cfg, last, now')
    BY <1>6 DEF isDue, RanThisInterval, SameInterval, Reached, EligibleDay, TimeToRun,
                CatchUp, Weekday, Day, Hour, HourCount, Minute
  <2>4. Answered(Moment(cfg, last))' <=> Answered(Moment(cfg, last))
    BY <1>6 DEF Answered, Moment
  <2>5. QED
    BY <1>1, <1>6, <2>1, <2>2, <2>3, <2>4 DEF TimeInv
<1>7. CASE Reload
  BY <1>1, <1>6, <1>7 DEF Reload, KeepHistory, TimeInv
<1>8. CASE Quit
  BY <1>6, <1>8 DEF Quit
<1>9. CASE Tick
  BY <1>1, <1>6, <1>9 DEF Tick
<1>10. CASE UNCHANGED vars
  BY <1>6, <1>10 DEF vars, TimeInv
<1>11. QED
  BY <1>3, <1>4, <1>5, <1>7, <1>8, <1>9, <1>10 DEF Next

LEMMA TimeInvariance ==
    ASSUME ~SaveCanFail
    PROVE  Spec => [](PlanInv /\ IInv /\ TimeInv)
<1>1. Init => TimeInv
  <2>1. MinutesPerDay \in Nat \ {0}
    BY SchedulerAssumption DEF MinutesPerDay
  <2>2. QED
    BY <2>1 DEF Init, TimeInv, Never
<1>2. PlanInv /\ IInv /\ TimeInv /\ [Next]_vars => TimeInv'
  BY TimeStep
<1>3. Spec => []PlanInv
  BY PlanInvariance
<1>4. Spec => []IInv
  BY CountedInvariance
<1>5. QED
  BY <1>1, <1>2, <1>3, <1>4, PTL DEF Spec

LEMMA TimeHolds == PlanInv /\ TimeInv => OnTime /\ CaughtUpSameDay
<1> SUFFICES ASSUME PlanInv, TimeInv PROVE OnTime /\ CaughtUpSameDay
  OBVIOUS
<1>1. /\ now \in Nat \ {0} /\ cfg \in Settings /\ last \in Nat /\ last <= now
      /\ checkedAt \in Nat /\ since \in Nat /\ settled \in Nat /\ MaxGap \in Nat \ {0}
  BY SchedulerAssumption DEF PlanInv
<1>2. OnTime
  <2>1. ASSUME NEW p \in since + 1 .. now - MaxGap, on PROVE p \in since + 1 .. checkedAt
    BY <1>1, <2>1 DEF TimeInv
  <2>2. QED
    BY <2>1 DEF OnTime, TimeInv, Punctual
<1>3. CaughtUpSameDay
  <2> DEFINE p == Moment(cfg, now)
  <2>1. SUFFICES ASSUME on, checkedAt = now, cfg.runMissed, Planned(cfg, p), settled < p,
                        p <= now
                 PROVE  Answered(p)
    BY DEF CaughtUpSameDay
  <2>2. RanThisInterval(cfg, last, now)
    BY <1>1, <2>1, PlannedIsDue DEF TimeInv
  <2>3. last # Never /\ Moment(cfg, last) = p /\ p <= last
    BY <1>1, <2>2, RanAnswers
  <2>4. p \in Nat
    BY <1>1, MomentInside
  <2>5. QED
    BY <1>1, <2>1, <2>3, <2>4 DEF TimeInv
<1>4. QED
  BY <1>2, <1>3

(* While saving works and check() is called every MaxGap minutes, every    *)
(* planned moment that comes while the application runs is answered by the *)
(* check that follows, whatever was changed, reloaded or cancelled: isDue  *)
(* and RanThisInterval never suppress a first run.                         *)
THEOREM OnTimeSafe ==
    ASSUME ~SaveCanFail
    PROVE  Spec => []OnTime
  BY TimeInvariance, TimeHolds, PTL

(* While saving works, the first check after a start runs a task that was  *)
(* missed earlier in the day, if runMissed is set (CWScheduler::start).    *)
THEOREM CaughtUpSafe ==
    ASSUME ~SaveCanFail
    PROVE  Spec => []CaughtUpSameDay
  BY TimeInvariance, TimeHolds, PTL


-----------------------------------------------------------------------------
(* The messages of different tasks differ, and are no other messages.      *)
LEMMA MessagesDiffer ==
    /\ \A t, u : BgFinished(t) = BgFinished(u) => t = u
    /\ \A k, t : ScheduledRun(k) # BgFinished(t)
    /\ \A t : Exit # BgFinished(t)
    /\ \A k \in Kinds : ScheduledRun(k) \in Messages
    /\ \A t \in Tasks : BgFinished(t) \in Messages
    /\ Exit \in Messages
  BY DEF BgFinished, ScheduledRun, Exit, Messages

(* Taking a message moves the others forward.                              *)
LEMMA TakeMoves ==
    ASSUME BgTypeOK, NEW m, Take(m)
    PROVE  /\ queue' \in Seq(Messages)
           /\ 1 \in DOMAIN queue /\ queue[1] = m
           /\ \A i \in DOMAIN queue' :
                i + 1 \in DOMAIN queue /\ queue'[i] = queue[i + 1]
           /\ \A i \in DOMAIN queue \ {1} :
                i - 1 \in DOMAIN queue' /\ queue'[i - 1] = queue[i]
           /\ DOMAIN queue \subseteq Nat \ {0}
           /\ DOMAIN queue' \subseteq Nat \ {0}
  BY DEF BgTypeOK, Take

(* Posting a message leaves the others where they are.                     *)
LEMMA AppendKeeps ==
    ASSUME BgTypeOK, NEW m \in Messages, queue' = Append(queue, m)
    PROVE  /\ queue' \in Seq(Messages)
           /\ Len(queue) + 1 \in DOMAIN queue'
           /\ queue'[Len(queue) + 1] = m
           /\ \A i \in DOMAIN queue : i \in DOMAIN queue' /\ queue'[i] = queue[i]
           /\ \A i \in DOMAIN queue' : i = Len(queue) + 1 \/ i \in DOMAIN queue
           /\ Len(queue) + 1 \notin DOMAIN queue
  BY DEF BgTypeOK

(* Every step keeps every variable in its type.                            *)
LEMMA TypeStep ==
    ASSUME BgTypeOK, [BgNext]_bgVars PROVE BgTypeOK'
<1> USE DEF BgTypeOK, Jobs!TypeOK, Jobs!Status, Kinds
<1>1. ASSUME Post PROVE BgTypeOK'
  <2>1. PICK m \in Messages : queue' = Append(queue, m)
    BY <1>1, MessagesDiffer DEF Post
  <2>2. QED
    BY <1>1, <2>1, AppendKeeps DEF Post
<1>2. ASSUME RequestExit PROVE BgTypeOK'
  <2>1. queue' \in Seq(Messages)
    <3>1. queue' = <<>>
      BY <1>2 DEF RequestExit
    <3>2. <<>> \in Seq(Messages)
      OBVIOUS
    <3>3. QED
      BY <3>1, <3>2
  <2>2. QED
    BY <1>2, <2>1 DEF RequestExit
<1>3. ASSUME NEW t \in Tasks, Finished(t) PROVE BgTypeOK'
  BY <1>3, TakeMoves DEF Finished
<1>4. ASSUME NEW k \in Kinds, Skip(k) PROVE BgTypeOK'
  BY <1>4, TakeMoves DEF Skip
<1>5. ASSUME NEW k \in Kinds, Start(k) PROVE BgTypeOK'
  BY <1>5, TakeMoves DEF Start, Jobs!Begin
<1>6. ASSUME NEW k \in Kinds, StartFailed(k) PROVE BgTypeOK'
  BY <1>6, TakeMoves DEF StartFailed
<1>7. ASSUME NEW k \in Kinds, Free(k) PROVE BgTypeOK'
  BY <1>7 DEF Free, AfterFree, Busy, Jobs!Release
<1>8. ASSUME NEW t \in Tasks, Record(t) PROVE BgTypeOK'
  BY <1>8 DEF Record
<1>9. ASSUME NEW t \in Tasks, OnFinished(t) PROVE BgTypeOK'
  BY <1>9, MessagesDiffer, AppendKeeps DEF OnFinished, Jobs!Report
<1>10. CASE UNCHANGED bgVars
  BY <1>10 DEF bgVars
<1>11. QED
  BY <1>1, <1>2, <1>3, <1>4, <1>5, <1>6, <1>7, <1>8, <1>9, <1>10
     DEF BgNext, UserInterface, Reader

(* What is queued after a message has been taken was queued before it.     *)
LEMMA TakeKeeps ==
    ASSUME TaskInv, NEW m, Take(m)
    PROVE  /\ \A i \in DOMAIN queue', t \in Tasks : queue'[i] = BgFinished(t) =>
                /\ t \in live /\ slot[kind[t]] = t
                /\ status[t] = "reported" /\ result[t]
                /\ m # BgFinished(t)
                /\ \A j \in DOMAIN queue' : queue'[j] = BgFinished(t) => j = i
           /\ \A t : Queued(BgFinished(t)) =>
                        m = BgFinished(t) \/ Queued(BgFinished(t))'
           /\ \A t \in Tasks : m = BgFinished(t) =>
                /\ t \in live /\ slot[kind[t]] = t /\ status[t] = "reported"
<1>1. BgTypeOK
  BY DEF TaskInv
<1>2. ASSUME NEW i \in DOMAIN queue', NEW t \in Tasks, queue'[i] = BgFinished(t)
      PROVE  /\ t \in live /\ slot[kind[t]] = t
             /\ status[t] = "reported" /\ result[t]
             /\ m # BgFinished(t)
             /\ \A j \in DOMAIN queue' : queue'[j] = BgFinished(t) => j = i
  <2>1. i + 1 \in DOMAIN queue /\ queue[i + 1] = BgFinished(t) /\ i \in Nat \ {0}
    BY <1>1, <1>2, TakeMoves
  <2>2. \A j \in DOMAIN queue : queue[j] = BgFinished(t) => j = i + 1
    BY <2>1 DEF TaskInv, QueuedIsCurrent
  <2>3. m # BgFinished(t)
    BY <1>1, <2>1, <2>2, TakeMoves
  <2>4. ASSUME NEW j \in DOMAIN queue', queue'[j] = BgFinished(t) PROVE j = i
    <3>1. j + 1 = i + 1 /\ j \in Nat
      BY <1>1, <2>2, <2>4, TakeMoves
    <3>2. QED
      BY <2>1, <3>1
  <2>5. QED
    BY <2>1, <2>3, <2>4 DEF TaskInv, QueuedIsCurrent
<1>3. ASSUME NEW t, Queued(BgFinished(t)), m # BgFinished(t)
      PROVE  Queued(BgFinished(t))'
  <2>1. PICK i \in DOMAIN queue : queue[i] = BgFinished(t)
    BY <1>3 DEF Queued
  <2>2. i - 1 \in DOMAIN queue' /\ queue'[i - 1] = BgFinished(t)
    BY <1>1, <1>3, <2>1, TakeMoves
  <2>3. QED
    BY <2>2 DEF Queued, BgFinished
<1>4. ASSUME NEW t \in Tasks, m = BgFinished(t)
      PROVE  t \in live /\ slot[kind[t]] = t /\ status[t] = "reported"
  BY <1>1, <1>4, TakeMoves DEF TaskInv, QueuedIsCurrent
<1>5. QED
  BY <1>2, <1>3, <1>4

(* Taking a message other than a task's keeps the strengthening, when the  *)
(* handler changes nothing else.                                           *)
LEMMA TakeOnly ==
    ASSUME TaskInv, NEW k \in Kinds, Take(ScheduledRun(k)),
           UNCHANGED <<slot, live, kind, status, result, window, freeing>>
    PROVE  TaskInv'
<1>1. BgTypeOK'
  BY TakeMoves DEF TaskInv, BgTypeOK, Jobs!TypeOK
<1>2. QueuedIsCurrent'
  BY TakeKeeps DEF QueuedIsCurrent
<1>3. SkipOnlyWhileRunning'
  BY TakeKeeps, MessagesDiffer DEF TaskInv, SkipOnlyWhileRunning
<1>4. EndInv' /\ FreeingInv'
  BY DEF TaskInv, EndInv, FreeingInv, Take, Kinds
<1>5. QED
  BY <1>1, <1>2, <1>3, <1>4 DEF TaskInv, NoLeak, SlotInv, ReportedInv

(* The strengthening is inductive.                                         *)
LEMMA InvStep ==
    ASSUME TaskInv, [BgNext]_bgVars PROVE TaskInv'
<1>0. BgTypeOK /\ BgTypeOK'
  BY TypeStep DEF TaskInv
<1>1. ASSUME Post PROVE TaskInv'
  <2>1. PICK m \in Messages :
          queue' = Append(queue, m) /\ \A t : m # BgFinished(t)
    BY <1>1, MessagesDiffer DEF Post
  <2>2. QueuedIsCurrent'
    BY <1>0, <1>1, <2>1, AppendKeeps DEF TaskInv, QueuedIsCurrent, Post
  <2>3. \A t : Queued(BgFinished(t)) => Queued(BgFinished(t))'
    BY <1>0, <2>1, AppendKeeps DEF Queued, BgFinished
  <2>4. SkipOnlyWhileRunning'
    BY <1>1, <2>3 DEF TaskInv, SkipOnlyWhileRunning, Post
  <2>5. QED
    BY <1>0, <1>1, <2>2, <2>4
       DEF TaskInv, Post, NoLeak, SlotInv, ReportedInv, EndInv, FreeingInv, Kinds
<1>2. ASSUME RequestExit PROVE TaskInv'
  <2>1. QueuedIsCurrent'
    BY <1>2 DEF RequestExit, QueuedIsCurrent
  <2>2. QED
    BY <1>0, <1>2, <2>1
       DEF TaskInv, RequestExit, NoLeak, SlotInv, ReportedInv, EndInv, FreeingInv,
           SkipOnlyWhileRunning
<1>3. ASSUME NEW t \in Tasks, Finished(t) PROVE TaskInv'
  <2>1. Take(BgFinished(t))
    BY <1>3 DEF Finished
  <2>2. QueuedIsCurrent'
    BY <1>3, <2>1, TakeKeeps DEF QueuedIsCurrent, Finished
  <2>3. t \in live /\ slot[kind[t]] = t /\ status[t] = "reported"
    BY <2>1, TakeKeeps
  <2>4. ~Queued(BgFinished(t))'
    <3>1. \A i \in DOMAIN queue' : queue'[i] # BgFinished(t)
      BY <2>1, TakeKeeps
    <3>2. QED
      BY <3>1 DEF Queued, BgFinished
  <2>5. FreeingInv'
    BY <1>0, <1>3, <2>3, <2>4, BackgroundAssumption DEF FreeingInv, Finished
  <2>6. \A u : Queued(BgFinished(u)) => u = t \/ Queued(BgFinished(u))'
    BY <2>1, TakeKeeps, MessagesDiffer
  <2>7. SkipOnlyWhileRunning'
    <3> SUFFICES ASSUME NEW k \in Kinds, window, slot[k] # NoTask,
                        status[slot[k]] # "running", k # kind[t]
                 PROVE  Queued(BgFinished(slot[k]))'
      BY <1>3 DEF SkipOnlyWhileRunning, Finished
    <3>1. Queued(BgFinished(slot[k]))
      BY <2>1 DEF TaskInv, SkipOnlyWhileRunning, Take, Kinds
    <3>2. slot[k] # t
      BY DEF TaskInv, SlotInv
    <3>3. QED
      BY <1>3, <2>6, <3>1, <3>2 DEF Finished, Queued, BgFinished
  <2>8. EndInv'
    BY <1>0, <1>3, <2>1 DEF TaskInv, EndInv, Finished, Take, BgTypeOK, Kinds
  <2>9. QED
    BY <1>0, <1>3, <2>2, <2>5, <2>7, <2>8
       DEF TaskInv, Finished, NoLeak, SlotInv, ReportedInv
<1>4. ASSUME NEW k \in Kinds, Skip(k) PROVE TaskInv'
  BY <1>4, TakeOnly DEF Skip
<1>5. ASSUME NEW k \in Kinds, StartFailed(k) PROVE TaskInv'
  BY <1>5, TakeOnly DEF StartFailed
<1>6. ASSUME NEW k \in Kinds, Start(k) PROVE TaskInv'
  <2>1. Take(ScheduledRun(k)) /\ slot[k] = NoTask
    BY <1>6 DEF Start, Busy
  <2>2. PICK t \in Tasks \ live :
          /\ slot' = [slot EXCEPT ![k] = t]
          /\ live' = live \cup {t}
          /\ kind' = [kind EXCEPT ![t] = k]
          /\ result' = [result EXCEPT ![t] = FALSE]
          /\ status[t] = "idle"
          /\ status' = [status EXCEPT ![t] = "running"]
    BY <1>6 DEF Start, Jobs!Begin
  <2>3. t # NoTask
    BY BackgroundAssumption
  <2>4. QueuedIsCurrent'
    <3> SUFFICES ASSUME NEW i \in DOMAIN queue', NEW u \in Tasks,
                        queue'[i] = BgFinished(u)
                 PROVE  /\ u \in live' /\ slot'[kind'[u]] = u
                        /\ status'[u] = "reported" /\ result'[u]
                        /\ \A j \in DOMAIN queue' :
                             queue'[j] = BgFinished(u) => j = i
      BY DEF QueuedIsCurrent, BgFinished
    <3>1. /\ u \in live /\ slot[kind[u]] = u
          /\ status[u] = "reported" /\ result[u]
          /\ \A j \in DOMAIN queue' : queue'[j] = BgFinished(u) => j = i
      BY <2>1, TakeKeeps
    <3>2. u # t /\ u # NoTask
      BY <3>1, BackgroundAssumption
    <3>3. QED
      BY <1>0, <2>1, <2>2, <3>1, <3>2 DEF BgTypeOK, Jobs!TypeOK
  <2>5. \A u : Queued(BgFinished(u)) => Queued(BgFinished(u))'
    BY <2>1, TakeKeeps, MessagesDiffer
  <2>6. SkipOnlyWhileRunning'
    <3> SUFFICES ASSUME NEW l \in Kinds, window, slot'[l] # NoTask, l # k
                 PROVE  \/ status'[slot'[l]] = "running"
                        \/ Queued(BgFinished(slot[l]))'
      BY <1>0, <1>6, <2>2, <2>3
         DEF SkipOnlyWhileRunning, Start, BgTypeOK, Jobs!TypeOK
    <3>1. slot'[l] = slot[l] /\ slot[l] \in live
      BY <1>0, <2>2 DEF TaskInv, SlotInv, BgTypeOK
    <3>2. status[slot[l]] = "running" \/ Queued(BgFinished(slot[l]))
      BY <2>1, <3>1 DEF TaskInv, SkipOnlyWhileRunning, Take, Kinds
    <3>3. QED
      <4>1. CASE status[slot[l]] = "running"
        BY <1>0, <2>2, <3>1, <4>1 DEF BgTypeOK, Jobs!TypeOK
      <4>2. CASE Queued(BgFinished(slot[l]))
        BY <2>5, <3>1, <4>2 DEF Queued, BgFinished
      <4>3. QED
        BY <3>2, <4>1, <4>2
  <2>7. NoLeak' /\ SlotInv' /\ ReportedInv'
    <3>1. \A l \in Kinds \ {k} : slot'[l] = slot[l] /\ slot[l] # t
      BY <1>0, <2>2, <2>3 DEF TaskInv, SlotInv, BgTypeOK
    <3>2. slot'[k] = t /\ kind'[t] = k /\ status'[t] = "running"
      BY <1>0, <2>2 DEF BgTypeOK, Jobs!TypeOK
    <3>3. \A u \in Tasks \ {t} : /\ kind'[u] = kind[u]
                                /\ status'[u] = status[u]
                                /\ result'[u] = result[u]
      BY <1>0, <2>2 DEF BgTypeOK, Jobs!TypeOK
    <3>4. \A u \in live : u \in Tasks /\ u # t /\ kind[u] # k
      BY <1>0, <2>1, <2>3, BackgroundAssumption DEF TaskInv, NoLeak, BgTypeOK
    <3>5. NoLeak'
      BY <1>0, <2>2, <3>1, <3>2, <3>3, <3>4 DEF TaskInv, NoLeak, BgTypeOK
    <3>6. SlotInv'
      BY <1>0, <2>2, <3>1, <3>2, <3>3, <3>4 DEF TaskInv, SlotInv, BgTypeOK
    <3>7. ReportedInv'
      BY <3>2, <3>3 DEF TaskInv, ReportedInv
    <3>8. QED
      BY <3>5, <3>6, <3>7
  <2>8. EndInv' /\ FreeingInv'
    BY <1>6, <2>1 DEF TaskInv, EndInv, FreeingInv, Start, Take, Kinds
  <2>9. QED
    BY <1>0, <2>4, <2>6, <2>7, <2>8 DEF TaskInv
<1>7. ASSUME NEW k \in Kinds, Free(k) PROVE TaskInv'
  <2>1. freeing = k /\ freeing' = AfterFree(k)
        /\ UNCHANGED <<kind, result, queue, window>>
    BY <1>7 DEF Free
  <2>2. CASE slot[k] = NoTask /\ UNCHANGED <<status, live, slot>>
    <3>1. ~window
      BY <2>1, <2>2 DEF TaskInv, FreeingInv
    <3>2. QED
      BY <1>0, <2>1, <2>2, <3>1
         DEF TaskInv, AfterFree, QueuedIsCurrent, NoLeak, SlotInv, ReportedInv,
             EndInv, FreeingInv, SkipOnlyWhileRunning, Kinds
  <2>3. CASE slot[k] # NoTask /\ Jobs!Release(slot[k])
             /\ live' = live \ {slot[k]}
             /\ slot' = [slot EXCEPT ![k] = NoTask]
    <3>0. slot[k] \in live /\ kind[slot[k]] = k /\ slot[k] \in Tasks
      BY <1>0, <2>3 DEF TaskInv, SlotInv, BgTypeOK
    <3>1. status' = [status EXCEPT ![slot[k]] = "idle"]
      BY <2>3 DEF Jobs!Release
    <3>2. NoLeak' /\ SlotInv' /\ ReportedInv'
      BY <1>0, <2>1, <2>3, <3>0, <3>1
         DEF TaskInv, NoLeak, SlotInv, ReportedInv, BgTypeOK, Jobs!TypeOK
    <3>3. EndInv' /\ FreeingInv'
      BY <1>0, <2>1, <2>3 DEF TaskInv, EndInv, FreeingInv, AfterFree, Kinds, BgTypeOK
    <3>4. ~Queued(BgFinished(slot[k]))
      BY <2>1 DEF TaskInv, FreeingInv, EndInv, Queued, BgTypeOK, Kinds
    <3>5. QueuedIsCurrent'
      BY <1>0, <2>1, <2>3, <3>0, <3>1, <3>4
         DEF TaskInv, QueuedIsCurrent, Queued, BgTypeOK, Jobs!TypeOK
    <3>6. \A t : Queued(BgFinished(t))' <=> Queued(BgFinished(t))
      BY <2>1 DEF Queued, BgFinished
    <3>7. SkipOnlyWhileRunning'
      BY <1>0, <2>1, <2>3, <3>0, <3>1, <3>6
         DEF TaskInv, SkipOnlyWhileRunning, SlotInv, BgTypeOK, Jobs!TypeOK
    <3>8. QED
      BY <1>0, <3>2, <3>3, <3>5, <3>7 DEF TaskInv
  <2>4. QED
    BY <1>7, <2>2, <2>3 DEF Free, Busy
<1>8. ASSUME NEW t \in Tasks, Record(t) PROVE TaskInv'
  <2>1. \A m : Queued(m)' <=> Queued(m)
    BY <1>8 DEF Record, Queued
  <2>2. \A u \in Tasks : result[u] => result'[u]
    BY <1>0, <1>8 DEF Record, BgTypeOK
  <2>3. QueuedIsCurrent'
    BY <1>8, <2>2 DEF TaskInv, QueuedIsCurrent, Record
  <2>4. QED
    BY <1>0, <1>8, <2>1, <2>2, <2>3
       DEF TaskInv, Record, NoLeak, SlotInv, ReportedInv, EndInv, FreeingInv,
           SkipOnlyWhileRunning
<1>9. ASSUME NEW t \in Tasks, OnFinished(t) PROVE TaskInv'
  <2>1. /\ status[t] = "running" /\ result[t] /\ t \in live
        /\ slot[kind[t]] = t
        /\ status' = [status EXCEPT ![t] = "reported"]
        /\ UNCHANGED <<slot, live, kind, result, window, freeing>>
    BY <1>9 DEF TaskInv, OnFinished, Jobs!Report, NoLeak
  <2>2. CASE window
    <3>1. queue' = Append(queue, BgFinished(t)) /\ BgFinished(t) \in Messages
      BY <1>9, <2>2, MessagesDiffer DEF OnFinished
    <3>2. \A i \in DOMAIN queue : queue[i] # BgFinished(t)
      BY <2>1 DEF TaskInv, QueuedIsCurrent
    <3>3. QueuedIsCurrent'
      BY <1>0, <2>1, <3>1, <3>2, AppendKeeps, MessagesDiffer
         DEF TaskInv, QueuedIsCurrent, BgTypeOK, Jobs!TypeOK
    <3>4. /\ Queued(BgFinished(t))'
          /\ \A u : Queued(BgFinished(u)) => Queued(BgFinished(u))'
      BY <1>0, <3>1, AppendKeeps DEF Queued, BgFinished
    <3>5. \A u : Queued(BgFinished(u))' => u = t \/ Queued(BgFinished(u))
      BY <1>0, <3>1, AppendKeeps, MessagesDiffer DEF Queued, BgFinished
    <3>6. SkipOnlyWhileRunning'
      BY <1>0, <2>1, <3>4 DEF TaskInv, SkipOnlyWhileRunning, SlotInv, BgTypeOK,
         Jobs!TypeOK
    <3>7. FreeingInv'
      BY <1>0, <2>1, <3>5 DEF TaskInv, FreeingInv, BgTypeOK, Jobs!TypeOK
    <3>8. QED
      BY <1>0, <2>1, <2>2, <3>3, <3>6, <3>7
         DEF TaskInv, NoLeak, SlotInv, ReportedInv, EndInv, BgTypeOK,
             Jobs!TypeOK
  <2>3. CASE ~window
    <3>1. queue' = queue
      BY <1>9, <2>3 DEF OnFinished
    <3>2. QueuedIsCurrent'
      BY <1>0, <2>1, <3>1 DEF TaskInv, QueuedIsCurrent, BgTypeOK, Jobs!TypeOK
    <3>3. QED
      BY <1>0, <2>1, <2>3, <3>1, <3>2
         DEF TaskInv, NoLeak, SlotInv, ReportedInv, EndInv, FreeingInv,
             SkipOnlyWhileRunning, BgTypeOK, Jobs!TypeOK
  <2>4. QED
    BY <2>2, <2>3
<1>10. CASE UNCHANGED bgVars
  BY <1>0, <1>10
     DEF bgVars, TaskInv, QueuedIsCurrent, NoLeak, SlotInv, ReportedInv, EndInv,
         FreeingInv, SkipOnlyWhileRunning, Queued
<1>11. QED
  BY <1>1, <1>2, <1>3, <1>4, <1>5, <1>6, <1>7, <1>8, <1>9, <1>10
     DEF BgNext, UserInterface, Reader

LEMMA InvInit == BgInit => TaskInv
  BY BackgroundAssumption
     DEF BgInit, TaskInv, BgTypeOK, Kinds, Jobs!TypeOK, Jobs!Init,
         Jobs!Status, QueuedIsCurrent, NoLeak, SlotInv, ReportedInv,
         EndInv, FreeingInv, SkipOnlyWhileRunning, Queued

(* The strengthening is an invariant of the specification.                 *)
LEMMA Invariance == BgSpec => []TaskInv
<1>1. TaskInv /\ [BgNext]_bgVars => TaskInv'
  BY InvStep
<1>2. QED
  BY <1>1, InvInit, PTL DEF BgSpec

(* Slots, queue and the state of an exit stay well typed, for any number   *)
(* of addresses a task can be allocated at.                                *)
THEOREM TaskTypeCorrect == BgSpec => []BgTypeOK
<1>1. TaskInv => BgTypeOK
  BY DEF TaskInv
<1>2. QED
  BY <1>1, Invariance, PTL

(* A queued address is that of the task onBgTaskFinished will delete.      *)
THEOREM QueuedSafe == BgSpec => []QueuedIsCurrent
<1>1. TaskInv => QueuedIsCurrent
  BY DEF TaskInv
<1>2. QED
  BY <1>1, Invariance, PTL

(* Every task, child and reader thread belongs to one of the two slots.    *)
THEOREM LeakFree == BgSpec => []NoLeak
<1>1. TaskInv => NoLeak
  BY DEF TaskInv
<1>2. QED
  BY <1>1, Invariance, PTL

(* A reported task never blocks its slot for good.                         *)
THEOREM SkipSafe == BgSpec => []SkipOnlyWhileRunning
<1>1. TaskInv => SkipOnlyWhileRunning
  BY DEF TaskInv
<1>2. QED
  BY <1>1, Invariance, PTL

(* The message handler deletes only tasks whose child has been reported.   *)
THEOREM DeleteSafe == BgSpec => []DeletesOnlyReported
<1>1. TaskInv => DeletesOnlyReported
  BY DEF TaskInv, FreeingInv, DeletesOnlyReported
<1>2. QED
  BY <1>1, Invariance, PTL

(* Nothing outlives the application.                                       *)
THEOREM EndSafe == BgSpec => []NothingLeftBehind
<1>1. TaskInv => NothingLeftBehind
  <2> SUFFICES ASSUME TaskInv, freeing = "ended"
               PROVE  live = {} /\ \A t \in Tasks : status[t] = "idle"
    BY DEF NothingLeftBehind
  <2>1. \A k \in Kinds : slot[k] = NoTask
    BY DEF TaskInv, EndInv
  <2>2. \A t \in Tasks : t \notin live
    BY <2>1, BackgroundAssumption DEF TaskInv, NoLeak, BgTypeOK
  <2>3. QED
    BY <2>2 DEF TaskInv, NoLeak, BgTypeOK
<1>2. QED
  BY <1>1, Invariance, PTL
=============================================================================
