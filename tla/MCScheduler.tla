---------------------------- MODULE MCScheduler -----------------------------
(* Model-checking instances of Scheduler: days of two hours.               *)
EXTENDS Scheduler

Task(f, h, m, d, missed) ==
    [scheduled |-> TRUE, hour |-> h, minute |-> m, frequency |-> f,
     day |-> d, runMissed |-> missed]

Off == [Task("daily", 0, 0, 0, FALSE) EXCEPT !.scheduled = FALSE]

(* The first and the last minute of an hour, in both hours; day 5 is       *)
(* Saturday.                                                               *)
AllSettings ==
    {Off} \cup {Task("daily", h, 1, 0, missed) : h \in 0 .. 1, missed \in BOOLEAN}
          \cup {Task("workdays", 0, 1, 0, TRUE), Task("weekly", 0, 1, 5, TRUE),
                Task("weekly", 0, 0, 6, FALSE),
                Task("hourly", 0, 1, 0, FALSE), Task("hourly", 0, 2, 0, TRUE)}
=============================================================================
