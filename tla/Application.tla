---------------------------- MODULE Application -----------------------------
(***************************************************************************)
(* The life of the tray application (cw_application.cpp): start-up, the    *)
(* tray icon (cw_tray.cpp), the check for a newer version on a thread of   *)
(* its own (cw_update_checker.cpp), and shutdown.  Background tasks are in *)
(* Background, the scheduler in Scheduler.                                 *)
(***************************************************************************)
EXTENDS Naturals, Sequences

CONSTANTS Checks,       \* version checks, one thread and one result each
          NoCheck,      \* m_hThread = NULL
          MaxRestarts,  \* bound: times that the Windows shell restarts
          QueueBound    \* bound: queued messages when another is added

ASSUME ApplicationAssumption ==
    NoCheck \notin Checks /\ MaxRestarts \in Nat /\ QueueBound \in Nat

VARIABLES
    stage,      \* where run() is
    window,     \* the hidden window exists
    queue,      \* messages posted to it
    curl,       \* curl_global_init has succeeded and not been undone
    timer,      \* CW_VERSION_CHECK_TIMER_ID is set
    handle,     \* m_updateChecker.m_hThread
    thread,     \* the checks' threads
    newer,      \* result->available
    live,       \* results allocated
    banner,     \* the dashboard shows that a newer version is available
    shell,      \* the Windows shell (Explorer) runs
    restarts,   \* it has restarted so often
    icon,       \* it shows the tray icon
    created,    \* m_tray.m_created
    retry       \* CW_TRAY_RETRY_TIMER_ID is set

checker == <<handle, thread, newer, live>>
tray == <<shell, restarts, icon, created, retry>>
vars == <<stage, window, queue, curl, timer, handle, thread, newer, live,
          banner, shell, restarts, icon, created, retry>>

CheckVersion == <<"check", NoCheck>>
TaskbarCreated == <<"taskbar", NoCheck>>
Exit == <<"exit", NoCheck>>
Result(i) == <<"result", i>>
Messages == {CheckVersion, TaskbarCreated, Exit} \cup {Result(i) : i \in Checks}
Running == {"net", "have", "sure"}

TypeOK ==
    /\ stage \in {"start", "loop", "wait", "tray", "cleanup", "ended"}
    /\ window \in BOOLEAN
    /\ queue \in Seq(Messages)
    /\ curl \in BOOLEAN
    /\ timer \in BOOLEAN
    /\ handle \in Checks \cup {NoCheck}
    /\ thread \in [Checks -> Running \cup {"none", "ended"}]
    /\ newer \in [Checks -> BOOLEAN]
    /\ live \subseteq Checks
    /\ banner \in BOOLEAN
    /\ shell \in BOOLEAN
    /\ restarts \in 0 .. MaxRestarts
    /\ icon \in BOOLEAN
    /\ created \in BOOLEAN
    /\ retry \in BOOLEAN

(* The shell may start after the application.                              *)
Init ==
    /\ stage = "start"
    /\ window = FALSE
    /\ queue = <<>>
    /\ curl \in BOOLEAN
    /\ timer = FALSE
    /\ handle = NoCheck
    /\ thread = [i \in Checks |-> "none"]
    /\ newer = [i \in Checks |-> FALSE]
    /\ live = {}
    /\ banner = FALSE
    /\ shell \in BOOLEAN
    /\ restarts = 0
    /\ icon = FALSE
    /\ created = FALSE
    /\ retry = FALSE

-----------------------------------------------------------------------------

SetRetry == retry' = TRUE

(* Fault: m_created is set although the shell did not take the icon.       *)
CreatedAnyway ==
    /\ created' = TRUE
    /\ icon' = (icon \/ (~created /\ shell))
    /\ retry' = FALSE

(* createTray(): CWTray::create() adds the icon unless it has already done *)
(* so; without a shell that fails and is tried again later.                *)
CreateTray ==
    \/ /\ created \/ shell
       /\ created' = TRUE
       /\ icon' = (icon \/ ~created)
       /\ retry' = FALSE
    \/ /\ ~created /\ ~shell
       /\ SetRetry
       /\ UNCHANGED <<created, icon>>

(* run() up to the message loop: --check-version and the configuration     *)
(* decide on the message and the timer.                                    *)
Start ==
    /\ stage = "start"
    /\ stage' = "loop"
    /\ window' = TRUE
    /\ CreateTray
    /\ queue' \in {<<>>, <<CheckVersion>>}
    /\ timer' \in BOOLEAN
    /\ UNCHANGED <<curl, checker, banner, shell, restarts>>

(* The hidden window cannot be created.                                    *)
StartFailed ==
    /\ stage = "start"
    /\ stage' = "ended"
    /\ curl' = FALSE
    /\ UNCHANGED <<window, queue, timer, checker, banner, tray>>

Take(m) ==
    /\ stage = "loop"
    /\ queue # <<>>
    /\ Head(queue) = m
    /\ queue' = Tail(queue)

InFlight == handle # NoCheck /\ thread[handle] # "ended"

(* startCheck(): doCheck begins by allocating the result.                  *)
StartCheck ==
    \/ /\ ~curl \/ InFlight
       /\ UNCHANGED checker
    \/ /\ curl /\ ~InFlight
       /\ \/ \E i \in Checks :
               /\ thread[i] = "none"
               /\ handle' = i
               /\ thread' = [thread EXCEPT ![i] = "net"]
               /\ live' = live \cup {i}
          \/ handle' = NoCheck /\ UNCHANGED <<thread, live>>
       /\ UNCHANGED newer

(* IDM_TRAY_CHECK_VERSION.                                                 *)
CheckCommand ==
    /\ Take(CheckVersion)
    /\ StartCheck
    /\ UNCHANGED <<stage, window, curl, timer, banner, tray>>

VersionTimer ==
    /\ stage = "loop"
    /\ timer
    /\ timer' = FALSE
    /\ StartCheck
    /\ UNCHANGED <<stage, window, queue, curl, banner, tray>>

(* Fault: a result without news is not deleted.                            *)
KeepsResult(i) ==
    /\ Take(Result(i))
    /\ banner' = (banner \/ newer[i])
    /\ live' = IF newer[i] THEN live \ {i} ELSE live
    /\ UNCHANGED <<stage, window, curl, timer, handle, thread, newer, tray>>

(* onVersionCheckResult: the balloon needs the icon, the banner does not.  *)
OnResult(i) ==
    /\ Take(Result(i))
    /\ banner' = (banner \/ newer[i])
    /\ live' = live \ {i}
    /\ UNCHANGED <<stage, window, curl, timer, handle, thread, newer, tray>>

OnTaskbarCreated ==
    /\ Take(TaskbarCreated)
    /\ CreateTray
    /\ UNCHANGED <<stage, window, curl, timer, checker, banner, shell,
                   restarts>>

RetryTimer ==
    /\ stage = "loop"
    /\ retry
    /\ \/ ~created /\ CreateTray
       \/ created /\ retry' = FALSE /\ UNCHANGED <<created, icon>>
    /\ UNCHANGED <<stage, window, queue, curl, timer, checker, banner, shell,
                   restarts>>

(* IDM_TRAY_EXIT: the window goes with its messages and timers.            *)
OnExit ==
    /\ stage = "loop"
    /\ queue # <<>>
    /\ Head(queue) = Exit
    /\ queue' = <<>>
    /\ window' = FALSE
    /\ timer' = FALSE
    /\ retry' = FALSE
    /\ stage' = "wait"
    /\ UNCHANGED <<curl, checker, banner, shell, restarts, icon, created>>

(* Fault: the check is not waited for.                                     *)
NoWait ==
    /\ stage = "wait"
    /\ stage' = "tray"
    /\ handle' = NoCheck
    /\ UNCHANGED <<window, queue, curl, timer, thread, newer, live, banner,
                   tray>>

WaitForThread ==
    /\ stage = "wait"
    /\ ~InFlight
    /\ stage' = "tray"
    /\ handle' = NoCheck
    /\ UNCHANGED <<window, queue, curl, timer, thread, newer, live, banner,
                   tray>>

DestroyTray ==
    /\ stage = "tray"
    /\ stage' = "cleanup"
    /\ icon' = FALSE
    /\ created' = FALSE
    /\ UNCHANGED <<window, queue, curl, timer, checker, banner, shell,
                   restarts, retry>>

Cleanup ==
    /\ stage = "cleanup"
    /\ stage' = "ended"
    /\ curl' = FALSE
    /\ UNCHANGED <<window, queue, timer, checker, banner, tray>>

UserInterface ==
    \/ Start \/ StartFailed \/ CheckCommand \/ OnTaskbarCreated \/ OnExit
    \/ WaitForThread \/ DestroyTray \/ Cleanup
    \/ \E i \in Checks : OnResult(i)

-----------------------------------------------------------------------------
(* Fault: a server that does not answer is waited for without end.         *)
NoTimeout(i) == FALSE /\ UNCHANGED vars

(* The server's answer, an error or a timeout after 30 seconds.            *)
Answer(i) ==
    /\ thread[i] = "net"
    /\ thread' = [thread EXCEPT ![i] = "have"]
    /\ \E n \in BOOLEAN : newer' = [newer EXCEPT ![i] = n]
    /\ UNCHANGED <<stage, window, queue, curl, timer, handle, live, banner,
                   tray>>

(* IsWindow: without a window the result is deleted.                       *)
LookForWindow(i) ==
    /\ thread[i] = "have"
    /\ \/ window /\ thread' = [thread EXCEPT ![i] = "sure"] /\ UNCHANGED live
       \/ /\ ~window
          /\ thread' = [thread EXCEPT ![i] = "ended"]
          /\ live' = live \ {i}
    /\ UNCHANGED <<stage, window, queue, curl, timer, handle, newer, banner,
                   tray>>

(* Fault: the result is deleted after it has been posted.                  *)
PostAndDelete(i) ==
    /\ thread[i] = "sure"
    /\ thread' = [thread EXCEPT ![i] = "ended"]
    /\ queue' = IF window THEN Append(queue, Result(i)) ELSE queue
    /\ live' = live \ {i}
    /\ UNCHANGED <<stage, window, curl, timer, handle, newer, banner, tray>>

(* PostMessage, which fails if the window has gone in the meantime.        *)
PostResult(i) ==
    /\ thread[i] = "sure"
    /\ thread' = [thread EXCEPT ![i] = "ended"]
    /\ queue' = IF window THEN Append(queue, Result(i)) ELSE queue
    /\ UNCHANGED <<stage, window, curl, timer, handle, newer, live, banner,
                   tray>>

Checker(i) == Answer(i) \/ LookForWindow(i) \/ PostResult(i)

-----------------------------------------------------------------------------
(* The user, or a second launch of the program.                            *)
User ==
    /\ window
    /\ Len(queue) < QueueBound
    /\ \E m \in {CheckVersion, Exit} : queue' = Append(queue, m)
    /\ UNCHANGED <<stage, window, curl, timer, checker, banner, tray>>

(* The shell starts and tells every window that the taskbar is there; when *)
(* it ends its icons are gone.                                             *)
ShellStarts ==
    /\ ~shell
    /\ shell' = TRUE
    /\ queue' = IF window THEN Append(queue, TaskbarCreated) ELSE queue
    /\ UNCHANGED <<stage, window, curl, timer, checker, banner, restarts,
                   icon, created, retry>>

ShellEnds ==
    /\ shell
    /\ restarts < MaxRestarts
    /\ shell' = FALSE
    /\ restarts' = restarts + 1
    /\ icon' = FALSE
    /\ UNCHANGED <<stage, window, queue, curl, timer, checker, banner,
                   created, retry>>

Next ==
    \/ UserInterface \/ VersionTimer \/ RetryTimer
    \/ \E i \in Checks : Checker(i)
    \/ User \/ ShellStarts \/ ShellEnds

Spec == Init /\ [][Next]_vars

(* The threads run and timers fire; a check ends by its timeout at the     *)
(* latest.  User and shell need not do anything.                           *)
FairSpec ==
    /\ Spec
    /\ WF_vars(UserInterface)
    /\ WF_vars(VersionTimer)
    /\ WF_vars(RetryTimer)
    /\ \A i \in Checks : WF_vars(Checker(i))

-----------------------------------------------------------------------------
(* "Only one check runs at a time" (cw_update_checker.h:45), whether the   *)
(* timer, the menu or a second launch asks for it.                         *)
OneCheck ==
    \A i, j \in Checks :
        thread[i] \in Running /\ thread[j] \in Running => i = j

(* A check uses libcurl only while it is initialised, and never outlives   *)
(* the application.                                                        *)
CurlWhileChecking ==
    \A i \in Checks : thread[i] \in Running => curl /\ stage # "ended"

(* While the window exists every result has one owner: its thread until it *)
(* is posted, then the queue, once; and what is queued has not been        *)
(* deleted.                                                                *)
ResultOwned ==
    /\ window => \A i \in live :
           thread[i] \in Running \/ \E k \in DOMAIN queue : queue[k] = Result(i)
    /\ \A i \in Checks, k \in DOMAIN queue : queue[k] = Result(i) =>
           /\ i \in live
           /\ thread[i] = "ended"
           /\ \A l \in DOMAIN queue : queue[l] = Result(i) => l = k

(* As long as the icon has not been created another attempt is planned.    *)
RetryWhileMissing == stage = "loop" => (retry <=> ~created)

(* Exit ends the application, also in the middle of a check.               *)
ExitEnds == (stage = "wait") ~> (stage = "ended")

(* A shell that starts late gets the icon, by TaskbarCreated or the timer. *)
LateShellGetsIcon ==
    (stage = "loop" /\ shell /\ restarts = 0) ~>
        (icon \/ stage # "loop" \/ restarts > 0)

-----------------------------------------------------------------------------
(* Why the invariants hold: the inductive strengthening, in parts.         *)

(* A running check is the one in m_hThread, has its result, and runs while *)
(* libcurl is up; one that has not begun has no result.                    *)
CheckInv ==
    \A i \in Checks :
        /\ thread[i] \in Running =>
               handle = i /\ i \in live /\ curl /\ stage \in {"loop", "wait"}
        /\ thread[i] = "none" => i \notin live

(* The window exists exactly while its messages are handled, and no check  *)
(* begins before.                                                          *)
StageInv ==
    /\ window <=> stage = "loop"
    /\ stage = "start" => \A i \in Checks : thread[i] = "none"

IInv ==
    /\ TypeOK
    /\ CheckInv
    /\ StageInv
    /\ ResultOwned
    /\ RetryWhileMissing

=============================================================================
