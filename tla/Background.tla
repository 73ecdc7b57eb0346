----------------------------- MODULE Background -----------------------------
(***************************************************************************)
(* Background scans and updates: CWApplication's message handlers and      *)
(* shutdown (cw_application.cpp) with CWBgTask (cw_bg_task.cpp).           *)
(*                                                                         *)
(* The user-interface thread takes messages from one queue; a task's       *)
(* reader thread posts its own address to that queue when the child has    *)
(* been reported.  Addresses are reused: an address posted too late, or    *)
(* twice, would reach another task.  The child and the reader thread of a  *)
(* task are a job of module Job, which Process implements.                 *)
(*                                                                         *)
(* BgInit, BgNext, ... bear the prefix of CWBgTask because SchedulerProofs *)
(* speaks of this module and of Scheduler.                                 *)
(***************************************************************************)
EXTENDS Naturals, Sequences

CONSTANTS Tasks,       \* addresses a CWBgTask can have
          NoTask,      \* NULL
          QueueBound   \* bound: queued messages when the scheduler adds one

ASSUME BackgroundAssumption == NoTask \notin Tasks /\ QueueBound \in Nat

Kinds == {"scan", "update"}

VARIABLES
    slot,      \* m_bgScan and m_bgUpdate
    live,      \* allocated tasks
    kind,      \* m_isUpdate
    status,    \* m_process, as a job
    result,    \* m_exitCode has been set by onFinished
    queue,     \* messages posted to the hidden window
    window,    \* the hidden window exists
    freeing    \* the slot whose task the thread deletes, "no" or "ended"

bgVars == <<slot, live, kind, status, result, queue, window, freeing>>

Jobs == INSTANCE Job WITH Procs <- Tasks

ScheduledRun(k) == <<"scheduled", k>>
BgFinished(t) == <<"finished", t>>
Exit == <<"exit", NoTask>>
Messages == {ScheduledRun(k) : k \in Kinds} \cup {BgFinished(t) : t \in Tasks}
              \cup {Exit}

BgTypeOK ==
    /\ slot \in [Kinds -> Tasks \cup {NoTask}]
    /\ live \subseteq Tasks
    /\ kind \in [Tasks -> Kinds]
    /\ Jobs!TypeOK
    /\ result \in [Tasks -> BOOLEAN]
    /\ queue \in Seq(Messages)
    /\ window \in BOOLEAN
    /\ freeing \in Kinds \cup {"no", "ended"}

BgInit ==
    /\ slot = [k \in Kinds |-> NoTask]
    /\ live = {}
    /\ kind \in [Tasks -> Kinds]
    /\ Jobs!Init
    /\ result = [t \in Tasks |-> FALSE]
    /\ queue = <<>>
    /\ window = TRUE
    /\ freeing = "no"

-----------------------------------------------------------------------------
(* The scheduler's check(), on the timer of the same thread, or the user's *)
(* Exit.                                                                   *)
Post ==
    /\ freeing = "no"
    /\ window
    /\ Len(queue) < QueueBound
    /\ \E m \in {ScheduledRun(k) : k \in Kinds} \cup {Exit} :
         queue' = Append(queue, m)
    /\ UNCHANGED <<slot, live, kind, status, result, window, freeing>>

(* The thread takes the oldest message; not while it deletes a task.       *)
Take(m) ==
    /\ freeing = "no"
    /\ queue # <<>>
    /\ Head(queue) = m
    /\ queue' = Tail(queue)

Busy(k) == slot[k] # NoTask

(* doScheduledScan, doScheduledUpdate.                                     *)
Skip(k) ==
    /\ Take(ScheduledRun(k))
    /\ Busy(k)
    /\ UNCHANGED <<slot, live, kind, status, result, window, freeing>>

Start(k) ==
    /\ Take(ScheduledRun(k))
    /\ ~Busy(k)
    /\ \E t \in Tasks \ live :
         /\ slot' = [slot EXCEPT ![k] = t]
         /\ live' = live \cup {t}
         /\ kind' = [kind EXCEPT ![t] = k]
         /\ result' = [result EXCEPT ![t] = FALSE]
         /\ Jobs!Begin(t)
    /\ UNCHANGED <<window, freeing>>

(* Fault: the slot is not cleared when start() fails.                     *)
SlotNotCleared(k) ==
    /\ Take(ScheduledRun(k))
    /\ ~Busy(k)
    /\ \E t \in Tasks \ live : slot' = [slot EXCEPT ![k] = t]
    /\ UNCHANGED <<live, kind, status, result, window, freeing>>

(* No freshclam, or start() failed: the new task is deleted at once.       *)
StartFailed(k) ==
    /\ Take(ScheduledRun(k))
    /\ ~Busy(k)
    /\ UNCHANGED <<slot, live, kind, status, result, window, freeing>>

(* Fault: the slot is not freed.                                          *)
FreesNone(t) ==
    /\ Take(BgFinished(t))
    /\ UNCHANGED <<slot, live, kind, status, result, window, freeing>>

(* onBgTaskFinished: the slot to free follows from the task's kind.        *)
Finished(t) ==
    /\ Take(BgFinished(t))
    /\ freeing' = kind[t]
    /\ UNCHANGED <<slot, live, kind, status, result, window>>

(* Fault: the window is destroyed but nobody posts the quit message.      *)
ExitNotPosted ==
    /\ freeing = "no"
    /\ queue # <<>>
    /\ Head(queue) = Exit
    /\ queue' = <<>>
    /\ window' = FALSE
    /\ UNCHANGED <<slot, live, kind, status, result, freeing>>

(* IDM_TRAY_EXIT: DestroyWindow drops what is queued, the message loop     *)
(* ends and the destructor deletes m_bgScan, then m_bgUpdate.              *)
RequestExit ==
    /\ freeing = "no"
    /\ queue # <<>>
    /\ Head(queue) = Exit
    /\ queue' = <<>>
    /\ window' = FALSE
    /\ freeing' = "scan"
    /\ UNCHANGED <<slot, live, kind, status, result>>

AfterFree(k) == IF window THEN "no"
                ELSE IF k = "scan" THEN "update" ELSE "ended"

(* delete m_bgScan, delete m_bgUpdate: ~CWBgTask stops the process, which  *)
(* terminates the child and waits for its reader thread.                   *)
Free(k) ==
    /\ freeing = k
    /\ \/ /\ Busy(k)
          /\ Jobs!Release(slot[k])
          /\ live' = live \ {slot[k]}
          /\ slot' = [slot EXCEPT ![k] = NoTask]
       \/ /\ ~Busy(k)
          /\ UNCHANGED <<status, live, slot>>
    /\ freeing' = AfterFree(k)
    /\ UNCHANGED <<kind, result, queue, window>>

UserInterface ==
    \/ RequestExit
    \/ \E t \in Tasks : Finished(t)
    \/ \E k \in Kinds : Skip(k) \/ Start(k) \/ StartFailed(k) \/ Free(k)

-----------------------------------------------------------------------------
(* CWBgTask::onFinished on the reader thread: the exit code is recorded,   *)
(* then the address is posted; that fails once the window is gone.         *)
Record(t) ==
    /\ status[t] = "running"
    /\ ~result[t]
    /\ result' = [result EXCEPT ![t] = TRUE]
    /\ UNCHANGED <<slot, live, kind, status, queue, window, freeing>>

(* Fault: the address is posted before the exit code is recorded.         *)
PostsEarly(t) ==
    /\ Jobs!Report(t)
    /\ queue' = IF window THEN Append(queue, BgFinished(t)) ELSE queue
    /\ UNCHANGED <<slot, live, kind, result, window, freeing>>

OnFinished(t) ==
    /\ result[t]
    /\ Jobs!Report(t)
    /\ queue' = IF window THEN Append(queue, BgFinished(t)) ELSE queue
    /\ UNCHANGED <<slot, live, kind, result, window, freeing>>

Reader(t) == Record(t) \/ OnFinished(t)

BgNext ==
    \/ Post
    \/ UserInterface
    \/ \E t \in Tasks : Reader(t)

BgSpec == BgInit /\ [][BgNext]_bgVars

(* The thread runs.  A child may run for ever, but one whose task is being *)
(* deleted is terminated (StopReturns and EndReported of Process), and a   *)
(* callback that has begun ends.  Nobody has to post.                      *)
Deleted(t) == freeing \in Kinds /\ slot[freeing] = t

BgFairSpec ==
    /\ BgSpec
    /\ WF_bgVars(UserInterface)
    /\ \A t \in Tasks : /\ WF_bgVars(OnFinished(t))
                        /\ WF_bgVars(Deleted(t) /\ Reader(t))

-----------------------------------------------------------------------------
Queued(m) == \E i \in DOMAIN queue : queue[i] = m

(* An address that is queued is that of an allocated task, still in the    *)
(* slot of its kind, whose child has been reported and whose exit code can *)
(* be read; it is queued once.  So onBgTaskFinished deletes the task that  *)
(* posted the message, although it looks only at the kind.                 *)
QueuedIsCurrent ==
    \A i \in DOMAIN queue, t \in Tasks : queue[i] = BgFinished(t) =>
        /\ t \in live
        /\ slot[kind[t]] = t
        /\ status[t] = "reported"
        /\ result[t]
        /\ \A j \in DOMAIN queue : queue[j] = BgFinished(t) => j = i

(* Every allocated task is in the slot of its kind, so that there is at    *)
(* most one of each kind; no other task has a child or a reader thread.    *)
NoLeak ==
    /\ \A t \in live : slot[kind[t]] = t
    /\ \A t \in Tasks : status[t] # "idle" => t \in live

(* "Skip if a background scan is already running" (cw_application.cpp:1018)*)
(* a task that has been reported keeps its slot only until its message is  *)
(* handled, so it never makes all later runs be skipped.                   *)
SkipOnlyWhileRunning ==
    \A k \in Kinds : window /\ slot[k] # NoTask =>
        \/ status[slot[k]] = "running"
        \/ Queued(BgFinished(slot[k]))
        \/ freeing = k

(* Deleting a task in onBgTaskFinished finds the child reported: the       *)
(* handler never terminates a child that is still at work.                 *)
DeletesOnlyReported ==
    window /\ freeing \in Kinds =>
        slot[freeing] # NoTask /\ status[slot[freeing]] = "reported"

(* When the application has ended no task, child or reader thread is left. *)
NothingLeftBehind ==
    freeing = "ended" => live = {} /\ \A t \in Tasks : status[t] = "idle"

(* A task whose child has been reported makes room for the next one.       *)
SlotFreed ==
    \A k \in Kinds :
        (slot[k] # NoTask /\ status[slot[k]] = "reported") ~> slot[k] = NoTask

(* Exit ends the application although its tasks' children would run on.    *)
ExitEnds == ~window ~> freeing = "ended"

-----------------------------------------------------------------------------
(* The inductive strengthening.                                            *)
SlotInv ==
    \A k \in Kinds : slot[k] # NoTask =>
        slot[k] \in live /\ kind[slot[k]] = k /\ status[slot[k]] # "idle"

ReportedInv == \A t \in Tasks : status[t] = "reported" => result[t]

(* The destructor has already deleted the scan.                            *)
EndInv ==
    /\ freeing = "update" /\ ~window => slot["scan"] = NoTask
    /\ freeing = "ended" => \A k \in Kinds : slot[k] = NoTask
    /\ freeing = "no" => window
    /\ freeing = "ended" => ~window
    /\ ~window => queue = <<>>

FreeingInv ==
    freeing \in Kinds /\ window =>
        /\ slot[freeing] # NoTask
        /\ status[slot[freeing]] = "reported"
        /\ ~Queued(BgFinished(slot[freeing]))

TaskInv ==
    /\ BgTypeOK
    /\ QueuedIsCurrent
    /\ NoLeak
    /\ SlotInv
    /\ ReportedInv
    /\ EndInv
    /\ FreeingInv
    /\ SkipOnlyWhileRunning

=============================================================================
