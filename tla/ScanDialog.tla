----------------------------- MODULE ScanDialog -----------------------------
(***************************************************************************)
(* CWScanDialog (cw_scan_dialog.cpp): one scan or update in a modal        *)
(* dialog.                                                                 *)
(*                                                                         *)
(* Four actors meet in one object, which lives on the stack of the call    *)
(* that runs the dialog: the user-interface thread, the worker thread that *)
(* counts the files and then calls CWProcess::start(), the process's       *)
(* reader thread, and the child.  start() and stop() are called by two     *)
(* threads without a lock, so their steps on m_ctx and m_hThread are       *)
(* separate here; Process describes the same object with one caller.       *)
(***************************************************************************)
EXTENDS AutoClose, Sequences

CONSTANTS Modes,      \* "scan", "memory", "update"
          Policies,   \* auto-close policies the dialog is opened with
          ExitCodes,  \* exit codes of clamscan and freshclam
          MaxLines    \* bound: unread lines the child leaves in its pipe

ASSUME ScanDialogAssumption ==
    /\ Modes \subseteq {"scan", "memory", "update"}
    /\ ExitCodes \subseteq Nat
    /\ MaxLines \in Nat

Cancelled == -1     \* also: no process
NoResult == -2      \* endDialog has not been called

VARIABLES
    mode, policy,
    ui,         \* the user-interface thread
    then,       \* where ui goes when stop() has joined the reader thread
    window,     \* the dialog window exists
    queue,      \* messages posted to it
    finished,   \* m_finished
    cancelled,  \* m_cancelled
    exitCode,   \* m_exitCode
    result,     \* what endDialog was given
    seen,       \* kinds of lines that onScanOutput has handled
    worker,     \* the worker thread
    hworker,    \* m_hWorker
    ctx,        \* m_process.m_ctx # NULL
    hthread,    \* m_process.m_hThread # NULL
    reader,     \* the reader thread
    child,      \* the child process
    code,       \* its exit code
    pipe,       \* lines written and not yet read
    wrote,      \* history: kinds of lines written
    log,        \* marks this dialog left in the log file
    hasty,      \* history: the user acted, or a wait for the worker
                \* thread ended, before that thread had ended
    crashed     \* a thread used memory that had been freed, and the
                \* application is gone

object == <<finished, cancelled, exitCode, seen>>
process == <<ctx, hthread, reader, child, code, pipe, wrote>>
flags == <<hasty, crashed>>
vars == <<mode, policy, ui, then, window, queue, finished, cancelled,
          exitCode, result, seen, worker, hworker, ctx, hthread, reader,
          child, code, pipe, wrote, log, hasty, crashed>>

(* Lines that make a difference: an infected file; a database that is up   *)
(* to date or was updated, a server that refused the update or failed.     *)
Lines == {"found", "uptodate", "updated", "refused"}
Output(l) == <<"output", l>>
FinishedMsg(c) == <<"finished", c>>
AutoCloseMsg == <<"close", 0>>
Results == ExitCodes \cup {1, NoChanges, Cancelled}
Messages == {Output(l) : l \in Lines} \cup {FinishedMsg(c) : c \in Results}
              \cup {AutoCloseMsg}

TypeOK ==
    /\ mode \in Modes
    /\ policy \in Policies
    /\ ui \in {"open", "join", "ended", "deleting", "waiting", "member", "gone"}
    /\ then \in {"open", "ended", "waiting", "gone"}
    /\ window \in BOOLEAN
    /\ queue \in Seq(Messages)
    /\ finished \in BOOLEAN
    /\ cancelled \in BOOLEAN
    /\ exitCode \in Results
    /\ result \in Results \cup {NoResult}
    /\ seen \subseteq Lines
    /\ worker \in {"none", "count", "start", "context", "thread", "handle",
                   "done"}
    /\ hworker \in BOOLEAN
    /\ ctx \in BOOLEAN
    /\ hthread \in BOOLEAN
    /\ reader \in {"none", "running", "closing", "ended"}
    /\ child \in {"none", "running", "exited", "killed"}
    /\ code \in ExitCodes \cup {1}
    /\ pipe \in Seq(Lines)
    /\ wrote \subseteq Lines
    /\ log \in Seq({"started", "failed", "completed"})
    /\ hasty \in BOOLEAN
    /\ crashed \in BOOLEAN

(* onInit: the window is there and the worker thread is created, or not.   *)
Init ==
    /\ mode \in Modes
    /\ policy \in Policies
    /\ ui = "open"
    /\ then = "open"
    /\ window = TRUE
    /\ queue = <<>>
    /\ finished = FALSE
    /\ cancelled = FALSE
    /\ exitCode = Cancelled
    /\ result = NoResult
    /\ seen = {}
    /\ worker \in {"none", IF mode = "scan" THEN "count" ELSE "start"}
    /\ hworker = (worker # "none")
    /\ ctx = FALSE
    /\ hthread = FALSE
    /\ reader = "none"
    /\ child = "none"
    /\ code = 1
    /\ pipe = <<>>
    /\ wrote = {}
    /\ log = <<>>
    /\ hasty = FALSE
    /\ crashed = FALSE

-----------------------------------------------------------------------------
(* PostMessage: a message for a window that is gone is dropped.            *)
Posted(q, m) == IF window THEN Append(q, m) ELSE q

(* TerminateProcess(hProcess, 1).                                          *)
Terminate ==
    /\ child' = IF child = "running" THEN "killed" ELSE child
    /\ code' = IF child = "running" THEN 1 ELSE code

(* Fault: stop() does not wait for the reader thread.                      *)
StopWithoutJoin(next) ==
    /\ ui' = next
    /\ ctx' = FALSE
    /\ \/ ctx /\ Terminate
       \/ ~ctx /\ UNCHANGED <<child, code>>
    /\ UNCHANGED <<then, hthread, reader, pipe, wrote>>

(* The thread calls m_process.stop() and goes on at next: it does nothing  *)
(* without a context; otherwise it terminates the child and waits for the  *)
(* reader thread, if its handle is there already.                          *)
Stop(next) ==
    /\ \/ /\ ~ctx
          /\ ui' = next
          /\ UNCHANGED <<then, ctx, child, code>>
       \/ /\ ctx /\ hthread
          /\ ui' = "join"
          /\ then' = next
          /\ Terminate
          /\ UNCHANGED ctx
       \/ /\ ctx /\ ~hthread
          /\ ui' = next
          /\ Terminate
          /\ ctx' = FALSE
          /\ UNCHANGED then
    /\ UNCHANGED <<hthread, reader, pipe, wrote>>

(* The end of stop(): the reader thread has ended.                         *)
Join ==
    /\ ui = "join"
    /\ reader = "ended"
    /\ ui' = then
    /\ hthread' = FALSE
    /\ ctx' = FALSE
    /\ UNCHANGED <<mode, policy, then, window, queue, object, result, worker,
                   hworker, reader, child, code, pipe, wrote, log, flags>>

(* Fault: m_cancelled is not set.                                          *)
NotCancelled == UNCHANGED cancelled

SetCancelled == cancelled' = TRUE

(* A handler that stops the scan if it is not finished, then goes on at    *)
(* next or, finished, ends the dialog with outcome.                        *)
StopOrEnd(next, outcome) ==
    \/ /\ ~finished
       /\ SetCancelled
       /\ Stop(next)
       /\ result' = IF next = "ended" THEN Cancelled ELSE result
    \/ /\ finished
       /\ ui' = "ended"
       /\ result' = outcome
       /\ UNCHANGED <<then, cancelled, process>>

Outcome == IF cancelled THEN Cancelled ELSE exitCode

(* The user clicks Stop (which reads Close when finished), presses Escape, *)
(* or closes the window.                                                   *)
Clicks == StopOrEnd("open", Outcome)
Escapes == StopOrEnd("ended", Cancelled)
Closes == StopOrEnd("ended", Outcome)

User ==
    /\ ui = "open"
    /\ hasty' = (hasty \/ worker \notin {"none", "done"})
    /\ Clicks \/ Escapes \/ Closes
    /\ UNCHANGED <<mode, policy, window, queue, finished, exitCode, seen,
                   worker, hworker, log, crashed>>

(* onScanOutput.                                                           *)
OnOutput ==
    /\ ui = "open"
    /\ queue # <<>>
    /\ \E l \in Lines :
         /\ Head(queue) = Output(l)
         /\ seen' = seen \cup {l}
    /\ queue' = Tail(queue)
    /\ UNCHANGED <<mode, policy, ui, then, window, finished, cancelled,
                   exitCode, result, worker, hworker, process, log, flags>>

(* The exit code that onScanFinished keeps.                                *)
FinalCode(c) ==
    IF /\ mode = "update" /\ ~cancelled /\ c = 0
       /\ seen = {"uptodate"}
    THEN NoChanges
    ELSE c

(* A wait of two seconds at most for the worker thread, which may need     *)
(* longer than that.                                                       *)
WaitForWorker == hasty' = (hasty \/ (hworker /\ worker # "done"))

(* onScanFinished: it waits for the worker thread, writes the footer, and  *)
(* may post itself the close button's command.                             *)
OnFinished ==
    /\ ui = "open"
    /\ queue # <<>>
    /\ \E c \in Results :
         /\ Head(queue) = FinishedMsg(c)
         /\ exitCode' = FinalCode(c)
    /\ WaitForWorker
    /\ finished' = TRUE
    /\ hworker' = FALSE
    /\ log' = Append(log, "completed")
    /\ queue' = IF ShouldAutoClose(policy, exitCode', cancelled)
                THEN Append(Tail(queue), AutoCloseMsg) ELSE Tail(queue)
    /\ UNCHANGED <<mode, policy, ui, then, window, cancelled, result, seen,
                   worker, process, crashed>>

OnAutoClose ==
    /\ ui = "open"
    /\ queue # <<>>
    /\ Head(queue) = AutoCloseMsg
    /\ queue' = Tail(queue)
    /\ Clicks
    /\ UNCHANGED <<mode, policy, window, finished, exitCode, seen, worker,
                   hworker, log, flags>>

(* The modal loop ends and the window is destroyed with what is queued.    *)
Destroy ==
    /\ ui = "ended"
    /\ ui' = "deleting"
    /\ window' = FALSE
    /\ queue' = <<>>
    /\ UNCHANGED <<mode, policy, then, object, result, worker, hworker,
                   process, log, flags>>

(* ~CWScanDialog: stop(), then the worker thread is waited for; whether it *)
(* has ended or not, ~CWProcess stops what it may have started meanwhile,  *)
(* and the object is gone.                                                 *)
Delete ==
    /\ \/ ui = "deleting" /\ Stop("waiting") /\ UNCHANGED hasty
       \/ /\ ui = "waiting"
          /\ WaitForWorker
          /\ ui' = "member"
          /\ UNCHANGED <<then, process>>
       \/ ui = "member" /\ Stop("gone") /\ UNCHANGED hasty
    /\ UNCHANGED <<mode, policy, window, queue, object, result, worker,
                   hworker, log, crashed>>

UserInterface ==
    Join \/ OnOutput \/ OnFinished \/ OnAutoClose \/ Destroy \/ Delete

-----------------------------------------------------------------------------
(* The worker thread: enumScanTargets takes as long as it takes.           *)
CountFiles ==
    /\ worker = "count"
    /\ worker' = "start"
    /\ UNCHANGED <<mode, policy, ui, then, window, queue, object, result,
                   hworker, process, log, flags>>

(* No freshclam.exe: an error line and the end, without a log entry.       *)
ToolMissing ==
    /\ worker = "start"
    /\ mode = "update"
    /\ worker' = "done"
    /\ queue' = Posted(queue, FinishedMsg(Cancelled))
    /\ UNCHANGED <<mode, policy, ui, then, window, object, result, hworker,
                   process, log, flags>>

(* start() up to CreateProcess.                                            *)
Spawn ==
    /\ worker = "start"
    /\ worker' = "context"
    /\ log' = Append(log, "started")
    /\ child' = "running"
    /\ UNCHANGED <<mode, policy, ui, then, window, queue, object, result,
                   hworker, ctx, hthread, reader, code, pipe, wrote, flags>>

SpawnFailed ==
    /\ worker = "start"
    /\ worker' = "done"
    /\ log' = log \o <<"started", "failed">>
    /\ queue' = Posted(queue, FinishedMsg(Cancelled))
    /\ UNCHANGED <<mode, policy, ui, then, window, object, result, hworker,
                   process, flags>>

(* m_ctx = new Ctx.                                                        *)
Publish ==
    /\ worker = "context"
    /\ worker' = "thread"
    /\ ctx' = TRUE
    /\ UNCHANGED <<mode, policy, ui, then, window, queue, object, result,
                   hworker, hthread, reader, child, code, pipe, wrote, log,
                   flags>>

CreateReader ==
    /\ worker = "thread"
    /\ worker' = "handle"
    /\ reader' = "running"
    /\ UNCHANGED <<mode, policy, ui, then, window, queue, object, result,
                   hworker, ctx, hthread, child, code, pipe, wrote, log,
                   flags>>

(* Fault: the failure is not reported to the dialog.                       *)
ReaderNotReported ==
    /\ worker = "thread"
    /\ worker' = "done"
    /\ Terminate
    /\ ctx' = FALSE
    /\ UNCHANGED <<mode, policy, ui, then, window, queue, object, result,
                   hworker, hthread, reader, pipe, wrote, log, flags>>

CreateReaderFailed ==
    /\ worker = "thread"
    /\ worker' = "done"
    /\ Terminate
    /\ ctx' = FALSE
    /\ log' = Append(log, "failed")
    /\ queue' = Posted(queue, FinishedMsg(Cancelled))
    /\ UNCHANGED <<mode, policy, ui, then, window, object, result, hworker,
                   hthread, reader, pipe, wrote, flags>>

(* The handle that CreateThread returned is stored in m_hThread.           *)
KeepHandle ==
    /\ worker = "handle"
    /\ worker' = "done"
    /\ hthread' = TRUE
    /\ UNCHANGED <<mode, policy, ui, then, window, queue, object, result,
                   hworker, ctx, reader, child, code, pipe, wrote, log,
                   flags>>

Worker == CountFiles \/ ToolMissing \/ Spawn \/ SpawnFailed \/ Publish
            \/ CreateReader \/ CreateReaderFailed \/ KeepHandle

-----------------------------------------------------------------------------
(* Fault: the message is sent, not posted: the reader waits for the dialog.*)
SentOutput ==
    /\ reader = "running"
    /\ pipe # <<>>
    /\ ui = "open"
    /\ queue' = Posted(queue, Output(Head(pipe)))
    /\ pipe' = Tail(pipe)
    /\ UNCHANGED <<mode, policy, ui, then, window, object, result, worker,
                   hworker, ctx, hthread, reader, child, code, wrote, log,
                   flags>>

(* The reader thread: outputCb and errorCb, for each line.                 *)
ReaderOutput ==
    /\ reader = "running"
    /\ pipe # <<>>
    /\ queue' = Posted(queue, Output(Head(pipe)))
    /\ pipe' = Tail(pipe)
    /\ UNCHANGED <<mode, policy, ui, then, window, object, result, worker,
                   hworker, ctx, hthread, reader, child, code, wrote, log,
                   flags>>

(* finishedCb, after the last line.                                        *)
ReaderFinished ==
    /\ reader = "running"
    /\ child \in {"exited", "killed"}
    /\ pipe = <<>>
    /\ reader' = "closing"
    /\ queue' = Posted(queue, FinishedMsg(code))
    /\ UNCHANGED <<mode, policy, ui, then, window, object, result, worker,
                   hworker, ctx, hthread, child, code, pipe, wrote, log,
                   flags>>

ReaderEnds ==
    /\ reader = "closing"
    /\ reader' = "ended"
    /\ UNCHANGED <<mode, policy, ui, then, window, queue, object, result,
                   worker, hworker, ctx, hthread, child, code, pipe, wrote,
                   log, flags>>

Reader == ReaderOutput \/ ReaderFinished \/ ReaderEnds

(* clamscan or freshclam.                                                  *)
ChildWrites ==
    /\ child = "running"
    /\ Len(pipe) < MaxLines
    /\ \E l \in Lines \ wrote :
         /\ (l = "found") = (mode # "update")
         /\ pipe' = Append(pipe, l)
         /\ wrote' = wrote \cup {l}
    /\ UNCHANGED <<mode, policy, ui, then, window, queue, object, result,
                   worker, hworker, ctx, hthread, reader, child, code, log,
                   flags>>

ChildExits ==
    /\ child = "running"
    /\ child' = "exited"
    /\ code' \in ExitCodes
    /\ UNCHANGED <<mode, policy, ui, then, window, queue, object, result,
                   worker, hworker, ctx, hthread, reader, pipe, wrote, log,
                   flags>>

(* A thread that uses the context or the dialog after it was freed may     *)
(* bring the application down; or it may go on as if nothing had happened. *)
UsesFreedMemory ==
    \/ reader \in {"running", "closing"} /\ ~ctx
    \/ worker = "thread" /\ ~ctx
    \/ ui = "gone" /\ worker \notin {"none", "done"}

Crash ==
    /\ UsesFreedMemory
    /\ crashed' = TRUE
    /\ UNCHANGED <<mode, policy, ui, then, window, queue, object, result,
                   worker, hworker, process, log, hasty>>

Next ==
    /\ ~crashed
    /\ User \/ UserInterface \/ Worker \/ Reader \/ ChildWrites \/ ChildExits
         \/ Crash

Spec == Init /\ [][Next]_vars

(* Threads run; the user need not do anything and a child may run for      *)
(* ever.                                                                   *)
FairSpec ==
    /\ Spec
    /\ WF_vars(~crashed /\ UserInterface)
    /\ WF_vars(~crashed /\ Worker)
    /\ WF_vars(~crashed /\ Reader)

-----------------------------------------------------------------------------
(* When the dialog shows a child's exit code it has handled every line the *)
(* child wrote, so that its counts and messages are complete.              *)
OutputHandled == finished /\ exitCode # Cancelled => wrote \subseteq seen

(* What the dialog returns is true of the child: an exit code is that of a *)
(* child that ended by itself, never the 1 that TerminateProcess gives,    *)
(* which would read as "infected"; an update that ended well is reported   *)
(* to have changed nothing only if so it did, and was not refused.         *)
ResultIsTrue ==
    result \in Nat =>
        /\ child = "exited"
        /\ \/ result = code
           \/ /\ result = NoChanges
              /\ code = 0
              /\ mode = "update" /\ wrote = {"uptodate"}

(* The end is handled once: the worker's and the reader's reports exclude  *)
(* each other, and the log gets one footer of a kind.                      *)
OneFooter == \A i, j \in DOMAIN log : log[i] = log[j] => i = j

(* What the dialog keeps, shows, logs and returns is true of its child     *)
(* whenever the user acts.                                                 *)
DialogInv == TypeOK /\ OutputHandled /\ ResultIsTrue /\ OneFooter

(* The end of the child reaches the dialog.                                *)
EndShown ==
    (child \in {"exited", "killed"}) ~> (finished \/ ui = "gone" \/ crashed)

(* Stop comes back and Close ends the dialog, whatever the child and the   *)
(* reader thread are doing: the thread that waits in stop() is never the   *)
(* one the reader thread waits for.                                        *)
CloseEnds == (ui # "open") ~> (ui \in {"open", "gone"} \/ crashed)

(* A dialog opened with --close goes away without the user.                *)
AutoCloses ==
    (finished /\ ShouldAutoClose(policy, exitCode, cancelled)) ~>
        (ui = "gone" \/ crashed)

(* Whichever way the child ends, its end is shown, and --close is obeyed.  *)
EndHandled == EndShown /\ AutoCloses

(* With a user who waits for the worker thread, and a worker thread that   *)
(* ends while it is waited for, the dialog leaves no child behind and      *)
(* frees nothing that a thread still uses, whatever else happens in which  *)
(* order.                                                                  *)
PatientIsStopped == ~hasty /\ ui = "gone" => child # "running"
PatientKeepsContext ==
    ~hasty =>
        /\ reader \in {"running", "closing"} => ctx
        /\ ui = "gone" => worker \in {"none", "done"}
PatientIsSafe == PatientIsStopped /\ PatientKeepsContext

(* "Ensure process is stopped before fonts are freed" (cw_scan_dialog.cpp  *)
(* :1000): no child outlives the dialog.                                   *)
StoppedBeforeFreed == ui = "gone" => child # "running"

=============================================================================
