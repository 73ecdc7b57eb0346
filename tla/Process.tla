------------------------------ MODULE Process -------------------------------
(***************************************************************************)
(* CWProcess (cw_process.cpp): a child process, its two output pipes and   *)
(* the reader thread that feeds the owner's callbacks.                     *)
(*                                                                         *)
(* Several objects are modelled because they share what the operating      *)
(* system keeps per application: the table of handle values, which are     *)
(* handed out again as soon as they are closed, and the set of inheritable *)
(* handles, all of which every new child receives.  The background tasks   *)
(* are started by the user-interface thread and the progress dialogs by    *)
(* their worker threads, so calls on different objects interleave.  Each   *)
(* object is called by one thread.                                         *)
(***************************************************************************)
EXTENDS Naturals

CONSTANTS Procs,      \* the CWProcess objects
          Handles,    \* values a process handle can take
          NoProc,     \* the handle value is not open
          NoHandle,   \* no handle value is remembered
          Cap,        \* fragments a pipe holds before its writer blocks
          MaxWrites   \* bound: fragments a child writes to each stream

ASSUME ProcessAssumption ==
    /\ NoProc \notin Procs
    /\ NoHandle \notin Handles
    /\ Cap \in Nat \ {0}
    /\ MaxWrites \in Nat

Streams == {"out", "err"}

VARIABLES
    call,       \* where the owner's call of start() or stop() is
    after,      \* what follows the stop() in progress: "start" or "return"
    ctx,        \* m_ctx # NULL
    stopping,   \* m_ctx->stopping
    hproc,      \* m_ctx->hProcess (pi.hProcess until the context exists)
    reader,     \* where the reader thread is
    held,       \* pendingStdout, pendingStderr: an unterminated line is kept
    table,      \* handle table: whose child an open handle value refers to
    child,      \* the child process
    killed,     \* the child ended by TerminateProcess (exit code 1)
    left,       \* fragments the child may still write
    pipe,       \* fragments written and not yet read
    wopen,      \* the application still has the write ends open
    holders,    \* children that received the write ends
    told        \* onFinished has been called for the current child

owner == <<call, after, ctx, stopping, hproc>>
kernel == <<table, child, killed, left, wopen, holders>>
thread == <<reader, held, told>>
vars == <<call, after, ctx, stopping, hproc, reader, held, table, child,
          killed, left, pipe, wopen, holders, told>>

CallPoints == {"idle", "flag", "kill", "join",
               "pipes", "spawn", "close", "thread"}
ReaderPoints == {"none", "top", "out", "err", "wait", "drainOut", "drainErr",
                 "flush", "report", "close"}
None == [s \in Streams |-> 0]
Nothing == [s \in Streams |-> FALSE]

TypeOK ==
    /\ call \in [Procs -> CallPoints]
    /\ after \in [Procs -> {"start", "return"}]
    /\ ctx \in [Procs -> BOOLEAN]
    /\ stopping \in [Procs -> BOOLEAN]
    /\ hproc \in [Procs -> Handles \cup {NoHandle}]
    /\ reader \in [Procs -> ReaderPoints]
    /\ held \in [Procs -> [Streams -> BOOLEAN]]
    /\ table \in [Handles -> Procs \cup {NoProc}]
    /\ child \in [Procs -> {"none", "running", "exited"}]
    /\ killed \in [Procs -> BOOLEAN]
    /\ left \in [Procs -> [Streams -> 0 .. MaxWrites]]
    /\ pipe \in [Procs -> [Streams -> 0 .. Cap]]
    /\ wopen \in [Procs -> BOOLEAN]
    /\ holders \in [Procs -> SUBSET Procs]
    /\ told \in [Procs -> BOOLEAN]

Init ==
    /\ call = [p \in Procs |-> "idle"]
    /\ after = [p \in Procs |-> "return"]
    /\ ctx = [p \in Procs |-> FALSE]
    /\ stopping = [p \in Procs |-> FALSE]
    /\ hproc = [p \in Procs |-> NoHandle]
    /\ reader = [p \in Procs |-> "none"]
    /\ held = [p \in Procs |-> Nothing]
    /\ table = [h \in Handles |-> NoProc]
    /\ child = [p \in Procs |-> "none"]
    /\ killed = [p \in Procs |-> FALSE]
    /\ left = [p \in Procs |-> None]
    /\ pipe = [p \in Procs |-> None]
    /\ wopen = [p \in Procs |-> FALSE]
    /\ holders = [p \in Procs |-> {}]
    /\ told = [p \in Procs |-> FALSE]

-----------------------------------------------------------------------------
(* The end of a child closes every write end it received.                  *)
DropWriteEnds(q) == [p \in Procs |-> holders[p] \ {q}]

(* Fault: stop() waits for the child instead of ending it.                 *)
NoTermination(h) == UNCHANGED <<child, killed, holders>>

(* TerminateProcess(h, 1): acts on whatever process h refers to now; fails *)
(* without effect when h is not open or that process has already ended.    *)
TerminateProcess(h) ==
    IF /\ h \in Handles
       /\ table[h] # NoProc
       /\ child[table[h]] = "running"
    THEN /\ child' = [child EXCEPT ![table[h]] = "exited"]
         /\ killed' = [killed EXCEPT ![table[h]] = TRUE]
         /\ holders' = DropWriteEnds(table[h])
    ELSE UNCHANGED <<child, killed, holders>>

(* start() begins with stop(); stop() returns at once when there is no     *)
(* context.                                                                *)
StartCall(p) ==
    /\ call[p] = "idle"
    /\ after' = [after EXCEPT ![p] = "start"]
    /\ call' = [call EXCEPT ![p] = IF ctx[p] THEN "flag" ELSE "pipes"]
    /\ UNCHANGED <<ctx, stopping, hproc, pipe, kernel, thread>>

StopCall(p) ==
    /\ call[p] = "idle"
    /\ ctx[p]
    /\ after' = [after EXCEPT ![p] = "return"]
    /\ call' = [call EXCEPT ![p] = "flag"]
    /\ UNCHANGED <<ctx, stopping, hproc, pipe, kernel, thread>>

StopFlag(p) ==
    /\ call[p] = "flag"
    /\ stopping' = [stopping EXCEPT ![p] = TRUE]
    /\ call' = [call EXCEPT ![p] = "kill"]
    /\ UNCHANGED <<after, ctx, hproc, pipe, kernel, thread>>

StopKill(p) ==
    /\ call[p] = "kill"
    /\ TerminateProcess(hproc[p])
    /\ call' = [call EXCEPT ![p] = "join"]
    /\ UNCHANGED <<after, ctx, stopping, hproc, table, left, pipe, wopen,
                   thread>>

(* Fault: the wait for the reader thread times out and stop() goes on.     *)
JoinTimedOut(p) == TRUE

(* WaitForSingleObject(m_hThread, INFINITE), then the context is freed.    *)
ReaderEnded(p) == reader[p] = "none"

StopJoin(p) ==
    /\ call[p] = "join"
    /\ ReaderEnded(p)
    /\ ctx' = [ctx EXCEPT ![p] = FALSE]
    /\ stopping' = [stopping EXCEPT ![p] = FALSE]
    /\ hproc' = [hproc EXCEPT ![p] = NoHandle]
    /\ call' = [call EXCEPT ![p] =
                  IF after[p] = "start" THEN "pipes" ELSE "idle"]
    /\ UNCHANGED <<after, pipe, kernel, thread>>

(* The two pipes; their write ends are inheritable.  Any failure returns   *)
(* false with everything closed.                                           *)
CreatePipes(p) ==
    /\ call[p] = "pipes"
    /\ \/ /\ wopen' = [wopen EXCEPT ![p] = TRUE]
          /\ pipe' = [pipe EXCEPT ![p] = None]
          /\ call' = [call EXCEPT ![p] = "spawn"]
       \/ /\ call' = [call EXCEPT ![p] = "idle"]
          /\ UNCHANGED <<wopen, pipe>>
    /\ UNCHANGED <<after, ctx, stopping, hproc, table, child, killed, left,
                   holders, thread>>

(* CreateProcess with bInheritHandles = TRUE: the new child receives every *)
(* write end that is open in the application at that moment.               *)
SpawnChild(p) ==
    /\ call[p] = "spawn"
    /\ \E h \in Handles :
         /\ table[h] = NoProc
         /\ table' = [table EXCEPT ![h] = p]
         /\ hproc' = [hproc EXCEPT ![p] = h]
    /\ child' = [child EXCEPT ![p] = "running"]
    /\ killed' = [killed EXCEPT ![p] = FALSE]
    /\ left' = [left EXCEPT ![p] = [s \in Streams |-> MaxWrites]]
    /\ holders' = [q \in Procs |-> IF wopen[q] THEN holders[q] \cup {p}
                                               ELSE holders[q]]
    /\ call' = [call EXCEPT ![p] = "close"]
    /\ UNCHANGED <<after, ctx, stopping, pipe, wopen, thread>>

SpawnFailed(p) ==
    /\ call[p] = "spawn"
    /\ wopen' = [wopen EXCEPT ![p] = FALSE]
    /\ call' = [call EXCEPT ![p] = "idle"]
    /\ UNCHANGED <<after, ctx, stopping, hproc, table, child, killed, left,
                   pipe, holders, thread>>

CloseWriteEnds(p) ==
    /\ call[p] = "close"
    /\ wopen' = [wopen EXCEPT ![p] = FALSE]
    /\ call' = [call EXCEPT ![p] = "thread"]
    /\ UNCHANGED <<after, ctx, stopping, hproc, table, child, killed, left,
                   pipe, holders, thread>>

CreateReader(p) ==
    /\ call[p] = "thread"
    /\ ctx' = [ctx EXCEPT ![p] = TRUE]
    /\ stopping' = [stopping EXCEPT ![p] = FALSE]
    /\ held' = [held EXCEPT ![p] = Nothing]
    /\ told' = [told EXCEPT ![p] = FALSE]
    /\ reader' = [reader EXCEPT ![p] = "top"]
    /\ call' = [call EXCEPT ![p] = "idle"]
    /\ UNCHANGED <<after, hproc, pipe, kernel>>

(* No thread: the child is terminated and start() returns false.           *)
CreateReaderFailed(p) ==
    /\ call[p] = "thread"
    /\ TerminateProcess(hproc[p])
    /\ table' = [table EXCEPT ![hproc[p]] = NoProc]
    /\ hproc' = [hproc EXCEPT ![p] = NoHandle]
    /\ call' = [call EXCEPT ![p] = "idle"]
    /\ UNCHANGED <<after, ctx, stopping, left, pipe, wopen, thread>>

Caller(p) ==
    \/ StartCall(p) \/ StopCall(p) \/ StopFlag(p) \/ StopKill(p)
    \/ StopJoin(p) \/ CreatePipes(p) \/ SpawnChild(p) \/ SpawnFailed(p)
    \/ CloseWriteEnds(p) \/ CreateReader(p) \/ CreateReaderFailed(p)

-----------------------------------------------------------------------------
Goto(p, from, to) ==
    /\ reader[p] = from
    /\ reader' = [reader EXCEPT ![p] = to]

(* One fragment leaves the pipe: it completes a line, which goes to the    *)
(* callback, or it is kept until the rest of its line arrives.             *)
Read(p, s) ==
    /\ pipe' = [pipe EXCEPT ![p][s] = @ - 1]
    /\ \E unterminated \in BOOLEAN :
         held' = [held EXCEPT ![p][s] = unterminated]

(* Fault: only stdout is polled.                                           *)
AvailableOnStdout(p, s) == s = "out" /\ pipe[p][s] > 0

(* PeekNamedPipe finds something to read.                                  *)
Available(p, s) == pipe[p][s] > 0

(* Fault: the drain stops at an empty pipe instead of at its end.          *)
EndWhenEmpty(p, s) == pipe[p][s] = 0

(* The write ends are closed everywhere, so ReadFile reports the end.      *)
EndOfPipe(p, s) == pipe[p][s] = 0 /\ ~wopen[p] /\ holders[p] = {}

(* Fault: a reader that is told to stop leaves without reporting.          *)
ReaderQuits(p) ==
    /\ Goto(p, "top", IF stopping[p] THEN "close" ELSE "out")
    /\ UNCHANGED <<owner, held, told, pipe, kernel>>

ReaderTop(p) ==
    /\ Goto(p, "top", IF stopping[p] THEN "drainOut" ELSE "out")
    /\ UNCHANGED <<owner, held, told, pipe, kernel>>

(* Read until the pipe is empty, first stdout, then stderr.                *)
ReaderPoll(p) ==
    /\ \/ \E s \in Streams :
            /\ reader[p] = s
            /\ Available(p, s)
            /\ Read(p, s)
            /\ UNCHANGED reader
       \/ /\ \/ ~Available(p, "out") /\ Goto(p, "out", "err")
             \/ ~Available(p, "err") /\ Goto(p, "err", "wait")
          /\ UNCHANGED <<pipe, held>>
    /\ UNCHANGED <<owner, told, kernel>>

(* Fault: the reader does not notice that the child has ended.             *)
KeepPolling(p) ==
    /\ Goto(p, "wait", "top")
    /\ UNCHANGED <<owner, held, told, pipe, kernel>>

(* The wait for the end of the child lasts 50 ms at most.                  *)
ReaderWait(p) ==
    /\ Goto(p, "wait", IF child[p] = "running" THEN "top" ELSE "drainOut")
    /\ UNCHANGED <<owner, held, told, pipe, kernel>>

(* Blocking ReadFile to the end of each pipe.                              *)
ReaderDrain(p) ==
    /\ \/ /\ \/ reader[p] = "drainOut" /\ pipe[p]["out"] > 0 /\ Read(p, "out")
             \/ reader[p] = "drainErr" /\ pipe[p]["err"] > 0 /\ Read(p, "err")
          /\ UNCHANGED reader
       \/ /\ \/ EndOfPipe(p, "out") /\ Goto(p, "drainOut", "drainErr")
             \/ EndOfPipe(p, "err") /\ Goto(p, "drainErr", "flush")
          /\ UNCHANGED <<pipe, held>>
    /\ UNCHANGED <<owner, told, kernel>>

ReaderFlush(p) ==
    /\ Goto(p, "flush", "report")
    /\ held' = [held EXCEPT ![p] = Nothing]
    /\ UNCHANGED <<owner, told, pipe, kernel>>

(* GetExitCodeProcess and the onFinished callback.                         *)
ReaderReport(p) ==
    /\ Goto(p, "report", "close")
    /\ told' = [told EXCEPT ![p] = TRUE]
    /\ UNCHANGED <<owner, held, pipe, kernel>>

(* The handles are closed, but their values stay in the context; the       *)
(* thread ends.                                                            *)
ReaderClose(p) ==
    /\ Goto(p, "close", "none")
    /\ table' = [table EXCEPT ![hproc[p]] = NoProc]
    /\ UNCHANGED <<owner, held, told, pipe, child, killed, left, wopen,
                   holders>>

Reader(p) ==
    \/ ReaderTop(p) \/ ReaderPoll(p) \/ ReaderWait(p) \/ ReaderDrain(p)
    \/ ReaderFlush(p) \/ ReaderReport(p) \/ ReaderClose(p)

-----------------------------------------------------------------------------
(* The child: clamscan or freshclam.  A write blocks while the pipe is     *)
(* full; the child may end at any time.                                    *)
ChildWrite(p) ==
    /\ child[p] = "running"
    /\ \E s \in Streams :
         /\ left[p][s] > 0
         /\ pipe[p][s] < Cap
         /\ left' = [left EXCEPT ![p][s] = @ - 1]
         /\ pipe' = [pipe EXCEPT ![p][s] = @ + 1]
    /\ UNCHANGED <<owner, thread, table, child, killed, wopen, holders>>

ChildExit(p) ==
    /\ child[p] = "running"
    /\ child' = [child EXCEPT ![p] = "exited"]
    /\ holders' = DropWriteEnds(p)
    /\ UNCHANGED <<owner, thread, table, killed, left, pipe, wopen>>

Next == \E p \in Procs : Caller(p) \/ Reader(p) \/ ChildWrite(p) \/ ChildExit(p)

Spec == Init /\ [][Next]_vars

(* A call that has been made runs on, and reader threads run.  Nobody has  *)
(* to call start() or stop(), and a child may run for ever.                *)
InCall(p) == call[p] # "idle" /\ Caller(p)

FairSpec ==
    /\ Spec
    /\ \A p \in Procs : WF_vars(InCall(p)) /\ WF_vars(Reader(p))

-----------------------------------------------------------------------------
(* The reader points from which callbacks are still to come.               *)
Active == ReaderPoints \ {"none", "close"}

(* The child has ended and has been reported.                              *)
Finished(p) == ctx[p] /\ reader[p] \notin Active

(* The reader thread uses the context from its first step to its last, so  *)
(* stop() may free the context only after the thread has ended, and an     *)
(* object without context never calls back.                                *)
ReaderHasContext == \A p \in Procs : reader[p] # "none" => ctx[p]

(* onFinished comes after everything the child wrote: no fragment is left  *)
(* in a pipe or in a line buffer when the exit code is reported, whether   *)
(* the child ended by itself or was terminated.                            *)
DrainedBeforeReport ==
    \A p \in Procs :
        reader[p] = "report" \/ Finished(p) =>
            pipe[p] = None /\ held[p] = Nothing

(* While callbacks are to come the reader's process handle is its own      *)
(* child's: the exit code it reports is never another child's.             *)
OwnHandle ==
    \A p \in Procs : reader[p] \in Active =>
        hproc[p] \in Handles /\ table[hproc[p]] = p

(* A running child is always one that its object can still stop: start()   *)
(* neither forgets an earlier child nor returns false leaving one behind.  *)
NoOrphan ==
    \A p \in Procs : child[p] = "running" =>
        reader[p] \in Active \/ call[p] \in {"close", "thread"}

(* stop() returns, even when the child would run for ever and is blocked   *)
(* on a full pipe.                                                         *)
StopReturns == \A p \in Procs : (call[p] = "flag") ~> (call[p] = "idle")

(* The end of a child is reported, without anyone asking.                  *)
EndReported ==
    \A p \in Procs :
        (ctx[p] /\ child[p] # "running") ~> (ctx[p] => told[p])

(* A child is never left blocked on a full pipe: the reader empties both   *)
(* pipes, or the child is terminated.                                      *)
WriterUnblocked ==
    \A p \in Procs, s \in Streams :
        (child[p] = "running" /\ pipe[p][s] = Cap) ~>
            (child[p] # "running" \/ pipe[p][s] < Cap)

(* stop() passes on a handle value that its reader has closed and another  *)
(* child may have received since.  That child is ended by it only when the *)
(* object's own child has ended and been reported before.                  *)
StrayKillAfterReport ==
    [][\A p \in Procs :
         killed'[p] /\ ~killed[p] /\ call[p] \notin {"kill", "thread"} =>
            \E q \in Procs \ {p} :
               call[q] = "kill" /\ told[q] /\ child[q] = "exited"]_vars

-----------------------------------------------------------------------------
(* Why the invariants hold: the inductive strengthening, in parts.         *)

(* Where the owner is in a call, against the context and the write ends.   *)
CallInv ==
    \A p \in Procs :
        /\ call[p] \in {"flag", "kill", "join"} => ctx[p]
        /\ call[p] \in {"pipes", "spawn", "close", "thread"} => ~ctx[p]
        /\ wopen[p] <=> call[p] \in {"spawn", "close"}

(* A running child holds its own write ends, and only running children     *)
(* hold any; past the end of a pipe nobody does.                           *)
PipeInv ==
    \A p \in Procs :
        /\ child[p] = "running" => p \in holders[p]
        /\ \A q \in holders[p] : child[q] = "running"
        /\ reader[p] \in {"drainErr", "flush", "report"} \/ Finished(p) =>
               holders[p] = {} /\ pipe[p]["out"] = 0
        /\ reader[p] \in {"flush", "report"} \/ Finished(p) =>
               pipe[p]["err"] = 0
        /\ reader[p] = "report" \/ Finished(p) => held[p] = Nothing

(* From CreateProcess until the reader closes it, the handle is the        *)
(* child's.                                                                *)
HandleInv ==
    \A p \in Procs :
        reader[p] # "none" \/ call[p] \in {"close", "thread"} =>
            hproc[p] \in Handles /\ table[hproc[p]] = p

(* onFinished is called exactly at the end of the reader's work.           *)
ToldInv == \A p \in Procs : ctx[p] => (told[p] <=> reader[p] \notin Active)

IInv ==
    /\ TypeOK
    /\ ReaderHasContext
    /\ CallInv
    /\ PipeInv
    /\ HandleInv
    /\ ToldInv
    /\ NoOrphan

-----------------------------------------------------------------------------
(* What a CWProcess promises its owner.                                    *)
JobStatus ==
    [p \in Procs |-> IF ~ctx[p] THEN "idle"
                     ELSE IF told[p] THEN "reported" ELSE "running"]

Promise == INSTANCE Job WITH status <- JobStatus

(* Each start() that succeeds is followed by exactly one onFinished before *)
(* the object is at rest again.                                            *)
ImplementsJob == Promise!Spec

=============================================================================
