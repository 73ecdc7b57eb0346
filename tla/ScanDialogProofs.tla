-------------------------- MODULE ScanDialogProofs --------------------------
(* Proofs about ScanDialog, for any modes, policies, exit codes and any    *)
(* number of unread lines.                                                 *)
EXTENDS ScanDialog, TLAPS

(* The end of the child, or of the attempt to start one, has been posted.  *)
Reported == \/ worker = "done" /\ reader = "none"
            \/ reader \in {"closing", "ended"}

(* How far the worker thread, the reader thread and the child are.         *)
ThreadInv ==
    /\ worker \in {"none", "count", "start"} => child = "none"
    /\ worker \in {"none", "count", "start", "context"} => ~ctx
    /\ worker \notin {"handle", "done"} => reader = "none"
    /\ worker = "handle" => reader # "none"
    /\ worker = "done" /\ ctx => hthread
    /\ hthread => worker = "done"
    /\ reader \in {"closing", "ended"} =>
         child \in {"exited", "killed"} /\ pipe = <<>>
    /\ worker # "none" /\ ~finished => hworker

(* Messages go to a window.                                                *)
WindowInv ==
    /\ ~window => queue = <<>>
    /\ ui \in {"deleting", "waiting", "member", "gone"} => ~window
    /\ ui = "join" /\ then \in {"waiting", "gone"} => ~window

(* The end is posted once, after all output, and with the code it has.     *)
EndInv ==
    /\ finished => Reported
    /\ \A i \in DOMAIN queue :
         /\ queue[i][1] = "finished" => Reported /\ ~finished
         /\ queue[i] = AutoCloseMsg => finished
         /\ \A c \in Results : queue[i] = FinishedMsg(c) /\ c # Cancelled =>
              reader \in {"closing", "ended"} /\ c = code
    /\ \A i, j \in DOMAIN queue :
         /\ queue[i][1] = "finished" /\ queue[j][1] = "finished" => i = j
         /\ queue[i][1] = "finished" /\ i < j => queue[j][1] # "output"
    /\ exitCode # Cancelled => finished /\ reader \in {"closing", "ended"}

Occurs(x, q) == \E i \in DOMAIN q : q[i] = x
Queued(l) == Occurs(Output(l), queue)
InPipe(l) == Occurs(l, pipe)

(* No line is made up, and while there is a window none is lost.           *)
LineInv ==
    /\ seen \subseteq wrote
    /\ \A l \in Lines : Queued(l) \/ InPipe(l) => l \in wrote
    /\ window => \A l \in wrote : l \in seen \/ Queued(l) \/ InPipe(l)

(* Only cancelling, a reader thread that cannot be created, or the end of  *)
(* the dialog kill a child.                                                *)
CodeInv ==
    /\ child = "killed" /\ window =>
         cancelled \/ (worker = "done" /\ reader = "none")
    /\ exitCode # Cancelled /\ ~cancelled =>
         /\ child = "exited"
         /\ \/ exitCode = code
            \/ /\ exitCode = NoChanges
               /\ code = 0
               /\ mode = "update" /\ wrote = {"uptodate"}

Logged(m) == Occurs(m, log)

LogInv ==
    /\ Logged("started") => worker \notin {"none", "count", "start"}
    /\ Logged("failed") => worker = "done"
    /\ Logged("completed") => finished

(* With a patient user the dialog waits for the worker thread.             *)
PatientInv ==
    ~hasty =>
        /\ ui # "open" => worker \in {"none", "done"}
        /\ finished => worker = "done"
        /\ worker \in {"thread", "handle"} => ctx
        /\ child = "running" => worker = "context" \/ ctx
        /\ ui \in {"join", "waiting", "member", "gone"} => child # "running"

IInv ==
    /\ TypeOK /\ ThreadInv /\ WindowInv /\ EndInv /\ LineInv /\ CodeInv /\ LogInv
    /\ PatientInv
    /\ OutputHandled /\ ResultIsTrue /\ OneFooter /\ PatientIsSafe

-----------------------------------------------------------------------------
(* Removing the first element moves the others forward.                    *)
LEMMA TailMoves ==
    ASSUME NEW S, NEW q \in Seq(S), q # <<>>
    PROVE  /\ Tail(q) \in Seq(S)
           /\ 1 \in DOMAIN q /\ q[1] = Head(q) /\ Head(q) \in S
           /\ \A k \in DOMAIN Tail(q) :
                k + 1 \in DOMAIN q /\ Tail(q)[k] = q[k + 1]
           /\ \A k \in DOMAIN q :
                k = 1 \/ (k - 1 \in DOMAIN Tail(q) /\ Tail(q)[k - 1] = q[k])
           /\ DOMAIN q \subseteq Nat \ {0} /\ DOMAIN Tail(q) \subseteq Nat \ {0}
  OBVIOUS

(* A new last element leaves the others where they are.                    *)
LEMMA AppendKeeps ==
    ASSUME NEW S, NEW q \in Seq(S), NEW e \in S
    PROVE  /\ Append(q, e) \in Seq(S)
           /\ Len(q) + 1 \in DOMAIN Append(q, e)
           /\ Append(q, e)[Len(q) + 1] = e
           /\ Len(q) + 1 \notin DOMAIN q
           /\ \A k \in DOMAIN q :
                k \in DOMAIN Append(q, e) /\ Append(q, e)[k] = q[k]
           /\ \A k \in DOMAIN Append(q, e) :
                k \in DOMAIN q \/ k = Len(q) + 1
           /\ \A k \in DOMAIN q : k < Len(q) + 1
           /\ DOMAIN q \subseteq Nat \ {0}
           /\ DOMAIN Append(q, e) \subseteq Nat \ {0}
  OBVIOUS

(* The messages of the dialog are of three kinds.                          *)
LEMMA MessageKinds ==
    /\ \A l \in Lines : Output(l) \in Messages /\ Output(l)[1] = "output"
    /\ \A c \in Results : FinishedMsg(c) \in Messages
                          /\ FinishedMsg(c)[1] = "finished"
    /\ AutoCloseMsg \in Messages /\ AutoCloseMsg[1] = "close"
    /\ \A l, k : Output(l) = Output(k) => l = k
    /\ \A c, d : FinishedMsg(c) = FinishedMsg(d) => c = d
  BY DEF Output, FinishedMsg, AutoCloseMsg, Messages

LEMMA CodesAreResults ==
    /\ ExitCodes \cup {1} \subseteq Results
    /\ Cancelled \in Results /\ NoChanges \in Results
    /\ Cancelled \notin ExitCodes \cup {1, NoChanges}
    /\ Cancelled \notin Nat
    /\ Results \ {Cancelled} \subseteq Nat
    /\ NoResult \notin Nat
  BY ScanDialogAssumption DEF Results, Cancelled, NoChanges, NoResult

-----------------------------------------------------------------------------
(* What a step may do to the queue.                                        *)
Taken == ui = "open" /\ queue # <<>> /\ queue' = Tail(queue)
Put(m) == queue' = Posted(queue, m)

LEMMA QueueStep ==
    ASSUME TypeOK, Next
    PROVE  queue' \in Seq(Messages)
<1> USE DEF TypeOK
<1>1. ASSUME NEW m \in Messages, Put(m) PROVE queue' \in Seq(Messages)
  BY <1>1, AppendKeeps DEF Put, Posted
<1>2. ASSUME queue # <<>>, queue' = Tail(queue) PROVE queue' \in Seq(Messages)
  BY <1>2, TailMoves
<1>3. CASE Worker
  <2>1. CASE ToolMissing \/ SpawnFailed \/ CreateReaderFailed
    <3>1. Put(FinishedMsg(Cancelled))
      BY <2>1 DEF ToolMissing, SpawnFailed, CreateReaderFailed, Put
    <3>2. QED
      BY <1>1, <3>1, MessageKinds, CodesAreResults
  <2>2. CASE UNCHANGED queue
    BY <2>2
  <2>3. QED
    BY <1>3, <2>1, <2>2
       DEF Worker, CountFiles, Spawn, Publish, CreateReader, KeepHandle
<1>4. CASE ReaderOutput
  <2>1. Head(pipe) \in Lines
    BY <1>4 DEF ReaderOutput
  <2>2. QED
    BY <1>1, <1>4, <2>1, MessageKinds DEF ReaderOutput, Put
<1>5. CASE ReaderFinished
  BY <1>1, <1>5, MessageKinds, CodesAreResults DEF ReaderFinished, Put
<1>6. CASE OnFinished
  <2>1. Tail(queue) \in Seq(Messages)
    BY <1>6, TailMoves DEF OnFinished
  <2>2. Append(Tail(queue), AutoCloseMsg) \in Seq(Messages)
    BY <2>1, AppendKeeps, MessageKinds
  <2>3. QED
    BY <1>6, <2>1, <2>2 DEF OnFinished
<1>7. CASE OnOutput \/ OnAutoClose
  BY <1>2, <1>7 DEF OnOutput, OnAutoClose
<1>8. CASE Destroy
  BY <1>8 DEF Destroy
<1>9. CASE UNCHANGED queue
  BY <1>9
<1>10. QED
  BY <1>3, <1>4, <1>5, <1>6, <1>7, <1>8, <1>9
     DEF Next, User, UserInterface, Join, Delete, Reader, ReaderEnds,
         ChildWrites, ChildExits, Crash

(* What stop() and the handlers that call it leave.                        *)
LEMMA StopType ==
    ASSUME TypeOK, NEW next \in {"open", "ended", "waiting", "gone"}, Stop(next)
    PROVE  /\ ui' \in {"join", next} /\ then' \in {"open", "ended", "waiting", "gone"}
           /\ ctx' \in BOOLEAN
           /\ child' \in {"none", "running", "exited", "killed"}
           /\ code' \in ExitCodes \cup {1}
           /\ UNCHANGED <<hthread, reader, pipe, wrote>>
  BY DEF TypeOK, Stop, Terminate

LEMMA ClickType ==
    ASSUME TypeOK, Clicks \/ Escapes \/ Closes
    PROVE  /\ ui' \in {"open", "join", "ended"}
           /\ then' \in {"open", "ended", "waiting", "gone"}
           /\ ctx' \in BOOLEAN /\ cancelled' \in BOOLEAN
           /\ result' \in Results \cup {NoResult}
           /\ child' \in {"none", "running", "exited", "killed"}
           /\ code' \in ExitCodes \cup {1}
           /\ UNCHANGED <<hthread, reader, pipe, wrote>>
<1>1. Cancelled \in Results /\ Outcome \in Results
  BY CodesAreResults DEF TypeOK, Outcome
<1>2. ASSUME NEW next \in {"open", "ended"}, NEW o \in Results, StopOrEnd(next, o)
      PROVE  /\ ui' \in {"open", "join", "ended"}
             /\ then' \in {"open", "ended", "waiting", "gone"}
             /\ ctx' \in BOOLEAN /\ cancelled' \in BOOLEAN
             /\ result' \in Results \cup {NoResult}
             /\ child' \in {"none", "running", "exited", "killed"}
             /\ code' \in ExitCodes \cup {1}
             /\ UNCHANGED <<hthread, reader, pipe, wrote>>
  BY <1>1, <1>2, StopType DEF StopOrEnd, SetCancelled, TypeOK, process
<1>3. QED
  BY <1>1, <1>2 DEF Clicks, Escapes, Closes

(* The types of what is not a sequence.                                    *)
PlainTypes ==
    /\ mode \in Modes /\ policy \in Policies
    /\ ui \in {"open", "join", "ended", "deleting", "waiting", "member", "gone"}
    /\ then \in {"open", "ended", "waiting", "gone"}
    /\ window \in BOOLEAN
    /\ finished \in BOOLEAN /\ cancelled \in BOOLEAN
    /\ exitCode \in Results /\ result \in Results \cup {NoResult}
    /\ seen \subseteq Lines /\ wrote \subseteq Lines
    /\ worker \in {"none", "count", "start", "context", "thread", "handle",
                   "done"}
    /\ hworker \in BOOLEAN /\ ctx \in BOOLEAN /\ hthread \in BOOLEAN
    /\ reader \in {"none", "running", "closing", "ended"}
    /\ child \in {"none", "running", "exited", "killed"}
    /\ code \in ExitCodes \cup {1}
    /\ hasty \in BOOLEAN /\ crashed \in BOOLEAN

Marks == {"started", "failed", "completed"}

LEMMA TypeParts ==
    TypeOK <=> /\ PlainTypes
               /\ queue \in Seq(Messages) /\ pipe \in Seq(Lines) /\ log \in Seq(Marks)
  BY Zenon DEF TypeOK, PlainTypes, Marks

LEMMA TypePartsNext ==
    TypeOK' <=> /\ PlainTypes'
                /\ queue' \in Seq(Messages) /\ pipe' \in Seq(Lines)
                /\ log' \in Seq(Marks)
  BY Zenon DEF TypeOK, PlainTypes, Marks, Messages, Results, Output, FinishedMsg,
               AutoCloseMsg, Lines

LEMMA PipeStep ==
    ASSUME TypeOK, Next
    PROVE  pipe' \in Seq(Lines)
<1>1. pipe \in Seq(Lines)
  BY TypeParts
<1>2. CASE UNCHANGED pipe
  BY <1>1, <1>2
<1>3. CASE ReaderOutput
  BY <1>1, <1>3, TailMoves DEF ReaderOutput
<1>4. CASE ChildWrites
  BY <1>1, <1>4, AppendKeeps DEF ChildWrites
<1>5. UNCHANGED pipe \/ ReaderOutput \/ ChildWrites
  BY DEF Next, User, Clicks, Escapes, Closes, StopOrEnd, Stop, process,
         UserInterface, Join, OnOutput, OnFinished, OnAutoClose, Destroy, Delete,
         Worker, CountFiles, ToolMissing, Spawn, SpawnFailed, Publish, CreateReader,
         CreateReaderFailed, KeepHandle, Reader, ReaderFinished, ReaderEnds,
         ChildExits, Crash
<1>6. QED
  BY <1>2, <1>3, <1>4, <1>5

LEMMA LogStep ==
    ASSUME TypeOK, Next
    PROVE  log' \in Seq(Marks)
<1>1. log \in Seq(Marks)
  BY TypeParts
<1>2. ASSUME NEW m \in Marks, log' = Append(log, m) PROVE log' \in Seq(Marks)
  BY <1>1, <1>2, AppendKeeps
<1>3. CASE SpawnFailed
  BY <1>1, <1>3 DEF SpawnFailed, Marks
<1>4. \/ UNCHANGED log \/ SpawnFailed \/ log' = Append(log, "started")
      \/ log' = Append(log, "failed") \/ log' = Append(log, "completed")
  BY DEF Next, User, UserInterface, Join, OnOutput, OnFinished, OnAutoClose,
         Destroy, Delete, Worker, CountFiles, ToolMissing, Spawn, Publish,
         CreateReader, CreateReaderFailed, KeepHandle, Reader, ReaderOutput,
         ReaderFinished, ReaderEnds, ChildWrites, ChildExits, Crash
<1>5. QED
  BY <1>1, <1>2, <1>3, <1>4 DEF Marks

(* Every step keeps every variable in its type.                            *)
LEMMA TypeStep ==
    ASSUME TypeOK, [Next]_vars PROVE TypeOK'
<1>0. CASE UNCHANGED vars
  BY <1>0 DEF TypeOK, vars
<1> SUFFICES ASSUME Next PROVE PlainTypes'
  BY <1>0, QueueStep, PipeStep, LogStep, TypePartsNext
<1>1. PlainTypes
  BY TypeParts
<1> USE DEF PlainTypes, object, process, flags
<1>2. CASE User
  BY <1>1, <1>2, ClickType DEF User
<1>3. CASE Join
  <2>1. /\ ctx' \in BOOLEAN /\ hthread' \in BOOLEAN
        /\ ui' \in {"open", "join", "ended", "deleting", "waiting", "member", "gone"}
    BY <1>1, <1>3 DEF Join
  <2>2. QED
    BY <1>1, <1>3, <2>1 DEF Join
<1>4. CASE OnOutput
  BY <1>1, <1>4 DEF OnOutput
<1>5. CASE OnFinished
  <2>1. exitCode' \in Results
    BY <1>1, <1>5, CodesAreResults DEF OnFinished, FinalCode
  <2>2. finished' \in BOOLEAN /\ hworker' \in BOOLEAN /\ hasty' \in BOOLEAN
    BY <1>1, <1>5 DEF OnFinished, WaitForWorker
  <2>3. QED
    BY <1>1, <1>5, <2>1, <2>2 DEF OnFinished
<1>6. CASE OnAutoClose
  BY <1>1, <1>6, ClickType DEF OnAutoClose
<1>7. CASE Destroy
  <2>1. window' \in BOOLEAN
    BY <1>1, <1>7 DEF Destroy
  <2>2. QED
    BY <1>1, <1>7, <2>1 DEF Destroy
<1>8. CASE Delete
  BY <1>1, <1>8, StopType DEF Delete, WaitForWorker
<1>9. CASE Worker
  <2>1. /\ worker' \in {"none", "count", "start", "context", "thread", "handle",
                        "done"}
        /\ ctx' \in BOOLEAN /\ hthread' \in BOOLEAN
        /\ child' \in {"none", "running", "exited", "killed"}
        /\ code' \in ExitCodes \cup {1}
    BY <1>1, <1>9
       DEF Worker, CountFiles, ToolMissing, Spawn, SpawnFailed, Publish,
           CreateReader, CreateReaderFailed, KeepHandle, Terminate
  <2>2. reader' \in {"none", "running", "closing", "ended"}
    BY <1>1, <1>9
       DEF Worker, CountFiles, ToolMissing, Spawn, SpawnFailed, Publish,
           CreateReader, CreateReaderFailed, KeepHandle
  <2>3. UNCHANGED <<mode, policy, ui, then, window, object, result, hworker, wrote,
                    hasty, crashed>>
    BY <1>9
       DEF Worker, CountFiles, ToolMissing, Spawn, SpawnFailed, Publish,
           CreateReader, CreateReaderFailed, KeepHandle
  <2>4. QED
    BY <1>1, <2>1, <2>2, <2>3
<1>10. CASE Reader
  BY <1>1, <1>10 DEF Reader, ReaderOutput, ReaderFinished, ReaderEnds
<1>11. CASE ChildWrites
  BY <1>1, <1>11 DEF ChildWrites
<1>12. CASE ChildExits
  BY <1>1, <1>12 DEF ChildExits
<1>13. CASE Crash
  BY <1>1, <1>13 DEF Crash
<1>14. QED
  BY <1>2, <1>3, <1>4, <1>5, <1>6, <1>7, <1>8, <1>9, <1>10, <1>11, <1>12, <1>13
     DEF Next, UserInterface

-----------------------------------------------------------------------------
(* What stop() does, to whichever thread's child.                          *)
LEMMA StopEffect ==
    ASSUME PlainTypes, NEW next \in {"open", "ended", "waiting", "gone"}, Stop(next)
    PROVE  /\ UNCHANGED <<hthread, reader, pipe, wrote>>
           /\ ctx' = ctx \/ (ctx /\ ~hthread /\ ~ctx')
           /\ \/ UNCHANGED <<child, code>>
              \/ ctx /\ child = "running" /\ child' = "killed" /\ code' = 1
           /\ ctx => child' # "running"
           /\ \/ ui' = next /\ then' = then /\ ~ctx' /\ (ctx => ~hthread)
              \/ ui' = "join" /\ then' = next /\ ctx /\ hthread
<1>1. CASE ~ctx
  BY <1>1 DEF Stop
<1>2. CASE ctx /\ hthread
  BY <1>2 DEF Stop, Terminate
<1>3. CASE ctx /\ ~hthread
  BY <1>3 DEF Stop, Terminate
<1>4. QED
  BY <1>1, <1>2, <1>3 DEF PlainTypes

(* What the handlers that may stop the child do.                           *)
Act == Clicks \/ Escapes \/ Closes

LEMMA ActEffect ==
    ASSUME PlainTypes, Act
    PROVE  /\ UNCHANGED <<hthread, reader, pipe, wrote>>
           /\ \/ /\ finished /\ UNCHANGED <<then, cancelled, ctx, child, code>>
                 /\ ui' = "ended" /\ result' \in {Cancelled, Outcome}
              \/ /\ ~finished /\ cancelled'
                 /\ result' \in {Cancelled, result}
                 /\ \E next \in {"open", "ended"} : Stop(next)
<1>1. ASSUME NEW next \in {"open", "ended"}, NEW o \in {Cancelled, Outcome},
             StopOrEnd(next, o)
      PROVE  /\ UNCHANGED <<hthread, reader, pipe, wrote>>
             /\ \/ /\ finished /\ UNCHANGED <<then, cancelled, ctx, child, code>>
                   /\ ui' = "ended" /\ result' \in {Cancelled, Outcome}
                \/ /\ ~finished /\ cancelled'
                   /\ result' \in {Cancelled, result}
                   /\ \E n \in {"open", "ended"} : Stop(n)
  <2>1. CASE ~finished
    <3>1. Stop(next) /\ cancelled' /\ result' \in {Cancelled, result}
      BY <1>1, <2>1 DEF StopOrEnd, SetCancelled
    <3>2. UNCHANGED <<hthread, reader, pipe, wrote>>
      BY <3>1, StopEffect
    <3>3. QED
      BY <2>1, <3>1, <3>2
  <2>2. CASE finished
    BY <1>1, <2>2 DEF StopOrEnd, process
  <2>3. QED
    BY <2>1, <2>2
<1>2. QED
  BY <1>1 DEF Act, Clicks, Escapes, Closes

(* The same for the kinds of steps they are part of: what stays, and what  *)
(* may happen to the child.                                                *)
Acting == User \/ OnAutoClose \/ Delete

LEMMA ActingEffect ==
    ASSUME PlainTypes, Acting
    PROVE  /\ UNCHANGED <<mode, policy, window, finished, exitCode, seen, worker,
                          hworker, hthread, reader, pipe, wrote, log, crashed>>
           /\ ctx' = ctx \/ (ctx /\ ~hthread /\ ~ctx')
           /\ \/ UNCHANGED <<child, code>>
              \/ ctx /\ child = "running" /\ child' = "killed" /\ code' = 1
           /\ child' # child => cancelled' \/ ui \in {"deleting", "member"}
           /\ cancelled' = cancelled \/ (~finished /\ cancelled')
           /\ result' \in {Cancelled, result} \/ (finished /\ result' = Outcome)
<1>1. CASE User \/ OnAutoClose
  <2>1. /\ Act
        /\ UNCHANGED <<mode, policy, window, finished, exitCode, seen, worker,
                       hworker, log, crashed>>
    BY <1>1 DEF User, OnAutoClose, Act, flags
  <2>2. CASE finished
    BY <2>1, <2>2, ActEffect
  <2>3. CASE ~finished
    <3>1. PICK next \in {"open", "ended"} : Stop(next)
      BY <2>1, <2>3, ActEffect
    <3>2. QED
      BY <2>1, <2>3, <3>1, ActEffect, StopEffect
  <2>4. QED
    BY <2>2, <2>3
<1>2. CASE Delete
  <2>1. UNCHANGED <<mode, policy, window, finished, cancelled, exitCode, seen,
                    worker, hworker, log, crashed, result>>
    BY <1>2 DEF Delete, object
  <2>2. CASE \/ ui = "deleting" /\ Stop("waiting")
             \/ ui = "member" /\ Stop("gone")
    BY <2>1, <2>2, StopEffect
  <2>3. CASE UNCHANGED process
    BY <2>1, <2>3 DEF process
  <2>4. QED
    BY <1>2, <2>2, <2>3 DEF Delete
<1>3. QED
  BY <1>1, <1>2 DEF Acting

(* Every step keeps what is known of the threads.                          *)
LEMMA ThreadStep ==
    ASSUME PlainTypes, ThreadInv, Next PROVE ThreadInv'
<1> USE DEF PlainTypes, ThreadInv
<1>1. CASE Acting
  <2>1. /\ UNCHANGED <<finished, worker, hworker, hthread, reader, pipe>>
        /\ ctx' = ctx \/ (ctx /\ ~hthread /\ ~ctx')
        /\ child' = child \/ (ctx /\ child' = "killed")
    BY <1>1, ActingEffect
  <2>2. QED
    BY <2>1
<1>2. CASE Join
  BY <1>2 DEF Join, object
<1>3. CASE OnOutput \/ Destroy
  BY <1>3 DEF OnOutput, Destroy, object, process
<1>4. CASE OnFinished
  BY <1>4 DEF OnFinished, process
<1>5. CASE CountFiles
  BY <1>5 DEF CountFiles, object, process
<1>6. CASE ToolMissing \/ SpawnFailed
  BY <1>6 DEF ToolMissing, SpawnFailed, object, process
<1>7. CASE Spawn
  BY <1>7 DEF Spawn, object
<1>8. CASE Publish
  BY <1>8 DEF Publish, object
<1>9. CASE CreateReader
  BY <1>9 DEF CreateReader, object
<1>10. CASE CreateReaderFailed
  BY <1>10 DEF CreateReaderFailed, object
<1>11. CASE KeepHandle
  BY <1>11 DEF KeepHandle, object
<1>12. CASE ReaderOutput
  BY <1>12 DEF ReaderOutput, object
<1>13. CASE ReaderFinished \/ ReaderEnds
  BY <1>13 DEF ReaderFinished, ReaderEnds, object
<1>14. CASE ChildWrites \/ ChildExits
  BY <1>14 DEF ChildWrites, ChildExits, object
<1>15. CASE Crash
  BY <1>15 DEF Crash, object, process
<1>16. QED
  BY <1>1, <1>2, <1>3, <1>4, <1>5, <1>6, <1>7, <1>8, <1>9, <1>10, <1>11, <1>12,
     <1>13, <1>14, <1>15
     DEF Next, Acting, UserInterface, Worker, Reader

(* Every step keeps what is known of the window.                           *)
LEMMA WindowStep ==
    ASSUME PlainTypes, WindowInv, Next PROVE WindowInv'
<1> USE DEF PlainTypes, WindowInv
<1>1. CASE User \/ OnAutoClose
  <2>1. /\ Act
        /\ ui = "open"
        /\ window' = window
        /\ queue' = queue \/ queue # <<>>
    BY <1>1 DEF User, OnAutoClose, Act
  <2>2. /\ ui' \in {"open", "join", "ended"}
        /\ ui' = "join" => then' \in {"open", "ended"}
    <3>1. CASE finished
      BY <2>1, <3>1, ActEffect
    <3>2. CASE ~finished
      <4>1. PICK next \in {"open", "ended"} : Stop(next)
        BY <2>1, <3>2, ActEffect
      <4>2. QED
        BY <4>1, StopEffect
    <3>3. QED
      BY <3>1, <3>2
  <2>3. QED
    BY <2>1, <2>2
<1>2. CASE Delete
  <2>1. ~window /\ window' = window /\ queue' = queue
    BY <1>2 DEF Delete
  <2>2. QED
    BY <2>1
<1>3. CASE Join
  BY <1>3 DEF Join
<1>4. CASE OnOutput \/ OnFinished \/ Destroy
  BY <1>4 DEF OnOutput, OnFinished, Destroy
<1>5. CASE Worker
  BY <1>5 DEF Worker, CountFiles, ToolMissing, Spawn, SpawnFailed, Publish,
              CreateReader, CreateReaderFailed, KeepHandle, Posted
<1>6. CASE Reader
  BY <1>6 DEF Reader, ReaderOutput, ReaderFinished, ReaderEnds, Posted
<1>7. CASE ChildWrites \/ ChildExits \/ Crash
  BY <1>7 DEF ChildWrites, ChildExits, Crash
<1>8. QED
  BY <1>1, <1>2, <1>3, <1>4, <1>5, <1>6, <1>7 DEF Next, UserInterface

(* The end is posted after everything else, and taken before what it       *)
(* posts.                                                                  *)
EndFacts == TypeOK /\ PlainTypes /\ ThreadInv /\ EndInv

(* A step that leaves the queue alone, and does not undo the end.          *)
LEMMA EndStays ==
    ASSUME EndFacts, UNCHANGED <<queue, finished, exitCode>>, Reported => Reported',
           reader \in {"closing", "ended"} =>
             reader' \in {"closing", "ended"} /\ code' = code
    PROVE  EndInv'
<1>1. Results' = Results /\ \A c : FinishedMsg(c)' = FinishedMsg(c)
  BY DEF Results, FinishedMsg
<1>2. QED
  BY <1>1 DEF EndFacts, EndInv, AutoCloseMsg, FinishedMsg

(* A step that takes the first message, without an effect on the end.      *)
LEMMA EndTaken ==
    ASSUME EndFacts, queue # <<>>, queue' = Tail(queue),
           UNCHANGED <<finished, exitCode, worker, reader>>,
           code' = code \/ reader \notin {"closing", "ended"}
    PROVE  EndInv'
<1> DEFINE T == Tail(queue)
<1>1. /\ \A k \in DOMAIN T : k + 1 \in DOMAIN queue /\ T[k] = queue[k + 1]
      /\ DOMAIN T \subseteq Nat
  BY TailMoves DEF EndFacts, TypeOK
<1> HIDE DEF T
<1>2. /\ \A i \in DOMAIN T :
           /\ T[i][1] = "finished" => Reported /\ ~finished
           /\ T[i] = AutoCloseMsg => finished
           /\ \A c \in Results : T[i] = FinishedMsg(c) /\ c # Cancelled =>
                reader \in {"closing", "ended"} /\ c = code
  BY <1>1 DEF EndFacts, EndInv
<1>3. \A i, j \in DOMAIN T :
           /\ T[i][1] = "finished" /\ T[j][1] = "finished" => i = j
           /\ T[i][1] = "finished" /\ i < j => T[j][1] # "output"
  <2> SUFFICES ASSUME NEW i \in DOMAIN T, NEW j \in DOMAIN T
               PROVE  /\ T[i][1] = "finished" /\ T[j][1] = "finished" => i = j
                      /\ T[i][1] = "finished" /\ i < j => T[j][1] # "output"
    OBVIOUS
  <2>1. /\ i + 1 \in DOMAIN queue /\ j + 1 \in DOMAIN queue
        /\ T[i] = queue[i + 1] /\ T[j] = queue[j + 1] /\ i \in Nat /\ j \in Nat
    BY <1>1
  <2>2. /\ queue[i + 1][1] = "finished" /\ queue[j + 1][1] = "finished" =>
             i + 1 = j + 1
        /\ queue[i + 1][1] = "finished" /\ i + 1 < j + 1 =>
             queue[j + 1][1] # "output"
    BY <2>1 DEF EndFacts, EndInv
  <2>3. QED
    BY <2>1, <2>2
<1>4. queue' = T /\ (Reported' <=> Reported)
  BY DEF T, Reported
<1>5. \A i \in DOMAIN T : \A c \in Results' :
        T[i] = FinishedMsg(c) /\ c # Cancelled =>
          reader' \in {"closing", "ended"} /\ c = code'
  BY <1>2 DEF Results
<1>6. QED
  BY <1>2, <1>3, <1>4, <1>5 DEF EndFacts, EndInv, AutoCloseMsg, FinishedMsg

(* A step that posts output, before the end, or the end itself.            *)
LEMMA EndPut ==
    ASSUME EndFacts, NEW m \in Messages, queue' = Posted(queue, m), ~Reported,
           UNCHANGED <<finished, exitCode>>,
           m # AutoCloseMsg,
           m[1] = "finished" => Reported',
           \A c \in Results : m = FinishedMsg(c) /\ c # Cancelled =>
             reader' \in {"closing", "ended"} /\ c = code'
    PROVE  EndInv'
<1>1. ~finished /\ exitCode = Cancelled /\ reader \notin {"closing", "ended"}
  BY DEF EndFacts, EndInv, Reported
<1>2. \A i \in DOMAIN queue : queue[i][1] # "finished" /\ queue[i] # AutoCloseMsg
  BY <1>1 DEF EndFacts, EndInv
<1>3. CASE ~window
  BY <1>1, <1>2, <1>3 DEF Posted, EndInv, AutoCloseMsg, FinishedMsg
<1>4. CASE window
  <2> DEFINE Q == Append(queue, m)
             n == Len(queue) + 1
  <2>1. /\ Q[n] = m
        /\ \A k \in DOMAIN queue : Q[k] = queue[k] /\ k < n
        /\ \A k \in DOMAIN Q : k \in DOMAIN queue \/ k = n
        /\ DOMAIN queue \subseteq Nat /\ n \in Nat
    BY AppendKeeps DEF EndFacts, TypeOK
  <2> HIDE DEF Q, n
  <2>2. \A k \in DOMAIN Q : Q[k][1] = "finished" \/ Q[k] = AutoCloseMsg => k = n /\ m[1] = "finished"
    BY <1>2, <2>1
  <2>3. \A i, j \in DOMAIN Q :
          /\ Q[i][1] = "finished" /\ Q[j][1] = "finished" => i = j
          /\ Q[i][1] = "finished" /\ i < j => Q[j][1] # "output"
    BY <2>1, <2>2
  <2>4. \A i \in DOMAIN Q : \A c \in Results' :
          Q[i] = FinishedMsg(c) /\ c # Cancelled =>
            reader' \in {"closing", "ended"} /\ c = code'
    BY <2>1, <2>2 DEF Results, FinishedMsg
  <2>5. \A i \in DOMAIN Q :
          Q[i] # AutoCloseMsg /\ (Q[i][1] = "finished" => Reported')
    BY <2>1, <2>2 DEF AutoCloseMsg
  <2>6. queue' = Q
    BY <1>4 DEF Posted, Q
  <2>7. QED
    BY <1>1, <2>3, <2>4, <2>5, <2>6 DEF EndInv, AutoCloseMsg, FinishedMsg
<1>5. QED
  BY <1>3, <1>4

(* The end is handled: it was the only one, and no output is behind it.    *)
LEMMA EndHandledOnce ==
    ASSUME EndFacts, OnFinished
    PROVE  /\ EndInv' /\ Reported /\ ~finished
           /\ \A i \in DOMAIN queue : queue[i][1] # "output"
           /\ exitCode' # Cancelled =>
                reader \in {"closing", "ended"} /\ exitCode' = FinalCode(code)
<1> DEFINE T == Tail(queue)
           Q == Append(T, AutoCloseMsg)
           n == Len(T) + 1
<1>1. PICK c \in Results :
        Head(queue) = FinishedMsg(c) /\ exitCode' = FinalCode(c)
  BY DEF OnFinished
<1>2. /\ queue # <<>> /\ queue \in Seq(Messages)
      /\ queue' = T \/ queue' = Q
      /\ finished' = TRUE /\ UNCHANGED <<worker, reader, code>>
  BY DEF OnFinished, process, EndFacts, TypeOK
<1>3. /\ 1 \in DOMAIN queue /\ queue[1] = FinishedMsg(c)
      /\ queue[1][1] = "finished"
      /\ \A k \in DOMAIN T : k + 1 \in DOMAIN queue /\ T[k] = queue[k + 1]
      /\ DOMAIN T \subseteq Nat \ {0} /\ DOMAIN queue \subseteq Nat \ {0}
      /\ T \in Seq(Messages)
  BY <1>1, <1>2, TailMoves DEF FinishedMsg
<1>4. Reported /\ ~finished
  BY <1>3 DEF EndFacts, EndInv
<1>5. \A k \in DOMAIN queue :
        /\ queue[k][1] # "output"
        /\ k # 1 => queue[k][1] # "finished"
  <2> SUFFICES ASSUME NEW k \in DOMAIN queue
               PROVE  /\ queue[k][1] # "output"
                      /\ k # 1 => queue[k][1] # "finished"
    OBVIOUS
  <2>1. k = 1 \/ 1 < k
    BY <1>3
  <2>2. QED
    BY <1>3, <2>1 DEF EndFacts, EndInv
<1>6. c # Cancelled => reader \in {"closing", "ended"} /\ c = code
  BY <1>3 DEF EndFacts, EndInv
<1>7. exitCode' # Cancelled => c # Cancelled
  BY <1>1, CodesAreResults DEF FinalCode
<1>8. \A k \in DOMAIN T : T[k][1] \notin {"finished", "output"}
  BY <1>3, <1>5
<1>9. /\ Q[n] = AutoCloseMsg
      /\ \A k \in DOMAIN T : Q[k] = T[k]
      /\ \A k \in DOMAIN Q : k \in DOMAIN T \/ k = n
  BY <1>3, AppendKeeps, MessageKinds
<1> HIDE DEF T, Q, n
<1>10. \A k \in DOMAIN Q : Q[k][1] \notin {"finished", "output"}
  BY <1>8, <1>9 DEF AutoCloseMsg
<1>11. \A k \in DOMAIN queue' : queue'[k][1] \notin {"finished", "output"}
  BY <1>2, <1>8, <1>10
<1>12. Reported' /\ (exitCode' # Cancelled => reader' \in {"closing", "ended"})
  BY <1>2, <1>4, <1>6, <1>7 DEF Reported
<1>13. EndInv'
  BY <1>2, <1>11, <1>12 DEF EndInv, AutoCloseMsg, FinishedMsg
<1>14. QED
  BY <1>1, <1>4, <1>5, <1>6, <1>7, <1>13

LEMMA EndStep ==
    ASSUME EndFacts, Next PROVE EndInv'
<1> USE DEF object, process, flags
<1>1. CASE User \/ Delete
  <2>1. /\ UNCHANGED <<queue, finished, exitCode, worker, reader>>
        /\ code' = code \/ child = "running"
    BY <1>1, ActingEffect DEF Acting, User, Delete, EndFacts
  <2>2. QED
    BY <2>1, EndStays DEF EndFacts, ThreadInv, Reported
<1>2. CASE OnAutoClose
  <2>1. /\ UNCHANGED <<finished, exitCode, worker, reader>>
        /\ code' = code \/ child = "running"
        /\ queue # <<>> /\ queue' = Tail(queue)
    BY <1>2, ActingEffect DEF Acting, OnAutoClose, EndFacts
  <2>2. QED
    BY <2>1, EndTaken DEF EndFacts, ThreadInv
<1>3. CASE OnOutput
  BY <1>3, EndTaken DEF OnOutput
<1>4. CASE OnFinished
  BY <1>4, EndHandledOnce
<1>5. CASE Destroy
  BY <1>5 DEF Destroy, EndFacts, EndInv, Reported
<1>6. CASE ToolMissing \/ SpawnFailed \/ CreateReaderFailed
  <2>1. /\ worker \in {"start", "thread"} /\ worker' = "done"
        /\ queue' = Posted(queue, FinishedMsg(Cancelled))
        /\ UNCHANGED <<finished, exitCode, reader>>
    BY <1>6 DEF ToolMissing, SpawnFailed, CreateReaderFailed
  <2>2. reader = "none" /\ ~Reported /\ Reported'
    BY <2>1 DEF EndFacts, ThreadInv, Reported
  <2>3. QED
    BY <2>1, <2>2, EndPut, MessageKinds, CodesAreResults
       DEF FinishedMsg, AutoCloseMsg
<1>7. CASE CountFiles \/ Spawn \/ Publish \/ CreateReader \/ KeepHandle
  <2>1. /\ UNCHANGED <<queue, finished, exitCode, code>>
        /\ worker # "done"
        /\ reader' = reader \/ reader = "none"
        /\ worker' = "done" => worker = "handle"
    BY <1>7 DEF CountFiles, Spawn, Publish, CreateReader, KeepHandle, EndFacts,
                ThreadInv
  <2>2. QED
    BY <2>1, EndStays DEF Reported
<1>8. CASE ReaderOutput
  <2>1. Head(pipe) \in Lines
    BY <1>8, TypeParts, TailMoves DEF ReaderOutput, EndFacts
  <2>2. QED
    BY <1>8, <2>1, EndPut, MessageKinds
       DEF ReaderOutput, Reported, Output, FinishedMsg, AutoCloseMsg
<1>9. CASE ReaderFinished
  <2>1. code \in Results
    BY CodesAreResults DEF EndFacts, PlainTypes
  <2>2. QED
    BY <1>9, <2>1, EndPut, MessageKinds
       DEF ReaderFinished, Reported, FinishedMsg, AutoCloseMsg
<1>10. CASE ReaderEnds
  BY <1>10, EndStays DEF ReaderEnds, Reported
<1>11. CASE Join \/ ChildWrites \/ ChildExits \/ Crash
  <2>1. /\ UNCHANGED <<queue, finished, exitCode, worker, reader>>
        /\ code' = code \/ child = "running"
    BY <1>11 DEF Join, ChildWrites, ChildExits, Crash
  <2>2. QED
    BY <2>1, EndStays DEF EndFacts, ThreadInv, Reported
<1>12. QED
  BY <1>1, <1>2, <1>3, <1>4, <1>5, <1>6, <1>7, <1>8, <1>9, <1>10, <1>11
     DEF Next, UserInterface, Worker, Reader

-----------------------------------------------------------------------------
(* What taking the first element and adding a last one do to the elements. *)
LEMMA OccursTail ==
    ASSUME NEW S, NEW q \in Seq(S), q # <<>>, NEW x
    PROVE  Occurs(x, q) <=> Occurs(x, Tail(q)) \/ x = Head(q)
<1> DEFINE T == Tail(q)
<1>1. /\ 1 \in DOMAIN q /\ q[1] = Head(q)
      /\ \A k \in DOMAIN T : k + 1 \in DOMAIN q /\ T[k] = q[k + 1]
      /\ \A k \in DOMAIN q : k = 1 \/ (k - 1 \in DOMAIN T /\ T[k - 1] = q[k])
  BY TailMoves
<1> HIDE DEF T
<1>2. (\E i \in DOMAIN T : T[i] = x) => \E i \in DOMAIN q : q[i] = x
  BY <1>1
<1>3. (\E i \in DOMAIN q : q[i] = x) => x = Head(q) \/ \E i \in DOMAIN T : T[i] = x
  BY <1>1
<1>4. QED
  BY <1>1, <1>2, <1>3 DEF Occurs, T

LEMMA OccursAppend ==
    ASSUME NEW S, NEW q \in Seq(S), NEW e \in S, NEW x
    PROVE  Occurs(x, Append(q, e)) <=> Occurs(x, q) \/ x = e
  BY AppendKeeps DEF Occurs

(* A step that moves no output keeps the account of the lines.             *)
LEMMA LinesStay ==
    ASSUME LineInv, UNCHANGED <<seen, wrote, pipe>>, window' => window,
           \A l \in Lines : Queued(l)' => Queued(l),
           window' => \A l \in Lines : Queued(l) => Queued(l)',
           wrote \subseteq Lines
    PROVE  LineInv'
<1>1. \A l : InPipe(l)' <=> InPipe(l)
  BY DEF InPipe, Occurs
<1>2. Lines' = Lines
  BY DEF Lines
<1>3. QED
  BY <1>1, <1>2 DEF LineInv

LEMMA LineStep ==
    ASSUME EndFacts, WindowInv, LineInv, Next PROVE LineInv'
<1> USE DEF object, process, flags
<1>0. /\ queue \in Seq(Messages) /\ pipe \in Seq(Lines) /\ wrote \subseteq Lines
      /\ window \in BOOLEAN /\ seen \subseteq Lines
  BY DEF EndFacts, TypeOK
<1>1. ASSUME UNCHANGED <<seen, wrote, pipe, queue, window>> PROVE LineInv'
  BY <1>0, <1>1, LinesStay DEF Queued, Occurs, Output
<1>2. ASSUME NEW m \in Messages, m[1] # "output", queue' = Posted(queue, m),
             UNCHANGED <<seen, wrote, pipe, window>>
      PROVE  LineInv'
  <2>1. \A l \in Lines : Queued(l)' <=> Occurs(Output(l), queue')
    BY DEF Queued, Output, Occurs
  <2>2. \A l \in Lines : Queued(l)' <=> Queued(l)
    BY <1>0, <1>2, <2>1, OccursAppend, MessageKinds DEF Queued, Posted
  <2>3. QED
    BY <1>0, <1>2, <2>2, LinesStay
<1>3. ASSUME queue # <<>>, queue' \in {Tail(queue), Append(Tail(queue), AutoCloseMsg)},
             Head(queue)[1] # "output", UNCHANGED <<seen, wrote, pipe, window>>
      PROVE  LineInv'
  <2>1. \A l \in Lines : Queued(l)' <=> Occurs(Output(l), queue')
    BY DEF Queued, Output, Occurs
  <2>2. Tail(queue) \in Seq(Messages)
    BY <1>0, <1>3, TailMoves
  <2>3. \A l \in Lines : Queued(l) <=> Occurs(Output(l), Tail(queue))
    BY <1>0, <1>3, OccursTail, MessageKinds DEF Queued
  <2>4. \A l \in Lines :
          Occurs(Output(l), Append(Tail(queue), AutoCloseMsg)) <=>
            Occurs(Output(l), Tail(queue))
    BY <2>2, OccursAppend, MessageKinds
  <2>5. QED
    BY <1>0, <1>3, <2>1, <2>3, <2>4, LinesStay
<1>4. CASE User \/ Delete
  BY <1>1, <1>4, ActingEffect DEF Acting, User, Delete, EndFacts
<1>5. CASE OnAutoClose
  BY <1>3, <1>5, ActingEffect, MessageKinds DEF Acting, OnAutoClose, EndFacts
<1>6. CASE OnOutput
  <2>1. PICK l \in Lines :
          /\ Head(queue) = Output(l) /\ seen' = seen \cup {l}
          /\ queue # <<>> /\ queue' = Tail(queue)
          /\ UNCHANGED <<wrote, pipe, window>>
    BY <1>6 DEF OnOutput
  <2>2. \A k \in Lines : Queued(k) <=> Queued(k)' \/ k = l
    <3>1. \A k : Queued(k)' <=> Occurs(Output(k), Tail(queue))
      BY <2>1 DEF Queued, Output, Occurs
    <3>2. \A k : Queued(k) <=> Occurs(Output(k), Tail(queue)) \/ Output(k) = Output(l)
      BY <1>0, <2>1, OccursTail DEF Queued
    <3>3. QED
      BY <3>1, <3>2, MessageKinds
  <2>3. \A k : InPipe(k)' <=> InPipe(k)
    BY <2>1 DEF InPipe, Occurs
  <2>4. Lines' = Lines
    BY DEF Lines
  <2>5. QED
    BY <1>0, <2>1, <2>2, <2>3, <2>4 DEF LineInv
<1>7. CASE OnFinished
  BY <1>3, <1>7, MessageKinds DEF OnFinished
<1>8. CASE Destroy
  <2>1. /\ queue' = <<>> /\ ~window' /\ UNCHANGED <<seen, wrote, pipe>>
    BY <1>8 DEF Destroy
  <2>2. \A l : ~Queued(l)'
    BY <2>1 DEF Queued, Occurs
  <2>3. QED
    BY <1>0, <2>1, <2>2, LinesStay
<1>9. CASE ToolMissing \/ SpawnFailed \/ CreateReaderFailed
  BY <1>2, <1>9, MessageKinds, CodesAreResults
     DEF ToolMissing, SpawnFailed, CreateReaderFailed
<1>10. CASE ReaderFinished
  <2>1. code \in Results
    BY CodesAreResults DEF EndFacts, PlainTypes
  <2>2. QED
    BY <1>2, <1>10, <2>1, MessageKinds DEF ReaderFinished
<1>11. CASE ReaderOutput
  <2>1. /\ pipe # <<>> /\ pipe' = Tail(pipe)
        /\ queue' = Posted(queue, Output(Head(pipe)))
        /\ UNCHANGED <<seen, wrote, window>>
    BY <1>11 DEF ReaderOutput
  <2>2. Head(pipe) \in Lines
    BY <1>0, <2>1, TailMoves
  <2>3. \A l : InPipe(l) <=> InPipe(l)' \/ l = Head(pipe)
    BY <1>0, <2>1, OccursTail DEF InPipe
  <2>4. \A l \in Lines : Queued(l)' <=> Occurs(Output(l), queue')
    BY DEF Queued, Output, Occurs
  <2>5. ~window => \A l \in Lines : ~Queued(l)'
    BY <2>1, <2>4 DEF Posted, Occurs, WindowInv
  <2>6. window => \A l \in Lines : Queued(l)' <=> Queued(l) \/ l = Head(pipe)
    BY <1>0, <2>1, <2>2, <2>4, OccursAppend, MessageKinds DEF Posted, Queued
  <2>7. Lines' = Lines
    BY DEF Lines
  <2>8. QED
    BY <1>0, <2>1, <2>2, <2>3, <2>5, <2>6, <2>7 DEF LineInv
<1>12. CASE ChildWrites
  <2>1. PICK l \in Lines :
          /\ pipe' = Append(pipe, l) /\ wrote' = wrote \cup {l}
          /\ UNCHANGED <<seen, queue, window>>
    BY <1>12 DEF ChildWrites
  <2>2. \A k : InPipe(k)' <=> InPipe(k) \/ k = l
    BY <1>0, <2>1, OccursAppend DEF InPipe
  <2>3. \A k : Queued(k)' <=> Queued(k)
    BY <2>1 DEF Queued, Occurs, Output
  <2>4. Lines' = Lines
    BY DEF Lines
  <2>5. QED
    BY <1>0, <2>1, <2>2, <2>3, <2>4 DEF LineInv
<1>13. CASE \/ Join \/ CountFiles \/ Spawn \/ Publish \/ CreateReader \/ KeepHandle
            \/ ReaderEnds \/ ChildExits \/ Crash
  BY <1>1, <1>13
     DEF Join, CountFiles, Spawn, Publish, CreateReader, KeepHandle, ReaderEnds,
         ChildExits, Crash
<1>14. QED
  BY <1>4, <1>5, <1>6, <1>7, <1>8, <1>9, <1>10, <1>11, <1>12, <1>13
     DEF Next, UserInterface, Worker, Reader

(* Every line is handled when the end is.                                  *)
LEMMA HandledStep ==
    ASSUME EndFacts, WindowInv, LineInv, OutputHandled, Next
    PROVE  OutputHandled'
<1> USE DEF object, process, flags
<1>1. CASE OnFinished
  <2>1. SUFFICES ASSUME exitCode' # Cancelled PROVE wrote \subseteq seen
    BY <1>1 DEF OnFinished, OutputHandled
  <2>2. reader \in {"closing", "ended"} /\ \A l \in Lines : ~Queued(l)
    BY <1>1, <2>1, EndHandledOnce, MessageKinds DEF Queued, Occurs
  <2>3. window /\ \A l : ~InPipe(l)
    BY <1>1, <2>2 DEF OnFinished, WindowInv, EndFacts, ThreadInv, InPipe, Occurs
  <2>4. QED
    BY <2>2, <2>3 DEF LineInv, EndFacts, PlainTypes
<1>2. CASE OnOutput
  BY <1>2 DEF OnOutput, OutputHandled
<1>3. CASE ChildWrites
  <2>1. exitCode = Cancelled
    BY <1>3 DEF ChildWrites, EndFacts, EndInv, ThreadInv
  <2>2. QED
    BY <1>3, <2>1 DEF ChildWrites, OutputHandled
<1>4. CASE Acting
  BY <1>4, ActingEffect DEF OutputHandled, EndFacts
<1>5. CASE \/ Join \/ Destroy \/ Worker \/ Reader \/ ChildExits \/ Crash
  BY <1>5
     DEF Join, Destroy, Worker, CountFiles, ToolMissing, Spawn, SpawnFailed,
         Publish, CreateReader, CreateReaderFailed, KeepHandle, Reader,
         ReaderOutput, ReaderFinished, ReaderEnds, ChildExits, Crash,
         OutputHandled
<1>6. QED
  BY <1>1, <1>2, <1>3, <1>4, <1>5 DEF Next, Acting, UserInterface

-----------------------------------------------------------------------------
(* A child that has ended stays as it is.                                  *)
LEMMA EndedStays ==
    ASSUME PlainTypes, ThreadInv, Next, child \in {"exited", "killed"}
    PROVE  UNCHANGED <<child, code, wrote, mode>>
<1> USE DEF object, process, flags
<1>1. CASE Acting
  BY <1>1, ActingEffect
<1>2. CASE Spawn
  BY <1>2 DEF Spawn, ThreadInv
<1>3. CASE CreateReaderFailed
  BY <1>3 DEF CreateReaderFailed, Terminate
<1>4. CASE \/ CountFiles \/ ToolMissing \/ SpawnFailed \/ Publish \/ CreateReader
           \/ KeepHandle \/ Reader \/ ChildWrites \/ ChildExits
  BY <1>4
     DEF CountFiles, ToolMissing, SpawnFailed, Publish, CreateReader, KeepHandle,
         Reader, ReaderOutput, ReaderFinished, ReaderEnds, ChildWrites, ChildExits
<1>5. CASE Join \/ OnOutput \/ OnFinished \/ Destroy \/ Crash
  BY <1>5 DEF Join, OnOutput, OnFinished, Destroy, Crash
<1>6. QED
  BY <1>1, <1>2, <1>3, <1>4, <1>5 DEF Next, Acting, UserInterface, Worker

(* Who kills a child, and what the dialog then knows.                      *)
KilledInv == child = "killed" /\ window =>
               cancelled \/ (worker = "done" /\ reader = "none")

LEMMA KilledStep ==
    ASSUME PlainTypes, ThreadInv, WindowInv, KilledInv, Next PROVE KilledInv'
<1> USE DEF object, process, flags, KilledInv
<1>1. CASE Acting
  BY <1>1, ActingEffect DEF WindowInv
<1>2. CASE CreateReaderFailed
  BY <1>2 DEF CreateReaderFailed, ThreadInv
<1>3. CASE Spawn
  BY <1>3 DEF Spawn
<1>4. CASE \/ CountFiles \/ ToolMissing \/ SpawnFailed \/ Publish \/ CreateReader
           \/ KeepHandle
  BY <1>4
     DEF CountFiles, ToolMissing, SpawnFailed, Publish, CreateReader, KeepHandle
<1>5. CASE Reader \/ ChildWrites \/ ChildExits
  BY <1>5 DEF Reader, ReaderOutput, ReaderFinished, ReaderEnds, ChildWrites,
              ChildExits
<1>6. CASE Join \/ OnOutput \/ OnFinished \/ Destroy \/ Crash
  BY <1>6 DEF Join, OnOutput, OnFinished, Destroy, Crash, PlainTypes
<1>7. QED
  BY <1>1, <1>2, <1>3, <1>4, <1>5, <1>6 DEF Next, Acting, UserInterface, Worker

(* An exit code that is kept without having cancelled is the child's.      *)
IsTrue(c) == \/ c = code
             \/ /\ c = NoChanges
                /\ code = 0
                /\ mode = "update" /\ wrote = {"uptodate"}

LEMMA CodeParts ==
    CodeInv <=> /\ KilledInv
                /\ exitCode # Cancelled /\ ~cancelled =>
                     child = "exited" /\ IsTrue(exitCode)
  BY DEF CodeInv, KilledInv, IsTrue

LEMMA ExitCodeStays ==
    ASSUME PlainTypes, Next, ~OnFinished PROVE UNCHANGED exitCode
<1>1. CASE Acting
  BY <1>1, ActingEffect
<1>2. QED
  BY <1>1
     DEF Next, Acting, object, UserInterface, Join, OnOutput, Destroy, Worker,
         CountFiles, ToolMissing, Spawn, SpawnFailed, Publish, CreateReader,
         CreateReaderFailed, KeepHandle, Reader, ReaderOutput, ReaderFinished,
         ReaderEnds, ChildWrites, ChildExits, Crash

LEMMA CancelledStays ==
    ASSUME PlainTypes, Next, cancelled PROVE cancelled'
<1>1. CASE Acting
  BY <1>1, ActingEffect
<1>2. QED
  BY <1>1
     DEF Next, Acting, object, UserInterface, Join, OnOutput, OnFinished, Destroy,
         Worker, CountFiles, ToolMissing, Spawn, SpawnFailed, Publish,
         CreateReader, CreateReaderFailed, KeepHandle, Reader, ReaderOutput,
         ReaderFinished, ReaderEnds, ChildWrites, ChildExits, Crash

LEMMA CodeStep ==
    ASSUME EndFacts, WindowInv, LineInv, CodeInv, OutputHandled, Next
    PROVE  CodeInv'
<1>1. KilledInv'
  BY KilledStep, CodeParts DEF EndFacts
<1>2. ASSUME exitCode' # Cancelled, ~cancelled', ~OnFinished
      PROVE  child' = "exited" /\ IsTrue(exitCode)'
  <2>1. exitCode' = exitCode /\ ~cancelled
    BY <1>2, ExitCodeStays, CancelledStays DEF EndFacts
  <2>2. child = "exited" /\ IsTrue(exitCode)
    BY <1>2, <2>1, CodeParts
  <2>3. UNCHANGED <<child, code, wrote, mode>>
    BY <2>2, EndedStays DEF EndFacts
  <2>4. QED
    BY <2>1, <2>2, <2>3 DEF IsTrue
<1>3. ASSUME exitCode' # Cancelled, ~cancelled', OnFinished
      PROVE  child' = "exited" /\ IsTrue(exitCode)'
  <2>1. /\ finished' = TRUE
        /\ UNCHANGED <<mode, cancelled, seen, child, code, wrote, window>>
        /\ window
    BY <1>3 DEF OnFinished, process, WindowInv
  <2>2. reader \in {"closing", "ended"} /\ exitCode' = FinalCode(code)
    BY <1>3, EndHandledOnce
  <2>3. child = "exited"
    BY <1>3, <2>1, <2>2 DEF EndFacts, ThreadInv, CodeInv
  <2>4. wrote = seen
    BY <1>3, <2>1, HandledStep DEF OutputHandled, LineInv
  <2>5. QED
    BY <2>1, <2>2, <2>3, <2>4 DEF FinalCode, IsTrue
<1>4. QED
  <2>1. (exitCode # Cancelled /\ ~cancelled =>
            child = "exited" /\ IsTrue(exitCode))'
    BY <1>2, <1>3 DEF Cancelled
  <2>2. QED
    BY <1>1, <2>1 DEF CodeInv, KilledInv, IsTrue, Cancelled, NoChanges

(* What is returned was kept, or was returned before.                      *)
LEMMA ResultStep ==
    ASSUME EndFacts, CodeInv, ResultIsTrue, Next PROVE ResultIsTrue'
<1> USE DEF object, process, flags
<1>1. result' = result \/ result' = Cancelled \/ (Acting /\ finished /\ result' = Outcome)
  <2>1. CASE Acting
    BY <2>1, ActingEffect DEF EndFacts
  <2>2. QED
    BY <2>1
       DEF Next, Acting, UserInterface, Join, OnOutput, OnFinished, Destroy,
           Worker, CountFiles, ToolMissing, Spawn, SpawnFailed, Publish,
           CreateReader, CreateReaderFailed, KeepHandle, Reader, ReaderOutput,
           ReaderFinished, ReaderEnds, ChildWrites, ChildExits, Crash
<1>2. SUFFICES ASSUME result' \in Nat PROVE child' = "exited" /\ IsTrue(result)'
  BY DEF ResultIsTrue, IsTrue, NoChanges
<1>3. result' # Cancelled
  BY <1>2, CodesAreResults
<1>4. child = "exited" /\ IsTrue(result')
  <2>1. CASE result' = result
    BY <1>2, <2>1 DEF ResultIsTrue, IsTrue
  <2>2. CASE finished /\ result' = Outcome
    <3>1. ~cancelled /\ result' = exitCode
      BY <1>3, <2>2 DEF Outcome
    <3>2. QED
      BY <1>3, <3>1, CodeParts
  <2>3. QED
    BY <1>1, <1>3, <2>1, <2>2
<1>5. UNCHANGED <<child, code, wrote, mode>>
  BY <1>4, EndedStays DEF EndFacts
<1>6. QED
  BY <1>4, <1>5 DEF IsTrue

-----------------------------------------------------------------------------
(* The log has no two equal marks.                                         *)
Distinct(q) == \A i, j \in DOMAIN q : q[i] = q[j] => i = j

LEMMA DistinctAppend ==
    ASSUME NEW S, NEW q \in Seq(S), NEW e \in S, Distinct(q), ~Occurs(e, q)
    PROVE  Distinct(Append(q, e))
<1> DEFINE Q == Append(q, e)
<1>1. /\ Q[Len(q) + 1] = e
      /\ \A k \in DOMAIN q : k \in DOMAIN Q /\ Q[k] = q[k]
      /\ \A k \in DOMAIN Q : k \in DOMAIN q \/ k = Len(q) + 1
  BY AppendKeeps
<1> HIDE DEF Q
<1>2. \A i, j \in DOMAIN Q : Q[i] = Q[j] => i = j
  BY <1>1 DEF Distinct, Occurs
<1>3. QED
  BY <1>2 DEF Distinct, Q

(* The marks of a step, and where it comes from.                           *)
LEMMA MarkStep ==
    ASSUME EndFacts, LogInv, OneFooter, Next PROVE LogInv' /\ OneFooter'
<1> USE DEF object, process, flags
<1>0. log \in Seq(Marks) /\ Distinct(log)
  BY TypeParts DEF EndFacts, OneFooter, Distinct
<1>1. \A m : Logged(m)' <=> Occurs(m, log')
  BY DEF Logged, Occurs
<1>2. ASSUME NEW m \in Marks, log' = Append(log, m), ~Logged(m)
      PROVE  OneFooter' /\ \A k : Logged(k)' <=> Logged(k) \/ k = m
  BY <1>0, <1>1, <1>2, DistinctAppend, OccursAppend DEF Logged, OneFooter, Distinct
<1>3. ASSUME UNCHANGED log PROVE OneFooter' /\ \A k : Logged(k)' <=> Logged(k)
  BY <1>3 DEF Logged, Occurs, OneFooter
<1>4. CASE SpawnFailed
  <2> DEFINE one == Append(log, "started")
  <2>1. /\ log' = log \o <<"started", "failed">>
        /\ worker = "start" /\ worker' = "done" /\ finished' = finished
    BY <1>4 DEF SpawnFailed
  <2>2. log' = Append(one, "failed")
    BY <1>0, <2>1
  <2>3. ~Logged("started") /\ ~Logged("failed")
    BY <2>1 DEF LogInv
  <2>4. /\ one \in Seq(Marks) /\ Distinct(one)
        /\ \A k : Occurs(k, one) <=> Logged(k) \/ k = "started"
    BY <1>0, <2>3, AppendKeeps, DistinctAppend, OccursAppend DEF Logged, Marks
  <2> HIDE DEF one
  <2>5. /\ Distinct(log')
        /\ \A k : Occurs(k, log') <=> Occurs(k, one) \/ k = "failed"
    BY <2>2, <2>3, <2>4, DistinctAppend, OccursAppend DEF Marks
  <2>6. QED
    BY <1>1, <2>1, <2>4, <2>5 DEF LogInv, OneFooter, Distinct
<1>5. CASE Spawn
  BY <1>2, <1>5 DEF Spawn, LogInv, Marks
<1>6. CASE CreateReaderFailed
  BY <1>2, <1>6 DEF CreateReaderFailed, LogInv, Marks
<1>7. CASE OnFinished
  <2>1. ~finished
    BY <1>7, EndHandledOnce
  <2>2. finished' /\ worker' = worker /\ log' = Append(log, "completed")
    BY <1>7 DEF OnFinished
  <2>3. QED
    BY <1>2, <2>1, <2>2 DEF LogInv, Marks
<1>8. CASE Acting
  BY <1>3, <1>8, ActingEffect DEF EndFacts, LogInv
<1>9. CASE CountFiles \/ ToolMissing \/ Publish \/ CreateReader \/ KeepHandle
  BY <1>3, <1>9
     DEF CountFiles, ToolMissing, Publish, CreateReader, KeepHandle, LogInv
<1>10. CASE \/ Join \/ OnOutput \/ Destroy \/ Reader \/ ChildWrites \/ ChildExits
            \/ Crash
  BY <1>3, <1>10
     DEF Join, OnOutput, Destroy, Reader, ReaderOutput, ReaderFinished, ReaderEnds,
         ChildWrites, ChildExits, Crash, LogInv
<1>11. QED
  BY <1>4, <1>5, <1>6, <1>7, <1>8, <1>9, <1>10
     DEF Next, Acting, UserInterface, Worker

-----------------------------------------------------------------------------
(* A patient user stops the child only once the worker thread has ended.   *)
Patient == PatientInv /\ PatientIsSafe

LEMMA PatientActs ==
    ASSUME EndFacts, Patient, Acting, ~hasty'
    PROVE  /\ ~hasty
           /\ worker \in {"none", "done"}
           /\ ctx' = ctx
           /\ ui' \in {"join", "waiting", "member", "gone"} => child' # "running"
<1> USE DEF EndFacts, PlainTypes, ThreadInv, Patient, PatientInv, PatientIsSafe,
            PatientIsStopped, PatientKeepsContext
<1>1. ~hasty /\ worker \in {"none", "done"}
  <2>1. CASE User
    BY <2>1 DEF User
  <2>2. CASE OnAutoClose
    <3>1. ~hasty /\ finished
      BY <2>2, TailMoves DEF OnAutoClose, EndInv, flags, TypeOK
    <3>2. QED
      BY <3>1
  <2>3. CASE Delete
    BY <2>3 DEF Delete, WaitForWorker
  <2>4. QED
    BY <2>1, <2>2, <2>3 DEF Acting
<1>2. ctx' = ctx
  BY <1>1, ActingEffect
<1>3. ctx \/ child # "running"
  BY <1>1
<1>4. ASSUME ui' \in {"join", "waiting", "member", "gone"} PROVE child' # "running"
  <2>1. CASE User \/ OnAutoClose
    <3>1. Act
      BY <2>1 DEF User, OnAutoClose, Act
    <3>2. ~finished
      BY <1>4, <3>1, ActEffect
    <3>3. PICK next \in {"open", "ended"} : Stop(next)
      BY <3>1, <3>2, ActEffect
    <3>4. QED
      BY <1>4, <3>3, StopEffect
  <2>2. CASE \/ ui = "deleting" /\ Stop("waiting")
             \/ ui = "member" /\ Stop("gone")
    BY <1>3, <2>2, StopEffect
  <2>3. CASE ui = "waiting" /\ UNCHANGED process
    BY <1>1, <2>3 DEF process
  <2>4. QED
    BY <2>1, <2>2, <2>3 DEF Acting, Delete
<1>5. QED
  BY <1>1, <1>2, <1>4

LEMMA PatientStep ==
    ASSUME EndFacts, Patient, Next PROVE Patient'
<1> SUFFICES ASSUME ~hasty' PROVE Patient'
  BY DEF Patient, PatientInv, PatientIsSafe, PatientIsStopped, PatientKeepsContext
<1> USE DEF EndFacts, PlainTypes, ThreadInv, Patient, PatientInv, PatientIsSafe,
            PatientIsStopped, PatientKeepsContext, object, process, flags
<1>1. CASE Acting
  <2>1. /\ ~hasty /\ worker \in {"none", "done"} /\ ctx' = ctx
        /\ ui' \in {"join", "waiting", "member", "gone"} => child' # "running"
    BY <1>1, PatientActs
  <2>2. /\ UNCHANGED <<finished, worker, hthread, reader>>
        /\ child' = child \/ child' = "killed"
    BY <1>1, ActingEffect
  <2>3. QED
    BY <2>1, <2>2
<1>2. CASE OnFinished
  <2>1. /\ UNCHANGED <<ui, worker, ctx, reader, child>>
        /\ ~hasty /\ (hworker => worker = "done")
    BY <1>2 DEF OnFinished, WaitForWorker
  <2>2. Reported /\ ~finished
    BY <1>2, EndHandledOnce
  <2>3. worker = "done"
    BY <2>1, <2>2 DEF Reported
  <2>4. QED
    BY <2>1, <2>3
<1>3. CASE Join
  <2>1. /\ ui = "join" /\ reader = "ended" /\ ~hasty
        /\ UNCHANGED <<finished, worker, reader, child>>
    BY <1>3 DEF Join
  <2>2. worker \in {"none", "done"} /\ child # "running"
    BY <2>1
  <2>3. QED
    BY <2>1, <2>2
<1>4. CASE Spawn \/ Publish
  BY <1>4 DEF Spawn, Publish
<1>5. CASE CreateReader
  BY <1>5 DEF CreateReader
<1>6. CASE CreateReaderFailed
  BY <1>6 DEF CreateReaderFailed, Terminate
<1>7. CASE KeepHandle
  BY <1>7 DEF KeepHandle
<1>8. CASE CountFiles \/ ToolMissing \/ SpawnFailed
  BY <1>8 DEF CountFiles, ToolMissing, SpawnFailed
<1>9. CASE Destroy
  BY <1>9 DEF Destroy
<1>10. CASE OnOutput \/ Crash
  BY <1>10 DEF OnOutput, Crash
<1>11. CASE Reader
  BY <1>11 DEF Reader, ReaderOutput, ReaderFinished, ReaderEnds
<1>12. CASE ChildWrites \/ ChildExits
  BY <1>12 DEF ChildWrites, ChildExits
<1>13. QED
  BY <1>1, <1>2, <1>3, <1>4, <1>5, <1>6, <1>7, <1>8, <1>9, <1>10, <1>11, <1>12
     DEF Next, Acting, UserInterface, Worker

-----------------------------------------------------------------------------
LEMMA InvInit ==
    ASSUME Init PROVE IInv
<1> USE DEF Init
<1>1. TypeOK
  <2>1. PlainTypes
    <3>1. /\ window \in BOOLEAN /\ finished \in BOOLEAN /\ cancelled \in BOOLEAN
          /\ hworker \in BOOLEAN /\ ctx \in BOOLEAN /\ hthread \in BOOLEAN
          /\ hasty \in BOOLEAN /\ crashed \in BOOLEAN
      OBVIOUS
    <3>2. exitCode \in Results /\ result \in Results \cup {NoResult}
      BY CodesAreResults
    <3>3. QED
      BY <3>1, <3>2 DEF PlainTypes
  <2>2. QED
    BY <2>1, TypeParts
<1>2. ThreadInv /\ WindowInv
  BY DEF ThreadInv, WindowInv
<1>3. EndInv /\ LineInv /\ LogInv
  BY DEF EndInv, LineInv, LogInv, Queued, InPipe, Logged, Occurs
<1>4. CodeInv /\ OutputHandled
  BY DEF CodeInv, OutputHandled
<1>5. ResultIsTrue
  BY CodesAreResults DEF ResultIsTrue
<1>6. OneFooter
  BY DEF OneFooter
<1>7. PatientInv /\ PatientIsSafe
  BY DEF PatientInv, PatientIsSafe, PatientIsStopped, PatientKeepsContext
<1>8. QED
  BY <1>1, <1>2, <1>3, <1>4, <1>5, <1>6, <1>7 DEF IInv

LEMMA InvStep ==
    ASSUME IInv, [Next]_vars PROVE IInv'
<1>1. EndFacts /\ Patient
  BY TypeParts DEF IInv, EndFacts, Patient
<1>2. CASE Next
  <2>1. TypeOK' /\ ThreadInv' /\ WindowInv' /\ EndInv'
    BY <1>1, <1>2, TypeStep, ThreadStep, WindowStep, EndStep DEF IInv, EndFacts
  <2>2. LineInv' /\ OutputHandled' /\ CodeInv' /\ ResultIsTrue'
    BY <1>1, <1>2, LineStep, HandledStep, CodeStep, ResultStep DEF IInv
  <2>3. LogInv' /\ OneFooter' /\ Patient'
    BY <1>1, <1>2, MarkStep, PatientStep DEF IInv
  <2>4. QED
    BY <2>1, <2>2, <2>3 DEF IInv, Patient
<1>3. CASE UNCHANGED vars
  <2> USE <1>3 DEF vars
  <2>1. TypeOK'
    BY <1>3, TypeStep DEF IInv
  <2>2. ThreadInv' /\ WindowInv'
    BY DEF IInv, ThreadInv, WindowInv
  <2>3. EndInv'
    BY <1>1, EndStays DEF Reported
  <2>4. LineInv'
    BY <1>1, LinesStay DEF IInv, EndFacts, TypeOK, Queued, Occurs, Output
  <2>5. CodeInv' /\ OutputHandled' /\ ResultIsTrue'
    BY DEF IInv, CodeInv, OutputHandled, ResultIsTrue
  <2>6. LogInv' /\ OneFooter'
    BY DEF IInv, LogInv, Logged, Occurs, OneFooter
  <2>7. PatientInv' /\ PatientIsSafe'
    BY DEF IInv, PatientInv, PatientIsSafe, PatientIsStopped,
           PatientKeepsContext
  <2>8. QED
    BY <2>1, <2>2, <2>3, <2>4, <2>5, <2>6, <2>7 DEF IInv
<1>4. QED
  BY <1>2, <1>3

LEMMA Invariance == Spec => []IInv
  BY InvInit, InvStep, PTL DEF Spec

(* Every variable has its type.                                            *)
THEOREM TypeCorrect == Spec => []TypeOK
<1>1. IInv => TypeOK
  BY DEF IInv
<1>2. QED
  BY <1>1, Invariance, PTL

(* What the dialog keeps, shows, logs and returns is true of its child,    *)
(* whenever the user acts and in whatever order start(), stop() and the    *)
(* reader thread meet: all its output has been counted when its exit code  *)
(* is shown, the code that runDialog returns is the child's own, and       *)
(* onScanFinished runs once.                                               *)
THEOREM DialogSafe == Spec => []DialogInv
<1>1. IInv => DialogInv
  BY DEF IInv, DialogInv
<1>2. QED
  BY <1>1, Invariance, PTL

(* A user who waits for the worker thread is safe from the race of start() *)
(* and stop(): no child outlives the dialog, the reader thread's context   *)
(* is there while it runs, and the object while the worker thread does.    *)
THEOREM PatientSafe == Spec => []PatientIsSafe
<1>1. IInv => PatientIsSafe
  BY DEF IInv
<1>2. QED
  BY <1>1, Invariance, PTL

=============================================================================
