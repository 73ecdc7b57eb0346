--------------------------- MODULE ProcessProofs ----------------------------
(* Proofs about Process, for any set of objects and of handle values.      *)
EXTENDS Process, TLAPS

(* TerminateProcess changes the child a handle value refers to, and only   *)
(* when it runs.                                                           *)
LEMMA TerminateProcessType ==
    ASSUME TypeOK, NEW h, TerminateProcess(h)
    PROVE  /\ child' \in [Procs -> {"none", "running", "exited"}]
           /\ killed' \in [Procs -> BOOLEAN]
           /\ holders' \in [Procs -> SUBSET Procs]
<1>1. CASE UNCHANGED <<child, killed, holders>>
  BY <1>1 DEF TypeOK
<1>2. CASE /\ h \in Handles /\ table[h] # NoProc
           /\ child' = [child EXCEPT ![table[h]] = "exited"]
           /\ killed' = [killed EXCEPT ![table[h]] = TRUE]
           /\ holders' = DropWriteEnds(table[h])
  BY <1>2 DEF TypeOK, DropWriteEnds
<1>3. QED
  BY <1>1, <1>2 DEF TerminateProcess

(* Reading takes one fragment from one stream's pipe.                      *)
LEMMA ReadType ==
    ASSUME TypeOK, NEW p \in Procs, NEW s \in Streams,
           pipe[p][s] > 0, Read(p, s)
    PROVE  /\ pipe' \in [Procs -> [Streams -> 0 .. Cap]]
           /\ held' \in [Procs -> [Streams -> BOOLEAN]]
<1>1. pipe[p] \in [Streams -> 0 .. Cap] /\ held[p] \in [Streams -> BOOLEAN]
  BY DEF TypeOK
<1>2. pipe[p][s] - 1 \in 0 .. Cap
  BY <1>1, ProcessAssumption DEF Read
<1>3. [pipe[p] EXCEPT ![s] = pipe[p][s] - 1] \in [Streams -> 0 .. Cap]
  BY <1>1, <1>2
<1>4. pipe' = [pipe EXCEPT ![p] = [pipe[p] EXCEPT ![s] = pipe[p][s] - 1]]
  BY DEF Read, TypeOK
<1>5. PICK u \in BOOLEAN : held' = [held EXCEPT ![p] = [held[p] EXCEPT ![s] = u]]
  BY DEF Read, TypeOK
<1>6. [held[p] EXCEPT ![s] = u] \in [Streams -> BOOLEAN]
  BY <1>1
<1>7. pipe' \in [Procs -> [Streams -> 0 .. Cap]]
  BY <1>3, <1>4 DEF TypeOK
<1>8. held' \in [Procs -> [Streams -> BOOLEAN]]
  BY <1>5, <1>6 DEF TypeOK
<1>9. QED
  BY <1>7, <1>8

(* A read leaves every other pipe and line buffer alone.                   *)
LEMMA ReadFrame ==
    ASSUME TypeOK, NEW p \in Procs, NEW s \in Streams, Read(p, s)
    PROVE  /\ \A q \in Procs \ {p} : pipe'[q] = pipe[q] /\ held'[q] = held[q]
           /\ \A t \in Streams \ {s} : pipe'[p][t] = pipe[p][t]
<1>1. pipe' = [pipe EXCEPT ![p] = [pipe[p] EXCEPT ![s] = pipe[p][s] - 1]]
  BY DEF Read, TypeOK
<1>2. \E u \in BOOLEAN : held' = [held EXCEPT ![p] = [held[p] EXCEPT ![s] = u]]
  BY DEF Read, TypeOK
<1>3. pipe[p] \in [Streams -> 0 .. Cap]
  BY DEF TypeOK
<1>4. QED
  BY <1>1, <1>2, <1>3 DEF TypeOK

(* Every step keeps every variable in its type.                            *)
LEMMA TypeStep ==
    ASSUME TypeOK, [Next]_vars PROVE TypeOK'
<1> USE ProcessAssumption DEF TypeOK, CallPoints, ReaderPoints, Streams,
    kernel, owner, thread
<1>1. ASSUME NEW p \in Procs, StartCall(p) PROVE TypeOK'
  BY <1>1 DEF StartCall
<1>2. ASSUME NEW p \in Procs, StopCall(p) PROVE TypeOK'
  BY <1>2 DEF StopCall
<1>3. ASSUME NEW p \in Procs, StopFlag(p) PROVE TypeOK'
  BY <1>3 DEF StopFlag
<1>4. ASSUME NEW p \in Procs, StopKill(p) PROVE TypeOK'
  BY <1>4, TerminateProcessType DEF StopKill
<1>5. ASSUME NEW p \in Procs, StopJoin(p) PROVE TypeOK'
  BY <1>5 DEF StopJoin
<1>6. ASSUME NEW p \in Procs, CreatePipes(p) PROVE TypeOK'
  <2>1. None \in [Streams -> 0 .. Cap]
    BY DEF None
  <2>2. CASE /\ wopen' = [wopen EXCEPT ![p] = TRUE]
             /\ pipe' = [pipe EXCEPT ![p] = None]
             /\ call' = [call EXCEPT ![p] = "spawn"]
    <3>1. pipe' \in [Procs -> [Streams -> 0 .. Cap]]
      BY <2>1, <2>2
    <3>2. QED
      BY <1>6, <2>2, <3>1 DEF CreatePipes
  <2>3. CASE call' = [call EXCEPT ![p] = "idle"] /\ UNCHANGED <<wopen, pipe>>
    BY <1>6, <2>3 DEF CreatePipes
  <2>4. QED
    BY <1>6, <2>2, <2>3 DEF CreatePipes
<1>7. ASSUME NEW p \in Procs, SpawnChild(p) PROVE TypeOK'
  BY <1>7 DEF SpawnChild
<1>8. ASSUME NEW p \in Procs, SpawnFailed(p) PROVE TypeOK'
  BY <1>8 DEF SpawnFailed
<1>9. ASSUME NEW p \in Procs, CloseWriteEnds(p) PROVE TypeOK'
  BY <1>9 DEF CloseWriteEnds
<1>10. ASSUME NEW p \in Procs, CreateReader(p) PROVE TypeOK'
  BY <1>10 DEF CreateReader, Nothing
<1>11. ASSUME NEW p \in Procs, CreateReaderFailed(p) PROVE TypeOK'
  BY <1>11, TerminateProcessType DEF CreateReaderFailed
<1>12. ASSUME NEW p \in Procs, ReaderTop(p) PROVE TypeOK'
  BY <1>12 DEF ReaderTop, Goto
<1>13. ASSUME NEW p \in Procs, ReaderPoll(p) PROVE TypeOK'
  <2>1. CASE \E s \in Streams :
                pipe[p][s] > 0 /\ Read(p, s) /\ UNCHANGED reader
    BY <1>13, <2>1, ReadType DEF ReaderPoll
  <2>2. CASE UNCHANGED <<pipe, held>>
    <3>1. \/ UNCHANGED reader
          \/ reader' = [reader EXCEPT ![p] = "err"]
          \/ reader' = [reader EXCEPT ![p] = "wait"]
      BY <1>13 DEF ReaderPoll, Goto
    <3>2. reader' \in [Procs -> ReaderPoints]
      BY <3>1
    <3>3. QED
      BY <1>13, <2>2, <3>2 DEF ReaderPoll
  <2>3. QED
    BY <1>13, <2>1, <2>2 DEF ReaderPoll, Available
<1>14. ASSUME NEW p \in Procs, ReaderDrain(p) PROVE TypeOK'
  <2>1. CASE \E s \in Streams :
                pipe[p][s] > 0 /\ Read(p, s) /\ UNCHANGED reader
    BY <1>14, <2>1, ReadType DEF ReaderDrain
  <2>2. CASE UNCHANGED <<pipe, held>>
    <3>1. \/ UNCHANGED reader
          \/ reader' = [reader EXCEPT ![p] = "drainErr"]
          \/ reader' = [reader EXCEPT ![p] = "flush"]
      BY <1>14 DEF ReaderDrain, Goto
    <3>2. reader' \in [Procs -> ReaderPoints]
      BY <3>1
    <3>3. QED
      BY <1>14, <2>2, <3>2 DEF ReaderDrain
  <2>3. \/ pipe[p]["out"] > 0 /\ Read(p, "out") /\ UNCHANGED reader
        \/ pipe[p]["err"] > 0 /\ Read(p, "err") /\ UNCHANGED reader
        \/ UNCHANGED <<pipe, held>>
    BY <1>14, Zenon DEF ReaderDrain
  <2>4. "out" \in Streams /\ "err" \in Streams
    OBVIOUS
  <2>5. QED
    BY <2>1, <2>2, <2>3, <2>4, Zenon
<1>15. ASSUME NEW p \in Procs, ReaderFlush(p) PROVE TypeOK'
  BY <1>15 DEF ReaderFlush, Goto, Nothing
<1>16. ASSUME NEW p \in Procs, ReaderReport(p) PROVE TypeOK'
  BY <1>16 DEF ReaderReport, Goto
<1>17. ASSUME NEW p \in Procs, ReaderClose(p) PROVE TypeOK'
  BY <1>17 DEF ReaderClose, Goto
<1>18. ASSUME NEW p \in Procs, ChildWrite(p) PROVE TypeOK'
  BY <1>18 DEF ChildWrite
<1>19. ASSUME NEW p \in Procs, ChildExit(p) PROVE TypeOK'
  BY <1>19 DEF ChildExit, DropWriteEnds
<1>22. ASSUME NEW p \in Procs, ReaderWait(p) PROVE TypeOK'
  BY <1>22 DEF ReaderWait, Goto
<1>20. CASE UNCHANGED vars
  BY <1>20 DEF vars
<1>21. QED
  BY <1>1, <1>2, <1>3, <1>4, <1>5, <1>6, <1>7, <1>8, <1>9, <1>10, <1>11,
     <1>12, <1>13, <1>14, <1>15, <1>16, <1>17, <1>18, <1>19, <1>20, <1>22
     DEF Next, Caller, Reader

(* The strengthening is inductive.                                         *)
LEMMA InvStep ==
    ASSUME IInv, [Next]_vars PROVE IInv'
<1> USE ProcessAssumption DEF IInv, ReaderHasContext, CallInv, PipeInv,
    HandleInv, ToldInv, NoOrphan, Active, Finished, ReaderPoints, Streams, kernel, owner, thread
<1>0. TypeOK /\ TypeOK'
  BY TypeStep
<1>1. ASSUME NEW p \in Procs, StartCall(p) PROVE IInv'
  BY <1>0, <1>1 DEF TypeOK, StartCall
<1>2. ASSUME NEW p \in Procs, StopCall(p) PROVE IInv'
  BY <1>0, <1>2 DEF TypeOK, StopCall
<1>3. ASSUME NEW p \in Procs, StopFlag(p) PROVE IInv'
  BY <1>0, <1>3 DEF TypeOK, StopFlag
<1>4. ASSUME NEW p \in Procs, StopKill(p) PROVE IInv'
  BY <1>0, <1>4 DEF TypeOK, StopKill, TerminateProcess, DropWriteEnds
<1>5. ASSUME NEW p \in Procs, StopJoin(p) PROVE IInv'
  BY <1>0, <1>5 DEF TypeOK, StopJoin, ReaderEnded
<1>6. ASSUME NEW p \in Procs, CreatePipes(p) PROVE IInv'
  <2>1. reader[p] = "none"
    BY <1>0, <1>6 DEF TypeOK, CreatePipes
  <2>2. \A q \in Procs \ {p} : pipe'[q] = pipe[q]
    BY <1>0, <1>6 DEF TypeOK, CreatePipes
  <2>3. PipeInv'
    BY <2>1, <2>2, <1>6 DEF CreatePipes
  <2>4. CallInv'
    BY <1>0, <1>6 DEF TypeOK, CreatePipes
  <2>5. QED
    BY <1>0, <2>3, <2>4, <1>6 DEF TypeOK, CreatePipes
<1>7. ASSUME NEW p \in Procs, SpawnChild(p) PROVE IInv'
  BY <1>0, <1>7 DEF TypeOK, SpawnChild
<1>8. ASSUME NEW p \in Procs, SpawnFailed(p) PROVE IInv'
  BY <1>0, <1>8 DEF TypeOK, SpawnFailed
<1>9. ASSUME NEW p \in Procs, CloseWriteEnds(p) PROVE IInv'
  BY <1>0, <1>9 DEF TypeOK, CloseWriteEnds
<1>10. ASSUME NEW p \in Procs, CreateReader(p) PROVE IInv'
  BY <1>0, <1>10 DEF TypeOK, CreateReader, Nothing
<1>11. ASSUME NEW p \in Procs, CreateReaderFailed(p) PROVE IInv'
  BY <1>0, <1>11 DEF TypeOK, CreateReaderFailed, TerminateProcess, DropWriteEnds
<1>12. ASSUME NEW p \in Procs, ReaderTop(p) PROVE IInv'
  BY <1>0, <1>12 DEF TypeOK, ReaderTop, Goto
<1>13. ASSUME NEW p \in Procs, ReaderPoll(p) PROVE IInv'
  <2>1. CASE \E s \in Streams :
                /\ reader[p] = s /\ pipe[p][s] > 0
                /\ Read(p, s) /\ UNCHANGED reader
    <3>1. PICK s \in Streams : reader[p] = s /\ pipe[p][s] > 0 /\ Read(p, s)
      BY <2>1
    <3>2. \A q \in Procs \ {p} : pipe'[q] = pipe[q] /\ held'[q] = held[q]
      BY <1>0, <3>1, ReadFrame
    <3>3. PipeInv'
      BY <1>13, <2>1, <3>1, <3>2 DEF ReaderPoll
    <3>4. QED
      BY <1>0, <1>13, <2>1, <3>3 DEF ReaderPoll
  <2>2. CASE UNCHANGED <<pipe, held>>
    <3>1. CASE reader[p] = "out" /\ reader' = [reader EXCEPT ![p] = "err"]
      BY <1>0, <1>13, <2>2, <3>1 DEF TypeOK, ReaderPoll
    <3>2. CASE reader[p] = "err" /\ reader' = [reader EXCEPT ![p] = "wait"]
      BY <1>0, <1>13, <2>2, <3>2 DEF TypeOK, ReaderPoll
    <3>3. CASE UNCHANGED reader
      BY <1>0, <1>13, <2>2, <3>3 DEF TypeOK, ReaderPoll
    <3>4. QED
      BY <1>13, <3>1, <3>2, <3>3 DEF ReaderPoll, Goto
  <2>3. QED
    BY <1>13, <2>1, <2>2 DEF ReaderPoll, Available
<1>14. ASSUME NEW p \in Procs, ReaderDrain(p) PROVE IInv'
  <2>1. CASE /\ reader[p] = "drainOut" /\ pipe[p]["out"] > 0
             /\ Read(p, "out") /\ UNCHANGED reader
    <3>1. \A q \in Procs \ {p} : pipe'[q] = pipe[q] /\ held'[q] = held[q]
      BY <1>0, <2>1, ReadFrame
    <3>2. PipeInv'
      BY <1>14, <2>1, <3>1 DEF ReaderDrain
    <3>3. QED
      BY <1>0, <1>14, <2>1, <3>2 DEF ReaderDrain
  <2>2. CASE /\ reader[p] = "drainErr" /\ pipe[p]["err"] > 0
             /\ Read(p, "err") /\ UNCHANGED reader
    <3>1. /\ \A q \in Procs \ {p} : pipe'[q] = pipe[q] /\ held'[q] = held[q]
          /\ pipe'[p]["out"] = pipe[p]["out"]
      BY <1>0, <2>2, ReadFrame
    <3>2. PipeInv'
      BY <1>14, <2>2, <3>1 DEF ReaderDrain
    <3>3. QED
      BY <1>0, <1>14, <2>2, <3>2 DEF ReaderDrain
  <2>3. CASE /\ EndOfPipe(p, "out") /\ Goto(p, "drainOut", "drainErr")
             /\ UNCHANGED <<pipe, held>>
    BY <1>0, <1>14, <2>3 DEF TypeOK, ReaderDrain, Goto, EndOfPipe
  <2>4. CASE /\ EndOfPipe(p, "err") /\ Goto(p, "drainErr", "flush")
             /\ UNCHANGED <<pipe, held>>
    BY <1>0, <1>14, <2>4 DEF TypeOK, ReaderDrain, Goto, EndOfPipe
  <2>5. QED
    BY <1>14, <2>1, <2>2, <2>3, <2>4 DEF ReaderDrain
<1>15. ASSUME NEW p \in Procs, ReaderFlush(p) PROVE IInv'
  <2>1. held'[p] = Nothing /\ \A q \in Procs \ {p} : held'[q] = held[q]
    BY <1>15 DEF TypeOK, ReaderFlush
  <2>2. PipeInv'
    BY <1>15, <2>1 DEF TypeOK, ReaderFlush, Goto
  <2>3. QED
    BY <1>0, <1>15, <2>2 DEF TypeOK, ReaderFlush, Goto
<1>16. ASSUME NEW p \in Procs, ReaderReport(p) PROVE IInv'
  BY <1>0, <1>16 DEF TypeOK, ReaderReport, Goto
<1>17. ASSUME NEW p \in Procs, ReaderClose(p) PROVE IInv'
  BY <1>0, <1>17 DEF TypeOK, ReaderClose, Goto
<1>18. ASSUME NEW p \in Procs, ChildWrite(p) PROVE IInv'
  BY <1>0, <1>18 DEF TypeOK, ChildWrite
<1>19. ASSUME NEW p \in Procs, ChildExit(p) PROVE IInv'
  BY <1>0, <1>19 DEF TypeOK, ChildExit, DropWriteEnds
<1>22. ASSUME NEW p \in Procs, ReaderWait(p) PROVE IInv'
  BY <1>0, <1>22 DEF TypeOK, ReaderWait, Goto
<1>20. CASE UNCHANGED vars
  BY <1>0, <1>20 DEF vars
<1>21. QED
  BY <1>1, <1>2, <1>3, <1>4, <1>5, <1>6, <1>7, <1>8, <1>9, <1>10, <1>11, <1>12, <1>13, <1>14, <1>15, <1>16, <1>17, <1>18, <1>19, <1>20, <1>22
     DEF Next, Caller, Reader

LEMMA InvInit == Init => IInv
<1> SUFFICES ASSUME Init PROVE IInv
  OBVIOUS
<1>1. TypeOK
  BY ProcessAssumption DEF Init, TypeOK, CallPoints, ReaderPoints, None,
     Nothing, Streams
<1>2. QED
  BY <1>1 DEF Init, IInv, ReaderHasContext, CallInv, PipeInv, HandleInv,
     ToldInv, NoOrphan, Active, Finished

(* The strengthening is an invariant of the specification.                 *)
LEMMA Invariance == Spec => []IInv
<1>1. IInv /\ [Next]_vars => IInv'
  BY InvStep
<1>2. QED
  BY <1>1, InvInit, PTL DEF Spec

(* Every variable keeps its type.                                          *)
THEOREM TypeCorrect == Spec => []TypeOK
<1>1. IInv => TypeOK
  BY DEF IInv
<1>2. QED
  BY <1>1, Invariance, PTL

(* stop() frees the context only after the reader thread has ended, and no *)
(* callback is made by an object without context, whatever the objects do  *)
(* concurrently.                                                           *)
THEOREM ContextSafe == Spec => []ReaderHasContext
<1>1. IInv => ReaderHasContext
  BY DEF IInv
<1>2. QED
  BY <1>1, Invariance, PTL

(* Everything the child wrote reaches the callbacks before onFinished.     *)
THEOREM DrainedSafe == Spec => []DrainedBeforeReport
<1>1. IInv => DrainedBeforeReport
  <2> SUFFICES ASSUME IInv, NEW p \in Procs,
                      reader[p] = "report" \/ Finished(p)
               PROVE  pipe[p] = None /\ held[p] = Nothing
    BY DEF DrainedBeforeReport
  <2>1. pipe[p] \in [Streams -> 0 .. Cap]
    BY DEF IInv, TypeOK
  <2>2. pipe[p]["out"] = 0 /\ pipe[p]["err"] = 0 /\ held[p] = Nothing
    BY DEF IInv, PipeInv
  <2>3. pipe[p] = None
    BY <2>1, <2>2 DEF None, Streams
  <2>4. QED
    BY <2>2, <2>3
<1>2. QED
  BY <1>1, Invariance, PTL

(* The reader's process handle is its own child's until it closes it.      *)
THEOREM HandleSafe == Spec => []OwnHandle
<1>1. IInv => OwnHandle
  BY DEF IInv, HandleInv, OwnHandle, Active
<1>2. QED
  BY <1>1, Invariance, PTL

(* Every running child is one its object can stop.                         *)
THEOREM OrphanFree == Spec => []NoOrphan
<1>1. IInv => NoOrphan
  BY DEF IInv
<1>2. QED
  BY <1>1, Invariance, PTL

(* An object that has a context, or is about to have one, has had a child. *)
ChildInv ==
    \A p \in Procs : ctx[p] \/ call[p] \in {"close", "thread"} =>
                        child[p] # "none"

LEMMA ChildStep ==
    ASSUME IInv, ChildInv, [Next]_vars PROVE ChildInv'
<1> USE DEF IInv, TypeOK, ChildInv, owner, kernel, thread
<1>1. ASSUME NEW p \in Procs, StopKill(p) PROVE ChildInv'
  BY <1>1 DEF StopKill, TerminateProcess
<1>2. ASSUME NEW p \in Procs, CreateReaderFailed(p) PROVE ChildInv'
  BY <1>2 DEF CreateReaderFailed, TerminateProcess
<1>3. ASSUME NEW p \in Procs, SpawnChild(p) PROVE ChildInv'
  BY <1>3 DEF SpawnChild
<1>4. ASSUME NEW p \in Procs, ChildExit(p) PROVE ChildInv'
  BY <1>4 DEF ChildExit
<1>5. ASSUME NEW p \in Procs, CreateReader(p) PROVE ChildInv'
  BY <1>5 DEF CreateReader
<1>6. ASSUME NEW p \in Procs, CloseWriteEnds(p) PROVE ChildInv'
  BY <1>6 DEF CloseWriteEnds
<1>7. ASSUME NEW p \in Procs,
             StartCall(p) \/ StopCall(p) \/ StopFlag(p) \/ CreatePipes(p)
                \/ SpawnFailed(p)
      PROVE  ChildInv'
  BY <1>7 DEF StartCall, StopCall, StopFlag, CreatePipes, SpawnFailed
<1>8. ASSUME NEW p \in Procs, StopJoin(p) PROVE ChildInv'
  BY <1>8 DEF StopJoin
<1>9. ASSUME UNCHANGED <<child, ctx, call>> PROVE ChildInv'
  BY <1>9
<1>10. ASSUME NEW p \in Procs, Reader(p) \/ ChildWrite(p)
       PROVE  UNCHANGED <<child, ctx, call>>
  BY <1>10 DEF Reader, ReaderTop, ReaderPoll, ReaderWait, ReaderDrain,
     ReaderFlush, ReaderReport, ReaderClose, ChildWrite
<1>11. QED
  BY <1>1, <1>2, <1>3, <1>4, <1>5, <1>6, <1>7, <1>8, <1>9, <1>10
     DEF Next, Caller, vars

LEMMA ChildSafe == Spec => []ChildInv
<1>1. Init => ChildInv
  BY DEF Init, ChildInv
<1>2. IInv /\ ChildInv /\ [Next]_vars => ChildInv'
  BY ChildStep
<1>3. QED
  BY <1>1, <1>2, Invariance, PTL DEF Spec

(* TerminateProcess on an object's handle value ends its own child, or the *)
(* object's reader has closed the handle after reporting its own child.    *)
LEMMA KillsOwnOrReported ==
    ASSUME IInv, ChildInv, NEW q \in Procs, call[q] = "kill",
           NEW p \in Procs \ {q}, hproc[q] \in Handles, table[hproc[q]] = p
    PROVE  told[q] /\ child[q] = "exited"
<1> USE DEF IInv, TypeOK, Streams
<1>1. ctx[q]
  BY DEF CallInv
<1>2. reader[q] = "none"
  BY <1>1 DEF HandleInv, Active, ReaderPoints
<1>3. told[q]
  BY <1>1, <1>2 DEF ToldInv, Active
<1>4. child[q] = "exited"
  BY <1>1, <1>2 DEF PipeInv, Finished, ChildInv, Active
<1>5. QED
  BY <1>3, <1>4

(* Only stop() and the end of a failed start() end a child, so a child of  *)
(* another object is ended only as KillsOwnOrReported says.                *)
LEMMA StrayStep ==
    ASSUME IInv, ChildInv, [Next]_vars, NEW p \in Procs,
           killed'[p], ~killed[p], call[p] \notin {"kill", "thread"}
    PROVE  \E q \in Procs \ {p} :
               call[q] = "kill" /\ told[q] /\ child[q] = "exited"
<1> USE DEF IInv, TypeOK, owner, kernel, thread
<1>1. ASSUME NEW q \in Procs, StopKill(q)
      PROVE  /\ q # p /\ call[q] = "kill"
             /\ told[q] /\ child[q] = "exited"
  <2>1. call[q] = "kill" /\ q # p
    BY <1>1 DEF StopKill
  <2>2. hproc[q] \in Handles /\ table[hproc[q]] = p
    BY <1>1 DEF StopKill, TerminateProcess
  <2>3. QED
    BY <2>1, <2>2, KillsOwnOrReported
<1>2. ASSUME NEW q \in Procs, CreateReaderFailed(q) PROVE FALSE
  <2>1. call[q] = "thread" /\ q # p
    BY <1>2 DEF CreateReaderFailed
  <2>2. hproc[q] \in Handles /\ table[hproc[q]] = p
    BY <1>2 DEF CreateReaderFailed, TerminateProcess
  <2>3. QED
    BY <2>1, <2>2 DEF HandleInv, CallInv
<1>3. ASSUME NEW q \in Procs, SpawnChild(q) PROVE FALSE
  BY <1>3 DEF SpawnChild
<1>4. ASSUME UNCHANGED killed PROVE FALSE
  BY <1>4
<1>5. QED
  BY <1>1, <1>2, <1>3, <1>4
     DEF Next, Caller, Reader, vars, StartCall, StopCall, StopFlag, StopJoin,
         CreatePipes, SpawnFailed, CloseWriteEnds, CreateReader, ReaderTop,
         ReaderPoll, ReaderWait, ReaderDrain, ReaderFlush, ReaderReport,
         ReaderClose, ChildWrite, ChildExit

(* stop() ends a child of another object only through the stale handle of  *)
(* an object whose own child has ended and been reported.                  *)
THEOREM StraySafe == Spec => StrayKillAfterReport
<1>1. IInv /\ ChildInv /\ [Next]_vars =>
        [\A p \in Procs :
           killed'[p] /\ ~killed[p] /\ call[p] \notin {"kill", "thread"} =>
              \E q \in Procs \ {p} :
                 call[q] = "kill" /\ told[q] /\ child[q] = "exited"]_vars
  BY StrayStep
<1>2. QED
  BY <1>1, Invariance, ChildSafe, PTL DEF Spec, StrayKillAfterReport

-----------------------------------------------------------------------------
(* Each step of CWProcess begins, reports or releases a job, or leaves     *)
(* every job as it is.                                                     *)
LEMMA JobStep ==
    ASSUME IInv, [Next]_vars PROVE [Promise!Next]_JobStatus
<1> USE DEF IInv, TypeOK, JobStatus, owner, kernel, thread
<1>1. ASSUME NEW p \in Procs, StopJoin(p) PROVE Promise!Release(p)
  BY <1>1 DEF StopJoin, ReaderEnded, Promise!Release, CallInv, ToldInv, Active
<1>2. ASSUME NEW p \in Procs, CreateReader(p) PROVE Promise!Begin(p)
  BY <1>2 DEF CreateReader, Promise!Begin, CallInv
<1>3. ASSUME NEW p \in Procs, ReaderReport(p) PROVE Promise!Report(p)
  BY <1>3 DEF ReaderReport, Goto, Promise!Report, ReaderHasContext, ToldInv,
     Active, ReaderPoints
<1>4. CASE UNCHANGED <<ctx, told>>
  BY <1>4
<1>5. QED
  BY <1>1, <1>2, <1>3, <1>4
     DEF Next, Caller, Reader, Promise!Next, vars, StartCall, StopCall,
         StopFlag, StopKill, CreatePipes, SpawnChild, SpawnFailed,
         CloseWriteEnds, CreateReaderFailed, ReaderTop, ReaderPoll,
         ReaderWait, ReaderDrain, ReaderFlush, ReaderClose, ChildWrite,
         ChildExit

(* Each successful start() is answered by exactly one onFinished before    *)
(* the object is at rest again: Process implements Job.                    *)
THEOREM Refinement == Spec => ImplementsJob
<1>1. Init => Promise!Init
  BY DEF Init, JobStatus, Promise!Init
<1>2. IInv /\ [Next]_vars => [Promise!Next]_JobStatus
  BY JobStep
<1>3. QED
  BY <1>1, <1>2, Invariance, PTL DEF Spec, ImplementsJob, Promise!Spec

=============================================================================
