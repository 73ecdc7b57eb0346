------------------------- MODULE ApplicationProofs --------------------------
(* Proofs about Application, for any number of checks, restarts of the     *)
(* shell and queued messages.                                              *)
EXTENDS Application, TLAPS

(* The results of different checks are different messages, and are no      *)
(* other messages.                                                         *)
LEMMA MessagesDiffer ==
    /\ \A i, j : Result(i) = Result(j) => i = j
    /\ \A i : Result(i) \notin {CheckVersion, TaskbarCreated, Exit}
    /\ \A i \in Checks : Result(i) \in Messages
    /\ CheckVersion \in Messages /\ TaskbarCreated \in Messages
    /\ Exit \in Messages
  BY DEF Result, CheckVersion, TaskbarCreated, Exit, Messages

(* Taking a message moves the others forward.                              *)
LEMMA TakeMoves ==
    ASSUME TypeOK, NEW m, Take(m)
    PROVE  /\ queue' \in Seq(Messages)
           /\ 1 \in DOMAIN queue /\ queue[1] = m
           /\ \A k \in DOMAIN queue' :
                k + 1 \in DOMAIN queue /\ queue'[k] = queue[k + 1]
           /\ \A k \in DOMAIN queue \ {1} :
                k - 1 \in DOMAIN queue' /\ queue'[k - 1] = queue[k]
           /\ DOMAIN queue \subseteq Nat \ {0}
           /\ DOMAIN queue' \subseteq Nat \ {0}
  BY DEF TypeOK, Take

(* Posting a message leaves the others where they are.                     *)
LEMMA AppendKeeps ==
    ASSUME TypeOK, NEW m \in Messages, queue' = Append(queue, m)
    PROVE  /\ queue' \in Seq(Messages)
           /\ Len(queue) + 1 \in DOMAIN queue'
           /\ queue'[Len(queue) + 1] = m
           /\ \A k \in DOMAIN queue : k \in DOMAIN queue' /\ queue'[k] = queue[k]
           /\ \A k \in DOMAIN queue' : k = Len(queue) + 1 \/ k \in DOMAIN queue
           /\ Len(queue) + 1 \notin DOMAIN queue
  BY DEF TypeOK

(* Every step leaves the queue a sequence of messages.                     *)
LEMMA QueueStep ==
    ASSUME TypeOK, [Next]_vars PROVE queue' \in Seq(Messages)
<1>1. queue \in Seq(Messages)
  BY DEF TypeOK
<1>2. CASE UNCHANGED queue
  BY <1>1, <1>2
<1>3. ASSUME NEW m, Take(m) PROVE queue' \in Seq(Messages)
  BY <1>3, TakeMoves
<1>4. ASSUME NEW m \in Messages, queue' = Append(queue, m)
      PROVE  queue' \in Seq(Messages)
  BY <1>4, AppendKeeps
<1>5. CASE Start
  <2>1. queue' \in {<<>>, <<CheckVersion>>}
    BY <1>5 DEF Start
  <2>2. <<>> \in Seq(Messages) /\ <<CheckVersion>> \in Seq(Messages)
    BY MessagesDiffer
  <2>3. QED
    BY <2>1, <2>2
<1>6. CASE OnExit
  <2>1. queue' = <<>>
    BY <1>6 DEF OnExit
  <2>2. <<>> \in Seq(Messages)
    OBVIOUS
  <2>3. QED
    BY <2>1, <2>2
<1>7. CASE User
  BY <1>4, <1>7, MessagesDiffer DEF User
<1>8. CASE ShellStarts
  BY <1>2, <1>4, <1>8, MessagesDiffer DEF ShellStarts
<1>9. ASSUME NEW i \in Checks, PostResult(i) PROVE queue' \in Seq(Messages)
  BY <1>2, <1>4, <1>9, MessagesDiffer DEF PostResult
<1>10. CASE CheckCommand \/ OnTaskbarCreated \/ \E i \in Checks : OnResult(i)
  BY <1>3, <1>10 DEF CheckCommand, OnTaskbarCreated, OnResult
<1>11. CASE \/ StartFailed \/ WaitForThread \/ DestroyTray \/ Cleanup
            \/ VersionTimer \/ RetryTimer \/ ShellEnds \/ UNCHANGED vars
            \/ \E i \in Checks : Answer(i) \/ LookForWindow(i)
  BY <1>2, <1>11
     DEF StartFailed, WaitForThread, DestroyTray, Cleanup, VersionTimer,
         RetryTimer, ShellEnds, vars, Answer, LookForWindow
<1>12. QED
  BY <1>5, <1>6, <1>7, <1>8, <1>9, <1>10, <1>11
     DEF Next, UserInterface, Checker

(* What StartCheck and CreateTray do with their variables' types.          *)
LEMMA StartCheckType ==
    ASSUME TypeOK, StartCheck
    PROVE  /\ handle' \in Checks \cup {NoCheck}
           /\ thread' \in [Checks -> Running \cup {"none", "ended"}]
           /\ newer' \in [Checks -> BOOLEAN]
           /\ live' \subseteq Checks
  BY DEF TypeOK, StartCheck, checker, Running

LEMMA CreateTrayType ==
    ASSUME TypeOK, CreateTray
    PROVE  created' \in BOOLEAN /\ icon' \in BOOLEAN /\ retry' \in BOOLEAN
  BY DEF TypeOK, CreateTray, SetRetry

(* Every step keeps every variable in its type.                            *)
LEMMA TypeStep ==
    ASSUME TypeOK, [Next]_vars PROVE TypeOK'
<1>0. queue' \in Seq(Messages)
  BY QueueStep
<1> USE DEF TypeOK, checker, tray
<1>1. CASE Start
  BY <1>0, <1>1, CreateTrayType DEF Start
<1>2. CASE StartFailed \/ WaitForThread \/ DestroyTray \/ Cleanup \/ OnExit
  BY <1>0, <1>2 DEF StartFailed, WaitForThread, DestroyTray, Cleanup, OnExit
<1>3. CASE CheckCommand
  BY <1>0, <1>3, StartCheckType DEF CheckCommand
<1>4. CASE VersionTimer
  BY <1>0, <1>4, StartCheckType DEF VersionTimer
<1>5. ASSUME NEW i \in Checks, OnResult(i) PROVE TypeOK'
  BY <1>0, <1>5 DEF OnResult
<1>6. CASE OnTaskbarCreated
  BY <1>0, <1>6, CreateTrayType DEF OnTaskbarCreated
<1>7. CASE RetryTimer
  BY <1>0, <1>7, CreateTrayType DEF RetryTimer
<1>8. ASSUME NEW i \in Checks, Checker(i) PROVE TypeOK'
  BY <1>0, <1>8 DEF Checker, Answer, LookForWindow, PostResult, Running
<1>9. CASE User \/ ShellStarts
  BY <1>0, <1>9 DEF User, ShellStarts
<1>10. CASE ShellEnds
  <2>1. restarts' \in 0 .. MaxRestarts
    BY <1>10, ApplicationAssumption DEF ShellEnds
  <2>2. QED
    BY <1>0, <1>10, <2>1 DEF ShellEnds
<1>11. CASE UNCHANGED vars
  BY <1>11 DEF vars
<1>12. QED
  BY <1>1, <1>2, <1>3, <1>4, <1>5, <1>6, <1>7, <1>8, <1>9, <1>10, <1>11
     DEF Next, UserInterface

-----------------------------------------------------------------------------
(* While a check is not in flight no check runs.                           *)
LEMMA NoneRuns ==
    ASSUME IInv, ~InFlight PROVE \A i \in Checks : thread[i] \notin Running
  BY ApplicationAssumption DEF IInv, CheckInv, InFlight, Running

(* StartCheck starts one check at most, with its result, and only when     *)
(* none runs.                                                              *)
LEMMA StartCheckOne ==
    ASSUME IInv, StartCheck, stage = "loop",
           UNCHANGED <<stage, curl>>
    PROVE  CheckInv'
<1>1. CASE ~curl \/ InFlight
  <2>1. UNCHANGED <<handle, thread, live, curl, stage>>
    BY <1>1 DEF StartCheck, checker
  <2>2. QED
    BY <2>1 DEF IInv, CheckInv
<1>2. CASE curl /\ ~InFlight
  <2>1. \A i \in Checks : thread[i] \notin Running
    BY <1>2, NoneRuns
  <2>2. CASE UNCHANGED <<thread, live>>
    BY <2>1, <2>2 DEF IInv, CheckInv
  <2>3. ASSUME NEW i \in Checks, thread[i] = "none", handle' = i,
               thread' = [thread EXCEPT ![i] = "net"], live' = live \cup {i}
        PROVE  CheckInv'
    BY <1>2, <2>1, <2>3 DEF IInv, TypeOK, CheckInv, Running
  <2>4. QED
    BY <1>2, <2>2, <2>3 DEF StartCheck
<1>3. QED
  BY <1>1, <1>2

(* Every step keeps what is known of running checks and of the stage.      *)
LEMMA CheckStep ==
    ASSUME IInv, [Next]_vars PROVE CheckInv' /\ StageInv'
<1> USE DEF IInv, TypeOK, CheckInv, StageInv, checker, tray
<1>1. CASE Start
  BY <1>1 DEF Start, Running
<1>2. CASE StartFailed
  BY <1>2 DEF StartFailed, Running
<1>3. CASE CheckCommand
  BY <1>3, StartCheckOne DEF CheckCommand, Take
<1>4. CASE VersionTimer
  BY <1>4, StartCheckOne DEF VersionTimer
<1>5. ASSUME NEW i \in Checks, OnResult(i) PROVE CheckInv' /\ StageInv'
  <2>1. thread[i] = "ended"
    BY <1>5, TakeMoves DEF OnResult, ResultOwned
  <2>2. QED
    BY <1>5, <2>1 DEF OnResult, Take, Running
<1>6. CASE OnTaskbarCreated \/ RetryTimer
  BY <1>6 DEF OnTaskbarCreated, RetryTimer, Take
<1>7. CASE OnExit
  BY <1>7 DEF OnExit
<1>8. CASE WaitForThread
  BY <1>8, NoneRuns DEF WaitForThread
<1>9. CASE DestroyTray \/ Cleanup
  BY <1>9 DEF DestroyTray, Cleanup
<1>10. ASSUME NEW i \in Checks, Checker(i) PROVE CheckInv' /\ StageInv'
  BY <1>10 DEF Checker, Answer, LookForWindow, PostResult, Running
<1>11. CASE User \/ ShellStarts \/ ShellEnds \/ UNCHANGED vars
  BY <1>11 DEF User, ShellStarts, ShellEnds, vars
<1>12. QED
  BY <1>1, <1>2, <1>3, <1>4, <1>5, <1>6, <1>7, <1>8, <1>9, <1>10, <1>11
     DEF Next, UserInterface

-----------------------------------------------------------------------------
(* A result waits in the queue.                                            *)
Waiting(i) == \E k \in DOMAIN queue : queue[k] = Result(i)

(* Results that wait after a message was taken waited before it, and all   *)
(* but the one taken wait on.                                              *)
LEMMA TakeKeeps ==
    ASSUME IInv, NEW m, Take(m)
    PROVE  /\ \A i \in Checks, k \in DOMAIN queue' : queue'[k] = Result(i) =>
                /\ i \in live /\ thread[i] = "ended" /\ m # Result(i)
                /\ \A l \in DOMAIN queue' : queue'[l] = Result(i) => l = k
           /\ \A i : Waiting(i) => m = Result(i) \/ Waiting(i)'
<1>1. TypeOK
  BY DEF IInv
<1>2. ASSUME NEW i \in Checks, NEW k \in DOMAIN queue', queue'[k] = Result(i)
      PROVE  /\ i \in live /\ thread[i] = "ended" /\ m # Result(i)
             /\ \A l \in DOMAIN queue' : queue'[l] = Result(i) => l = k
  <2>1. k + 1 \in DOMAIN queue /\ queue[k + 1] = Result(i) /\ k \in Nat \ {0}
    BY <1>1, <1>2, TakeMoves
  <2>2. \A l \in DOMAIN queue : queue[l] = Result(i) => l = k + 1
    BY <2>1 DEF IInv, ResultOwned
  <2>3. m # Result(i)
    BY <1>1, <2>1, <2>2, TakeMoves
  <2>4. ASSUME NEW l \in DOMAIN queue', queue'[l] = Result(i) PROVE l = k
    <3>1. l + 1 = k + 1 /\ l \in Nat
      BY <1>1, <2>2, <2>4, TakeMoves
    <3>2. QED
      BY <2>1, <3>1
  <2>5. QED
    BY <2>1, <2>3, <2>4 DEF IInv, ResultOwned
<1>3. ASSUME NEW i, Waiting(i), m # Result(i) PROVE Waiting(i)'
  <2>1. PICK k \in DOMAIN queue : queue[k] = Result(i)
    BY <1>3 DEF Waiting
  <2>2. k - 1 \in DOMAIN queue' /\ queue'[k - 1] = Result(i)
    BY <1>1, <1>3, <2>1, TakeMoves
  <2>3. QED
    BY <2>2 DEF Waiting, Result
<1>4. QED
  BY <1>2, <1>3

(* A message that is no result changes nothing about results.              *)
LEMMA AppendOther ==
    ASSUME IInv, NEW m \in {CheckVersion, TaskbarCreated, Exit},
           queue' = Append(queue, m), UNCHANGED <<window, thread, live>>
    PROVE  ResultOwned'
<1>1. TypeOK /\ m \in Messages
  BY MessagesDiffer DEF IInv
<1>2. ASSUME NEW i \in Checks, NEW k \in DOMAIN queue', queue'[k] = Result(i)
      PROVE  k \in DOMAIN queue /\ queue[k] = Result(i)
  BY <1>1, <1>2, AppendKeeps, MessagesDiffer
<1>3. \A i \in Checks, k \in DOMAIN queue' : queue'[k] = Result(i) =>
          /\ i \in live' /\ thread'[i] = "ended"
          /\ \A l \in DOMAIN queue' : queue'[l] = Result(i) => l = k
  BY <1>2 DEF IInv, ResultOwned
<1>4. ASSUME window', NEW i \in live'
      PROVE  thread'[i] \in Running \/ \E k \in DOMAIN queue' : queue'[k] = Result(i)
  BY <1>1, <1>4, AppendKeeps DEF IInv, ResultOwned
<1>5. QED
  BY <1>3, <1>4 DEF ResultOwned, Result, Running

(* StartCheck gives the new check a result of its own.                     *)
LEMMA StartCheckOwns ==
    ASSUME IInv, StartCheck
    PROVE  /\ live \subseteq live'
           /\ \A i \in Checks : thread[i] = "ended" => thread'[i] = "ended"
           /\ \A i \in live : thread[i] \in Running => thread'[i] \in Running
           /\ \A i \in live' \ live : thread'[i] \in Running
  BY DEF IInv, TypeOK, CheckInv, StartCheck, checker, Running

(* Every result keeps one owner while the window exists.                   *)
LEMMA OwnedStep ==
    ASSUME IInv, [Next]_vars PROVE ResultOwned'
<1>0. TypeOK /\ CheckInv /\ StageInv /\ ResultOwned
  BY DEF IInv
<1>1. CASE Start
  <2>1. \A i \in Checks : i \notin live /\ i \notin live'
    BY <1>0, <1>1 DEF Start, checker, CheckInv, StageInv
  <2>2. live' \subseteq Checks /\ queue' \in {<<>>, <<CheckVersion>>}
    BY <1>0, <1>1 DEF Start, checker, TypeOK
  <2>3. \A i \in Checks, k \in DOMAIN queue' : queue'[k] # Result(i)
    BY <2>2, MessagesDiffer
  <2>4. QED
    BY <2>1, <2>2, <2>3 DEF ResultOwned, Result
<1>2. CASE \/ StartFailed \/ WaitForThread \/ DestroyTray \/ Cleanup
           \/ RetryTimer \/ UNCHANGED vars
  <2>1. /\ UNCHANGED <<queue, window, live>>
        /\ UNCHANGED thread
    BY <1>2 DEF StartFailed, WaitForThread, DestroyTray, Cleanup, RetryTimer,
                checker, vars
  <2>2. QED
    BY <1>0, <2>1 DEF ResultOwned, Result, Running
<1>3. CASE OnExit
  <2>1. queue' = <<>> /\ ~window'
    BY <1>3 DEF OnExit
  <2>2. QED
    BY <2>1 DEF ResultOwned
<1>4. ASSUME NEW m \in {CheckVersion, TaskbarCreated}, Take(m),
             UNCHANGED window, StartCheck \/ UNCHANGED <<thread, live>>
      PROVE  ResultOwned'
  <2>1. \A i \in Checks, k \in DOMAIN queue' : queue'[k] = Result(i) =>
            /\ i \in live' /\ thread'[i] = "ended"
            /\ \A l \in DOMAIN queue' : queue'[l] = Result(i) => l = k
    BY <1>4, TakeKeeps, StartCheckOwns
  <2>2. ASSUME window', NEW i \in live'
        PROVE  thread'[i] \in Running \/ Waiting(i)'
    <3>1. CASE i \in live
      <4>1. thread[i] \in Running \/ Waiting(i)
        BY <1>0, <1>4, <2>2, <3>1 DEF ResultOwned, Waiting
      <4>2. Waiting(i) => Waiting(i)'
        BY <1>4, TakeKeeps, MessagesDiffer
      <4>3. QED
        BY <1>4, <3>1, <4>1, <4>2, StartCheckOwns
    <3>2. CASE i \notin live
      BY <1>4, <2>2, <3>2, StartCheckOwns
    <3>3. QED
      BY <3>1, <3>2
  <2>3. QED
    BY <2>1, <2>2 DEF ResultOwned, Waiting, Result, Running
<1>5. CASE CheckCommand \/ OnTaskbarCreated
  BY <1>4, <1>5 DEF CheckCommand, OnTaskbarCreated, checker
<1>6. CASE VersionTimer
  <2>1. StartCheck /\ UNCHANGED <<queue, window>>
    BY <1>6 DEF VersionTimer
  <2>2. \A i \in Checks, k \in DOMAIN queue' : queue'[k] = Result(i) =>
            /\ i \in live' /\ thread'[i] = "ended"
            /\ \A l \in DOMAIN queue' : queue'[l] = Result(i) => l = k
    BY <1>0, <2>1, StartCheckOwns DEF ResultOwned
  <2>3. ASSUME window', NEW i \in live'
        PROVE  thread'[i] \in Running \/ \E k \in DOMAIN queue' : queue'[k] = Result(i)
    BY <1>0, <2>1, <2>3, StartCheckOwns DEF ResultOwned
  <2>4. QED
    BY <2>2, <2>3 DEF ResultOwned, Result, Running
<1>7. ASSUME NEW i \in Checks, OnResult(i) PROVE ResultOwned'
  <2>1. /\ Take(Result(i)) /\ live' = live \ {i} /\ UNCHANGED <<window, thread>>
    BY <1>7 DEF OnResult
  <2>2. \A j \in Checks, k \in DOMAIN queue' : queue'[k] = Result(j) =>
            /\ j \in live' /\ thread'[j] = "ended"
            /\ \A l \in DOMAIN queue' : queue'[l] = Result(j) => l = k
    BY <2>1, TakeKeeps
  <2>3. ASSUME window', NEW j \in live'
        PROVE  thread'[j] \in Running \/ Waiting(j)'
    <3>1. thread[j] \in Running \/ Waiting(j)
      BY <1>0, <2>1, <2>3 DEF ResultOwned, Waiting
    <3>2. Result(i) # Result(j)
      BY <2>1, <2>3, MessagesDiffer
    <3>3. QED
      BY <2>1, <3>1, <3>2, TakeKeeps
  <2>4. QED
    BY <2>2, <2>3 DEF ResultOwned, Waiting, Result, Running
<1>8. ASSUME NEW i \in Checks, Answer(i) \/ LookForWindow(i)
      PROVE  ResultOwned'
  <2>1. /\ UNCHANGED <<queue, window>>
        /\ thread[i] \in {"net", "have"}
        /\ \/ thread'[i] \in Running /\ UNCHANGED live
           \/ ~window /\ live' = live \ {i}
        /\ \A j \in Checks \ {i} : thread'[j] = thread[j]
    BY <1>0, <1>8 DEF Answer, LookForWindow, TypeOK, Running
  <2>2. \A j \in Checks, k \in DOMAIN queue' : queue'[k] = Result(j) => j # i
    BY <1>0, <2>1 DEF ResultOwned
  <2>3. \A j \in Checks, k \in DOMAIN queue' : queue'[k] = Result(j) =>
            /\ j \in live' /\ thread'[j] = "ended"
            /\ \A l \in DOMAIN queue' : queue'[l] = Result(j) => l = k
    BY <1>0, <2>1, <2>2 DEF ResultOwned
  <2>4. ASSUME window', NEW j \in live'
        PROVE  thread'[j] \in Running \/ \E k \in DOMAIN queue' : queue'[k] = Result(j)
    BY <1>0, <2>1, <2>4 DEF ResultOwned, TypeOK
  <2>5. QED
    BY <2>3, <2>4 DEF ResultOwned, Result, Running
<1>9. ASSUME NEW i \in Checks, PostResult(i) PROVE ResultOwned'
  <2>1. /\ thread[i] = "sure" /\ thread'[i] = "ended"
        /\ \A j \in Checks \ {i} : thread'[j] = thread[j]
        /\ UNCHANGED <<live, window>>
    BY <1>0, <1>9 DEF PostResult, TypeOK
  <2>2. i \in live /\ \A k \in DOMAIN queue : queue[k] # Result(i)
    BY <1>0, <2>1 DEF CheckInv, ResultOwned, Running
  <2>3. CASE window
    <3>1. queue' = Append(queue, Result(i)) /\ Result(i) \in Messages
      BY <1>9, <2>3, MessagesDiffer DEF PostResult
    <3>2. ASSUME NEW j \in Checks, NEW k \in DOMAIN queue', queue'[k] = Result(j)
          PROVE  \/ j = i /\ k = Len(queue) + 1
                 \/ j # i /\ k \in DOMAIN queue /\ queue[k] = Result(j)
      BY <1>0, <2>2, <3>1, <3>2, AppendKeeps, MessagesDiffer
    <3>3. \A j \in Checks, k \in DOMAIN queue' : queue'[k] = Result(j) =>
              /\ j \in live' /\ thread'[j] = "ended"
              /\ \A l \in DOMAIN queue' : queue'[l] = Result(j) => l = k
      BY <1>0, <2>1, <2>2, <3>2 DEF ResultOwned
    <3>4. ASSUME NEW j \in live'
          PROVE  \/ thread'[j] \in Running
                 \/ \E k \in DOMAIN queue' : queue'[k] = Result(j)
      <4>1. CASE j = i
        BY <1>0, <3>1, <4>1, AppendKeeps
      <4>2. CASE j # i
        <5>1. \/ thread[j] \in Running
              \/ \E k \in DOMAIN queue : queue[k] = Result(j)
          BY <1>0, <2>1, <2>3, <3>4 DEF ResultOwned
        <5>2. QED
          BY <1>0, <2>1, <3>1, <3>4, <4>2, <5>1, AppendKeeps DEF TypeOK
      <4>3. QED
        BY <4>1, <4>2
    <3>5. QED
      BY <3>3, <3>4 DEF ResultOwned, Result, Running
  <2>4. CASE ~window
    <3>1. UNCHANGED queue /\ ~window'
      BY <1>9, <2>1, <2>4 DEF PostResult
    <3>2. \A j \in Checks, k \in DOMAIN queue' : queue'[k] = Result(j) =>
              /\ j \in live' /\ thread'[j] = "ended"
              /\ \A l \in DOMAIN queue' : queue'[l] = Result(j) => l = k
      BY <1>0, <2>1, <2>2, <3>1 DEF ResultOwned
    <3>3. QED
      BY <3>1, <3>2 DEF ResultOwned, Result, Running
  <2>5. QED
    BY <2>3, <2>4
<1>10. CASE User
  BY <1>10, AppendOther DEF User, checker
<1>11. CASE ShellStarts \/ ShellEnds
  <2>1. UNCHANGED <<window, thread, live>>
    BY <1>11 DEF ShellStarts, ShellEnds, checker
  <2>2. CASE queue' = Append(queue, TaskbarCreated)
    BY <2>1, <2>2, AppendOther
  <2>3. CASE UNCHANGED queue
    BY <1>0, <2>1, <2>3 DEF ResultOwned, Result, Running
  <2>4. QED
    BY <1>11, <2>2, <2>3 DEF ShellStarts, ShellEnds
<1>12. QED
  BY <1>1, <1>2, <1>3, <1>5, <1>6, <1>7, <1>8, <1>9, <1>10, <1>11
     DEF Next, UserInterface, Checker

(* Every step plans another attempt exactly while there is no icon.        *)
LEMMA RetryStep ==
    ASSUME IInv, [Next]_vars PROVE RetryWhileMissing'
<1> USE DEF IInv, TypeOK, RetryWhileMissing, tray
<1>1. CASE Start \/ OnTaskbarCreated \/ RetryTimer
  BY <1>1 DEF Start, OnTaskbarCreated, RetryTimer, Take, CreateTray, SetRetry
<1>2. CASE \/ StartFailed \/ OnExit \/ WaitForThread \/ DestroyTray
           \/ Cleanup
  BY <1>2 DEF StartFailed, OnExit, WaitForThread, DestroyTray, Cleanup
<1>3. CASE \/ CheckCommand \/ VersionTimer \/ UNCHANGED vars
           \/ User \/ ShellStarts \/ ShellEnds
           \/ \E i \in Checks : OnResult(i) \/ Checker(i)
  BY <1>3
     DEF CheckCommand, VersionTimer, vars, User, ShellStarts, ShellEnds,
         OnResult, Checker, Answer, LookForWindow, PostResult
<1>4. QED
  BY <1>1, <1>2, <1>3 DEF Next, UserInterface

-----------------------------------------------------------------------------
LEMMA InvInit == Init => IInv
<1> SUFFICES ASSUME Init PROVE IInv
  OBVIOUS
<1>1. queue = <<>> /\ <<>> \in Seq(Messages)
  BY DEF Init
<1>2. TypeOK
  <2>1. restarts \in 0 .. MaxRestarts
    BY ApplicationAssumption DEF Init
  <2>2. queue \in Seq(Messages)
    BY <1>1
  <2>3. thread \in [Checks -> Running \cup {"none", "ended"}]
    BY DEF Init
  <2>4. QED
    BY <2>1, <2>2, <2>3 DEF Init, TypeOK
<1>3. QED
  BY <1>1, <1>2
     DEF Init, IInv, CheckInv, StageInv, ResultOwned, RetryWhileMissing,
         Running

(* The strengthening is an invariant of the specification.                 *)
LEMMA Invariance == Spec => []IInv
<1>1. IInv /\ [Next]_vars => IInv'
  BY TypeStep, CheckStep, OwnedStep, RetryStep DEF IInv
<1>2. QED
  BY <1>1, InvInit, PTL DEF Spec

(* The state of the application is well typed.                             *)
THEOREM TypeCorrect == Spec => []TypeOK
<1>1. IInv => TypeOK
  BY DEF IInv
<1>2. QED
  BY <1>1, Invariance, PTL

(* startCheck() never runs a second check beside one that still runs.      *)
THEOREM OneCheckSafe == Spec => []OneCheck
<1>1. IInv => OneCheck
  BY DEF IInv, CheckInv, OneCheck
<1>2. QED
  BY <1>1, Invariance, PTL

(* The destructor and run() clean libcurl up only after the check.         *)
THEOREM CurlSafe == Spec => []CurlWhileChecking
<1>1. IInv => CurlWhileChecking
  BY DEF IInv, CheckInv, CurlWhileChecking
<1>2. QED
  BY <1>1, Invariance, PTL

(* A result is deleted once, by the thread that owns it then.              *)
THEOREM ResultSafe == Spec => []ResultOwned
<1>1. IInv => ResultOwned
  BY DEF IInv
<1>2. QED
  BY <1>1, Invariance, PTL

(* While the icon is missing the retry timer is set, and only then.        *)
THEOREM RetrySafe == Spec => []RetryWhileMissing
<1>1. IInv => RetryWhileMissing
  BY DEF IInv
<1>2. QED
  BY <1>1, Invariance, PTL

=============================================================================
