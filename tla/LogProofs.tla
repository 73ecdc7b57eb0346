------------------------------ MODULE LogProofs ------------------------------
(* Proofs about LogFile and LogViewer: any number of runs in any           *)
(* processes, any limit, and any size of scrollbar and page.               *)
EXTENDS LogViewer, TLAPS

Record ==
    [doing : {"header", "child", "failed", "footer", "end"},
     pc : {"idle", "write", "trim", "copy", "move", "delete"},
     left : Nat, size : Nat, temp : TempNames \cup {<<>>}]

View ==
    [at : {"closed", "reading", "open", "failed"}, size : Nat, lines : Seq(Nat),
     first : Nat, drag : Int]

(* Who has the log open, and for what.                                     *)
HeldBy(h, r) ==
    \/ h = Appending(r) /\ run[r].pc = "write"
    \/ h = Reading(r) /\ run[r].pc = "copy"
    \/ h = ChildHandle(r) /\ run[r].doing = "child"

HandleInv ==
    /\ \A h \in handles :
         \/ h = ViewHandle /\ view.at = "reading"
         \/ \E r \in Runs : HeldBy(h, r)
    /\ \A r \in Runs :
         /\ run[r].pc = "write" => Appending(r) \in handles
         /\ run[r].pc = "copy" => Reading(r) \in handles
         /\ run[r].pc # "idle" => run[r].doing \in {"header", "failed", "footer"}
    /\ view.at = "reading" =>
         ViewHandle \in handles /\ \A h \in handles : h.mode = "read"

(* Texts are at least as far apart as their places: what is in order and,  *)
(* in so many places, how much.                                            *)
Spaced(q) == \A i, j \in DOMAIN q : i < j => q[j] - q[i] >= j - i

(* q has the newest texts, but for exposed ones.                           *)
HasNewest(q) ==
    \A n \in 1 .. written :
        n > written - Limit /\ ~(\E i \in DOMAIN q : q[i] = n) => n \in exposed

Owns(r) == run[r].pc \in {"copy", "move", "delete"}

(* Temporary files: what is in them, and whose they are.                   *)
TempInv ==
    /\ \A n \in DOMAIN temps :
         temps[n] \in Seq(1 .. written) /\ Spaced(temps[n]) /\ Len(temps[n]) <= Limit
    /\ \A r \in Runs :
         /\ Owns(r) => \E t \in Ticks : run[r].temp = <<ProcessOf[r], t>>
         /\ run[r].pc = "copy" =>
              /\ run[r].temp \in DOMAIN temps /\ temps[run[r].temp] = <<>>
              /\ \A s \in Runs :
                   run[s].pc = "copy" /\ run[s].temp = run[r].temp => s = r

(* A trim has read the end of the log, up to what is exposed since; its    *)
(* copy, if nobody is making a new one, has the newest texts.              *)
TrimOf(r) ==
    /\ run[r].pc = "copy" =>
         /\ run[r].size > Limit /\ run[r].size <= Len(log)
         /\ \A i \in DOMAIN log : i > run[r].size => log[i] \in exposed
    /\ run[r].pc = "move" /\ run[r].temp \in DOMAIN temps /\ ~Opened(run[r].temp) =>
         HasNewest(temps[run[r].temp])

TrimInv == \A r \in Runs : TrimOf(r)

OwnerInv ==
    ~crashed => \A n \in DOMAIN temps : \E r \in Runs : Owns(r) /\ run[r].temp = n

(* As long as nobody has met anybody and no copy has failed, one run at    *)
(* most is at the log, and its trim does not fail.                         *)
AloneInv ==
    ~disturbed =>
        /\ \A r, s \in Runs : Busy(r) /\ Busy(s) => r = s
        /\ \A r \in Runs :
             /\ run[r].pc # "delete"
             /\ run[r].pc = "move" => run[r].temp \in DOMAIN temps

(* A run that has still to trim.                                           *)
Pending(r) ==
    \/ run[r].pc # "idle"
    \/ run[r].doing = "child" /\ run[r].left > 0
    \/ run[r].doing = "footer"

LimitInv ==
    ~disturbed /\ ~crashed /\ Len(log) > Limit => \E r \in Runs : Pending(r)

ViewInv ==
    /\ view \in View /\ view.first <= Len(view.lines)
    /\ view.drag \in {NoDrag} \cup 0 .. Track /\ ViewIsWhole

IInv ==
    /\ TypeOK /\ ViewInv /\ HandleInv /\ Spaced(log) /\ NewestKept /\ TempInv /\ TrimInv
    /\ OwnerInv /\ AloneInv /\ LimitInv
-----------------------------------------------------------------------------
(* Sequences of texts.                                                     *)
LEMMA AppendText ==
    ASSUME NEW w \in Nat, NEW q \in Seq(1 .. w)
    PROVE  /\ Append(q, w + 1) \in Seq(1 .. w + 1)
           /\ Len(Append(q, w + 1)) = Len(q) + 1
           /\ Append(q, w + 1)[Len(q) + 1] = w + 1
           /\ DOMAIN q = 1 .. Len(q) /\ Len(q) \in Nat
           /\ \A i \in 1 .. Len(q) :
                Append(q, w + 1)[i] = q[i] /\ q[i] \in 1 .. w
<1>1. q \in Seq(1 .. w + 1)
  OBVIOUS
<1>2. QED
  BY <1>1

LEMMA MoreTexts ==
    ASSUME NEW w \in Nat, NEW q \in Seq(1 .. w) PROVE q \in Seq(1 .. w + 1)
  OBVIOUS

LEMMA Elements ==
    ASSUME NEW w \in Nat, NEW q \in Seq(1 .. w)
    PROVE  /\ DOMAIN q = 1 .. Len(q) /\ Len(q) \in Nat
           /\ \A i \in 1 .. Len(q) : q[i] \in 1 .. w /\ q[i] \in Nat
  OBVIOUS

(* What a trim copies: the newest Limit of the texts it has read.          *)
LEMMA KeptTexts ==
    ASSUME NEW w \in Nat, log \in Seq(1 .. w), NEW size \in Nat,
           Limit < size, size <= Len(log)
    PROVE  /\ Kept(size) \in Seq(1 .. w) /\ Len(Kept(size)) = Limit
           /\ \A i \in 1 .. Limit :
                Kept(size)[i] = log[size - Limit + i]
<1>1. /\ size - Limit + 1 \in Nat /\ Limit \in Nat \ {0}
      /\ size - (size - Limit + 1) + 1 = Limit
  BY LogAssumption
<1>2. \A i \in size - Limit + 1 .. size : log[i] \in 1 .. w
  BY <1>1, Elements
<1>3. /\ SubSeq(log, size - Limit + 1, size) =
           [i \in 1 .. Limit |-> log[i + (size - Limit + 1) - 1]]
  BY <1>1, LogAssumption DEF SubSeq
<1>4. \A i \in 1 .. Limit :
        /\ i + (size - Limit + 1) - 1 = size - Limit + i
        /\ size - Limit + i \in size - Limit + 1 .. size
  BY LogAssumption
<1>5. QED
  BY <1>1, <1>2, <1>3, <1>4 DEF Kept

LEMMA Names ==
    /\ \A r \in Runs : r # Viewer /\ Child(r) # Viewer
    /\ \A r, s \in Runs : r # Child(s)
    /\ \A r, s \in Runs : Child(r) = Child(s) => r = s
  BY WhoAssumption DEF Child

-----------------------------------------------------------------------------
(* What the thread does next: it is idle and has no copy.                  *)
LEMMA AppendReturns ==
    ASSUME NEW r \in Runs, NEW e \in Record
    PROVE  /\ AfterAppend(r, e) \in Record
           /\ AfterAppend(r, e).pc = "idle"
           /\ e.doing \in {"header", "failed", "footer"} =>
                AfterAppend(r, e).doing # "failed"
<1> DEFINE done == [e EXCEPT !.pc = "idle", !.size = 0, !.temp = <<>>]
<1>1. done \in Record /\ done.pc = "idle" /\ done.doing = e.doing
  BY DEF Record
<1>2. e.left \in Nat /\ (e.left > 1 => e.left - 1 \in Nat)
  BY DEF Record
<1> HIDE DEF done
<1>3. /\ NextAppend(e) \in Record /\ NextAppend(e).pc = "idle"
      /\ e.doing \in {"header", "failed", "footer"} => NextAppend(e).doing # "failed"
  <2>1. \A n \in Nat : /\ [done EXCEPT !.left = n] \in Record
                       /\ [done EXCEPT !.left = n].pc = "idle"
                       /\ [done EXCEPT !.left = n].doing = e.doing
    BY <1>1 DEF Record
  <2>2. /\ [done EXCEPT !.doing = "child", !.left = 0] \in Record
        /\ [done EXCEPT !.doing = "child", !.left = 0].pc = "idle"
        /\ [done EXCEPT !.doing = "child", !.left = 0].doing = "child"
    BY <1>1 DEF Record
  <2>3. /\ [done EXCEPT !.doing = "end"] \in Record
        /\ [done EXCEPT !.doing = "end"].pc = "idle"
        /\ [done EXCEPT !.doing = "end"].doing = "end"
    BY <1>1 DEF Record
  <2>4. CASE e.doing = "header" /\ e.left > 1
    <3>1. done.left = e.left
      BY DEF done, Record
    <3>2. NextAppend(e) = [done EXCEPT !.left = e.left - 1]
      BY <2>4, <3>1 DEF NextAppend, done
    <3>3. QED
      BY <1>2, <2>1, <2>4, <3>2
  <2>5. CASE e.doing = "header" /\ ~(e.left > 1)
    BY <2>2, <2>5 DEF NextAppend, done
  <2>6. CASE e.doing # "header"
    BY <2>3, <2>6 DEF NextAppend, done
  <2>7. QED
    BY <2>4, <2>5, <2>6
<1>4. /\ [NextAppend(e) EXCEPT !.doing = "footer"] \in Record
      /\ [NextAppend(e) EXCEPT !.doing = "footer"].pc = "idle"
      /\ [NextAppend(e) EXCEPT !.doing = "footer"].doing = "footer"
  BY <1>3 DEF Record
<1>5. QED
  BY <1>3, <1>4 DEF AfterAppend

(* The state of the other runs, and of this one.                           *)
Becomes(r, e) == run' = [run EXCEPT ![r] = e]

LEMMA OneRun ==
    ASSUME NEW r \in Runs, NEW e \in Record, run \in [Runs -> Record], Becomes(r, e)
    PROVE  /\ run' \in [Runs -> Record]
           /\ run'[r] = e
           /\ \A s \in Runs : s # r => run'[s] = run[s]
  BY DEF Becomes

Only(r) == run' \in [Runs -> Record] /\ \A s \in Runs : s # r => run'[s] = run[s]

AtLog == {"header", "failed", "footer"}

LEMMA OpenAppendEffect ==
    ASSUME TypeOK, NEW r \in Runs, OpenAppend(r)
    PROVE  /\ Only(r) /\ run[r].pc = "idle" /\ run[r].doing \in AtLog
           /\ \/ /\ CanOpen("write", Shared)
                 /\ handles' = handles \cup {Appending(r)}
                 /\ run'[r].pc = "write" /\ run'[r].doing = run[r].doing
              \/ /\ ~CanOpen("write", Shared) /\ handles' = handles
                 /\ run'[r].pc = "idle"
<1>1. run \in [Runs -> Record] /\ run[r] \in Record
  BY DEF TypeOK, Record
<1>2. Appending(r).mode = "write" /\ Appending(r).share = Shared
  BY DEF Appending, Handle
<1>3. CASE CanOpen("write", Shared)
  <2> DEFINE e == [run[r] EXCEPT !.pc = "write"]
  <2>1. /\ Becomes(r, e) /\ e \in Record /\ e.pc = "write" /\ e.doing = run[r].doing
        /\ handles' = handles \cup {Appending(r)}
        /\ run[r].pc = "idle" /\ run[r].doing \in AtLog
    BY <1>1, <1>2, <1>3 DEF OpenAppend, Becomes, Record, AtLog
  <2> HIDE DEF e
  <2>2. QED
    BY <1>1, <1>3, <2>1, OneRun DEF Only
<1>4. CASE ~CanOpen("write", Shared)
  <2> DEFINE e == AfterAppend(r, run[r])
  <2>1. /\ Becomes(r, e) /\ e \in Record /\ e.pc = "idle"
        /\ handles' = handles /\ run[r].pc = "idle" /\ run[r].doing \in AtLog
    BY <1>1, <1>2, <1>4, AppendReturns DEF OpenAppend, Becomes, AtLog
  <2> HIDE DEF e
  <2>2. QED
    BY <1>1, <1>4, <2>1, OneRun DEF Only
<1>5. QED
  BY <1>3, <1>4

LEMMA WriteAppendEffect ==
    ASSUME TypeOK, NEW r \in Runs, WriteAppend(r)
    PROVE  /\ Only(r) /\ run[r].pc = "write"
           /\ run'[r].pc = "trim" /\ run'[r].doing = run[r].doing
           /\ Write(r) /\ handles' = Others(r)
           /\ UNCHANGED <<temps, tick, disturbed, crashed>>
<1> DEFINE e == [run[r] EXCEPT !.pc = "trim"]
<1>1. run \in [Runs -> Record] /\ run[r] \in Record
  BY DEF TypeOK, Record
<1>2. Becomes(r, e) /\ e \in Record /\ e.pc = "trim" /\ e.doing = run[r].doing
  BY <1>1 DEF WriteAppend, Becomes, Record
<1> HIDE DEF e
<1>3. QED
  BY <1>1, <1>2, OneRun DEF Only, WriteAppend

LEMMA WriteFailsEffect ==
    ASSUME TypeOK, NEW r \in Runs, WriteFails(r)
    PROVE  /\ Only(r) /\ run[r].pc = "write"
           /\ run'[r].pc = "trim" /\ run'[r].doing = run[r].doing
           /\ handles' = Others(r)
           /\ UNCHANGED <<log, written, temps, tick, exposed, disturbed, crashed>>
<1> DEFINE e == [run[r] EXCEPT !.pc = "trim"]
<1>1. run \in [Runs -> Record] /\ run[r] \in Record
  BY DEF TypeOK, Record
<1>2. Becomes(r, e) /\ e \in Record /\ e.pc = "trim" /\ e.doing = run[r].doing
  BY <1>1 DEF WriteFails, Becomes, Record
<1> HIDE DEF e
<1>3. QED
  BY <1>1, <1>2, OneRun DEF Only, WriteFails

TempName(r) == <<ProcessOf[r], tick>>

LEMMA OpenTrimEffect ==
    ASSUME TypeOK, NEW r \in Runs, OpenTrim(r)
    PROVE  /\ Only(r) /\ run[r].pc = "trim"
           /\ \/ /\ CanOpen("read", Shared)
                 /\ Len(log) > Limit /\ ~Opened(TempName(r))
                 /\ handles' = handles \cup {Reading(r)}
                 /\ temps' = Created(TempName(r))
                 /\ run'[r].pc = "copy" /\ run'[r].doing = run[r].doing
                 /\ run'[r].size = Len(log) /\ run'[r].temp = TempName(r)
              \/ /\ ~(CanOpen("read", Shared) /\ Len(log) > Limit
                        /\ ~Opened(TempName(r)))
                 /\ run'[r].pc = "idle" /\ UNCHANGED <<handles, temps>>
<1>1. run \in [Runs -> Record] /\ run[r] \in Record
  BY DEF TypeOK, Record
<1>2. Reading(r).mode = "read" /\ Reading(r).share = Shared
  BY DEF Reading, Handle
<1>3. TempName(r) \in TempNames /\ Len(log) \in Nat
  BY DEF TempName, TempNames, Processes, TypeOK
<1>4. CASE CanOpen("read", Shared) /\ Len(log) > Limit /\ ~Opened(TempName(r))
  <2> DEFINE e == [run[r] EXCEPT !.pc = "copy", !.size = Len(log), !.temp = TempName(r)]
  <2>1. /\ handles' = handles \cup {Reading(r)}
        /\ temps' = Created(TempName(r))
        /\ run[r].pc = "trim"
        /\ run' = [run EXCEPT ![r].pc = "copy", ![r].size = Len(log),
                              ![r].temp = TempName(r)]
    BY <1>2, <1>4 DEF OpenTrim, TempName
  <2>2. Becomes(r, e)
    BY <1>1, <2>1 DEF Becomes
  <2>3. /\ e \in Record /\ e.pc = "copy" /\ e.doing = run[r].doing
        /\ e.size = Len(log) /\ e.temp = TempName(r)
    BY <1>1, <1>3 DEF Record
  <2> HIDE DEF e
  <2>4. QED
    BY <1>1, <1>4, <2>1, <2>2, <2>3, OneRun DEF Only
<1>5. CASE ~(CanOpen("read", Shared) /\ Len(log) > Limit /\ ~Opened(TempName(r)))
  <2> DEFINE e == AfterAppend(r, run[r])
  <2>1. /\ Becomes(r, e) /\ e \in Record /\ e.pc = "idle"
        /\ UNCHANGED <<handles, temps>> /\ run[r].pc = "trim"
    BY <1>1, <1>2, <1>5, AppendReturns DEF OpenTrim, Becomes, TempName
  <2> HIDE DEF e
  <2>2. QED
    BY <1>1, <1>5, <2>1, OneRun DEF Only
<1>6. QED
  BY <1>4, <1>5

LEMMA CopyTailEffect ==
    ASSUME TypeOK, NEW r \in Runs, CopyTail(r)
    PROVE  /\ Only(r) /\ run[r].pc = "copy"
           /\ run'[r].pc = "move" /\ run'[r].doing = run[r].doing
           /\ run'[r].temp = run[r].temp
           /\ temps' = [temps EXCEPT ![run[r].temp] = @ \o Kept(run[r].size)]
           /\ handles' = Others(r)
           /\ UNCHANGED <<log, written, tick, exposed, disturbed, crashed>>
<1> DEFINE e == [run[r] EXCEPT !.pc = "move"]
<1>1. run \in [Runs -> Record] /\ run[r] \in Record
  BY DEF TypeOK, Record
<1>2. /\ Becomes(r, e) /\ e \in Record /\ e.pc = "move" /\ e.doing = run[r].doing
      /\ e.temp = run[r].temp
  BY <1>1 DEF CopyTail, Becomes, Record
<1> HIDE DEF e
<1>3. QED
  BY <1>1, <1>2, OneRun DEF Only, CopyTail

(* The part of the copy that is there when a read or a write fails.        *)
Part(r, n) == SubSeq(Kept(run[r].size), 1, n)

LEMMA CopyFailsEffect ==
    ASSUME TypeOK, NEW r \in Runs, CopyFails(r)
    PROVE  /\ Only(r) /\ run[r].pc = "copy"
           /\ run'[r].pc = "delete" /\ run'[r].doing = run[r].doing
           /\ run'[r].temp = run[r].temp
           /\ \E n \in 0 .. Limit - 1 :
                temps' = [temps EXCEPT ![run[r].temp] = @ \o Part(r, n)]
           /\ handles' = Others(r) /\ disturbed'
           /\ exposed' = IF \E s \in Runs : run[s].pc = "move"
                                             /\ run[s].temp = run[r].temp
                         THEN 1 .. written ELSE exposed
           /\ UNCHANGED <<log, written, tick, crashed>>
<1> DEFINE e == [run[r] EXCEPT !.pc = "delete"]
<1>1. run \in [Runs -> Record] /\ run[r] \in Record
  BY DEF TypeOK, Record
<1>2. /\ Becomes(r, e) /\ e \in Record /\ e.pc = "delete" /\ e.doing = run[r].doing
      /\ e.temp = run[r].temp
  BY <1>1 DEF CopyFails, Becomes, Record
<1> HIDE DEF e
<1>3. QED
  BY <1>1, <1>2, OneRun DEF Only, CopyFails, Part

LEMMA MoveOverEffect ==
    ASSUME TypeOK, NEW r \in Runs, MoveOver(r)
    PROVE  /\ Only(r) /\ run[r].pc = "move"
           /\ Meets(r) /\ UNCHANGED <<written, handles, tick, exposed, crashed>>
           /\ \/ /\ CanMove(run[r].temp)
                 /\ log' = temps[run[r].temp] /\ temps' = Without(run[r].temp)
                 /\ run'[r].pc = "idle"
              \/ /\ ~CanMove(run[r].temp) /\ UNCHANGED <<log, temps>>
                 /\ run'[r].pc = "delete" /\ run'[r].doing = run[r].doing
                 /\ run'[r].temp = run[r].temp
<1>1. run \in [Runs -> Record] /\ run[r] \in Record
  BY DEF TypeOK, Record
<1>2. CASE CanMove(run[r].temp)
  <2> DEFINE e == AfterAppend(r, run[r])
  <2>1. Becomes(r, e) /\ e \in Record /\ e.pc = "idle"
    BY <1>1, <1>2, AppendReturns DEF MoveOver, Replace, Becomes
  <2> HIDE DEF e
  <2>2. QED
    BY <1>1, <1>2, <2>1, OneRun DEF Only, MoveOver, Replace
<1>3. CASE ~CanMove(run[r].temp)
  <2> DEFINE e == [run[r] EXCEPT !.pc = "delete"]
  <2>1. /\ Becomes(r, e) /\ e \in Record /\ e.pc = "delete"
        /\ e.doing = run[r].doing /\ e.temp = run[r].temp
    BY <1>1, <1>3 DEF MoveOver, Replace, Becomes, Record
  <2> HIDE DEF e
  <2>2. QED
    BY <1>1, <1>3, <2>1, OneRun DEF Only, MoveOver, Replace
<1>4. QED
  BY <1>2, <1>3

LEMMA DeleteTempEffect ==
    ASSUME TypeOK, NEW r \in Runs, DeleteTemp(r)
    PROVE  /\ Only(r) /\ run[r].pc = "delete" /\ run'[r].pc = "idle"
           /\ temps' = Deleted(run[r].temp)
           /\ UNCHANGED <<log, written, handles, tick, exposed, disturbed, crashed>>
<1> DEFINE e == AfterAppend(r, run[r])
<1>1. run \in [Runs -> Record] /\ run[r] \in Record
  BY DEF TypeOK, Record
<1>2. Becomes(r, e) /\ e \in Record /\ e.pc = "idle"
  BY <1>1, AppendReturns DEF DeleteTemp, Becomes
<1> HIDE DEF e
<1>3. QED
  BY <1>1, <1>2, OneRun DEF Only, DeleteTemp

(* What a step of the child does to its run.                               *)
ChildActs(r) == StartChild(r) \/ ChildWrites(r) \/ ChildEnds(r)

LEMMA ChildEffect ==
    ASSUME TypeOK, HandleInv, NEW r \in Runs, ChildActs(r)
    PROVE  /\ Only(r) /\ run[r].doing = "child"
           /\ run[r].pc = "idle" /\ run'[r].pc = "idle"
           /\ StartChild(r) /\ handles' # handles => run'[r].doing = "child"
           /\ ChildWrites(r) => Pending(r)' /\ run'[r].doing = "child"
           /\ ChildEnds(r) => Pending(r)'
           /\ StartChild(r) => ~Pending(r)
<1>1. run \in [Runs -> Record] /\ run[r] \in Record
  BY DEF TypeOK, Record
<1>2. run[r].doing = "child" /\ run[r].pc = "idle"
  <2>1. CASE ChildHandle(r) \in handles
    <3>1. /\ ChildHandle(r) # ViewHandle
          /\ \A s \in Runs : /\ ChildHandle(r) # Appending(s)
                             /\ ChildHandle(r) # Reading(s)
                             /\ ChildHandle(r) = ChildHandle(s) => r = s
      <4>1. /\ ChildHandle(r).who = Child(r) /\ ViewHandle.who = Viewer
            /\ \A s \in Runs : /\ Appending(s).who = s /\ Reading(s).who = s
                               /\ ChildHandle(s).who = Child(s)
        BY DEF ChildHandle, ViewHandle, Appending, Reading, Handle
      <4>2. QED
        BY <4>1, Names
    <3>2. run[r].doing = "child"
      BY <2>1, <3>1 DEF HandleInv, HeldBy
    <3>3. QED
      BY <3>2 DEF HandleInv
  <2>2. CASE ChildHandle(r) \notin handles
    <3>1. run[r].doing = "child"
      BY <2>2 DEF ChildActs, StartChild, ChildWrites, ChildEnds
    <3>2. QED
      BY <3>1 DEF HandleInv
  <2>3. QED
    BY <2>1, <2>2
<1>3. ChildTexts + 1 \in Nat /\ ChildTexts + 1 > 0
  BY LogAssumption
<1>4. CASE StartChild(r)
  <2>1. run[r].left = 0 /\ ~Pending(r)
    BY <1>2, <1>4 DEF StartChild, Pending
  <2>2. ASSUME run' = [run EXCEPT ![r].left = ChildTexts + 1]
        PROVE  Only(r) /\ run'[r].pc = "idle" /\ run'[r].doing = "child"
    <3> DEFINE e == [run[r] EXCEPT !.left = ChildTexts + 1]
    <3>1. Becomes(r, e) /\ e \in Record /\ e.pc = "idle" /\ e.doing = "child"
      BY <1>1, <1>2, <1>3, <2>2 DEF Becomes, Record
    <3> HIDE DEF e
    <3>2. QED
      BY <1>1, <3>1, OneRun DEF Only
  <2>3. ASSUME run' = [run EXCEPT ![r].doing = "failed"]
        PROVE  Only(r) /\ run'[r].pc = "idle"
    <3> DEFINE e == [run[r] EXCEPT !.doing = "failed"]
    <3>1. Becomes(r, e) /\ e \in Record /\ e.pc = "idle"
      BY <1>1, <1>2, <2>3 DEF Becomes, Record
    <3> HIDE DEF e
    <3>2. QED
      BY <1>1, <3>1, OneRun DEF Only
  <2>4. ~ChildWrites(r) /\ ~ChildEnds(r)
    BY <1>4, <2>1 DEF StartChild, ChildWrites, ChildEnds
  <2>5. QED
    BY <1>2, <1>4, <2>1, <2>2, <2>3, <2>4 DEF StartChild
<1>5. CASE ChildWrites(r)
  <2> DEFINE e == [run[r] EXCEPT !.left = run[r].left - 1]
  <2>1. run[r].left \in Nat /\ run[r].left > 1 /\ run[r].left - 1 \in Nat
        /\ run[r].left - 1 > 0
    BY <1>1, <1>5 DEF ChildWrites, Record
  <2>2. /\ Becomes(r, e) /\ e \in Record /\ e.pc = "idle" /\ e.doing = "child"
        /\ e.left > 0
    BY <1>1, <1>2, <1>5, <2>1 DEF ChildWrites, Becomes, Record
  <2> HIDE DEF e
  <2>3. Only(r) /\ run'[r] = e
    BY <1>1, <2>2, OneRun DEF Only
  <2>4. ~StartChild(r)
    BY <1>5 DEF StartChild, ChildWrites
  <2>5. QED
    BY <1>2, <2>2, <2>3, <2>4 DEF Pending
<1>6. CASE ChildEnds(r)
  <2> DEFINE e == [run[r] EXCEPT !.doing = "footer", !.left = 0]
  <2>1. Becomes(r, e) /\ e \in Record /\ e.pc = "idle" /\ e.doing = "footer"
    BY <1>1, <1>2, <1>6 DEF ChildEnds, Becomes, Record
  <2> HIDE DEF e
  <2>2. Only(r) /\ run'[r] = e
    BY <1>1, <2>1, OneRun DEF Only
  <2>3. ~StartChild(r) /\ ~ChildWrites(r)
    <3>1. ~StartChild(r)
      BY <1>1, <1>6 DEF StartChild, ChildEnds, Record
    <3>2. ChildWrites(r) => handles' = handles /\ ChildHandle(r) \in handles
      BY DEF ChildWrites
    <3>3. handles' = handles \ {ChildHandle(r)}
      BY <1>6 DEF ChildEnds
    <3>4. QED
      BY <3>1, <3>2, <3>3
  <2>4. QED
    BY <1>2, <2>1, <2>2, <2>3 DEF Pending
<1>7. QED
  BY <1>4, <1>5, <1>6 DEF ChildActs

LEMMA CrashEffect ==
    ASSUME TypeOK, NEW p \in Processes, Crash(p)
    PROVE  /\ run' \in [Runs -> Record]
           /\ \A r \in Runs :
                \/ ProcessOf[r] = p /\ run'[r].pc = "idle" /\ run'[r].doing = "end"
                \/ ProcessOf[r] # p /\ run'[r] = run[r]
           /\ \A h : h \in handles' <=>
                h \in handles /\ \A r \in Runs : ProcessOf[r] = p => h.who \notin {r, Child(r)}
           /\ ~crashed /\ crashed'
           /\ UNCHANGED <<log, written, temps, tick, exposed, disturbed>>
<1>1. run \in [Runs -> Record]
  BY DEF TypeOK, Record
<1> DEFINE killed == [doing |-> "end", pc |-> "idle", left |-> 0, size |-> 0,
                      temp |-> <<>>]
<1>2. killed \in Record /\ killed.pc = "idle" /\ killed.doing = "end"
  BY DEF Record
<1>3. \A r \in Runs : run'[r] = IF ProcessOf[r] = p THEN killed ELSE run[r]
  BY DEF Crash
<1> HIDE DEF killed
<1>4. run' \in [Runs -> Record]
  <2>1. \A r \in Runs : run'[r] \in Record
    BY <1>1, <1>2, <1>3
  <2>2. run' = [r \in Runs |-> run'[r]]
    BY DEF Crash
  <2>3. QED
    BY <2>1, <2>2
<1>5. QED
  BY <1>2, <1>3, <1>4 DEF Crash

-----------------------------------------------------------------------------
(* Who is refused.                                                         *)
LEMMA HandleNames ==
    /\ \A r \in Runs :
         /\ Appending(r) = [who |-> r, mode |-> "write", share |-> Shared]
         /\ Reading(r) = [who |-> r, mode |-> "read", share |-> Shared]
         /\ ChildHandle(r) = [who |-> Child(r), mode |-> "write", share |-> Shared]
         /\ Appending(r) \in LogHandles /\ Reading(r) \in LogHandles
         /\ ChildHandle(r) \in LogHandles
    /\ ViewHandle = [who |-> Viewer, mode |-> "read", share |-> {"read"}]
    /\ ViewHandle \in LogHandles
  BY DEF Appending, Reading, ChildHandle, ViewHandle, Handle, LogHandles, Shared

LEMMA Refused ==
    ASSUME HandleInv
    PROVE  /\ ~CanOpen("write", Shared) <=> view.at = "reading"
           /\ CanOpen("read", Shared)
<1>1. \A h \in handles :
        /\ h.mode \in Shared /\ "read" \in h.share
        /\ (h = ViewHandle /\ view.at = "reading") \/ "write" \in h.share
  BY HandleNames DEF HandleInv, HeldBy, Shared
<1>2. view.at = "reading" => ViewHandle \in handles /\ "write" \notin ViewHandle.share
  BY HandleNames DEF HandleInv
<1>3. QED
  BY <1>1, <1>2 DEF CanOpen

(* The handles of a run that is not reading or writing, and of the others. *)
LEMMA HandleStep ==
    ASSUME TypeOK, HandleInv, LogNext, UNCHANGED view
    PROVE  HandleInv' /\ handles' \subseteq LogHandles
<1>0. handles \subseteq LogHandles /\ \A r \in Runs : run[r] \in Record
  BY DEF TypeOK, Record
<1>1. ASSUME NEW r \in Runs, Only(r),
             \A h \in handles' : h \in handles \/ HeldBy(h, r)',
             \A h \in handles : h \in handles' \/ h.who = r \/ h = ChildHandle(r),
             \A h \in handles' : HeldBy(h, r) => HeldBy(h, r)',
             run'[r].pc = "write" => Appending(r) \in handles',
             run'[r].pc = "copy" => Reading(r) \in handles',
             run'[r].pc # "idle" => run'[r].doing \in AtLog,
             view.at = "reading" => \A h \in handles' : h.mode = "read"
      PROVE  HandleInv' /\ handles' \subseteq LogHandles
  <2>1. \A h, s : HeldBy(h, s)' <=>
          \/ h = Appending(s) /\ run'[s].pc = "write"
          \/ h = Reading(s) /\ run'[s].pc = "copy"
          \/ h = ChildHandle(s) /\ run'[s].doing = "child"
    BY DEF HeldBy, Appending, Reading, ChildHandle, Handle, Child, Shared
  <2>2. \A h, s : s \in Runs /\ s # r => (HeldBy(h, s)' <=> HeldBy(h, s))
    BY <1>1, <2>1 DEF Only, HeldBy
  <2>3. \A h \in handles' :
          \/ h = ViewHandle /\ view.at = "reading"
          \/ \E s \in Runs : HeldBy(h, s)'
    BY <1>1, <2>2 DEF HandleInv
  <2>4. ASSUME NEW s \in Runs, s # r
        PROVE  /\ run'[s].pc = "write" => Appending(s) \in handles'
               /\ run'[s].pc = "copy" => Reading(s) \in handles'
               /\ run'[s].pc # "idle" => run'[s].doing \in AtLog
    <3>1. run'[s] = run[s]
      BY <1>1, <2>4 DEF Only
    <3>2. /\ Appending(s).who # r /\ Appending(s) # ChildHandle(r)
          /\ Reading(s).who # r /\ Reading(s) # ChildHandle(r)
      BY <2>4, HandleNames, Names
    <3>3. QED
      BY <1>1, <3>1, <3>2 DEF HandleInv, AtLog
  <2>5. view.at = "reading" =>
          ViewHandle \in handles' /\ \A h \in handles' : h.mode = "read"
    <3>1. ViewHandle.who # r /\ ViewHandle # ChildHandle(r)
      BY HandleNames, Names
    <3>2. QED
      BY <1>1, <3>1 DEF HandleInv
  <2>6. HandleInv'
    BY <1>1, <2>3, <2>4, <2>5
       DEF HandleInv, AtLog, Appending, Reading, ViewHandle, Handle, Shared
  <2>7. \A h, s : s \in Runs /\ HeldBy(h, s)' => h \in LogHandles
    BY <2>1, HandleNames
  <2>8. QED
    BY <1>0, <1>1, <2>6, <2>7
<1>2. ASSUME NEW r \in Runs, OpenAppend(r)
      PROVE  HandleInv' /\ handles' \subseteq LogHandles
  <2>1. /\ Only(r) /\ run[r].pc = "idle" /\ run[r].doing \in AtLog
        /\ \/ /\ view.at # "reading" /\ handles' = handles \cup {Appending(r)}
              /\ run'[r].pc = "write" /\ run'[r].doing = run[r].doing
           \/ view.at = "reading" /\ handles' = handles /\ run'[r].pc = "idle"
    BY <1>2, OpenAppendEffect, Refused
  <2>2. \A h : ~HeldBy(h, r)
    BY <2>1 DEF HeldBy, AtLog
  <2>3. HeldBy(Appending(r), r)' <=> run'[r].pc = "write" \/ HeldBy(Appending(r), r)'
    BY DEF HeldBy, Appending, Handle, Shared
  <2>4. QED
    BY <1>1, <2>1, <2>2, <2>3 DEF HandleInv
<1>3. ASSUME NEW r \in Runs,
             WriteAppend(r) \/ WriteFails(r) \/ CopyTail(r) \/ CopyFails(r)
      PROVE  HandleInv' /\ handles' \subseteq LogHandles
  <2>1. /\ Only(r) /\ handles' = Others(r) /\ run[r].pc \in {"write", "copy"}
        /\ run'[r].doing = run[r].doing
        /\ run'[r].pc \in {"trim", "move", "delete"}
    BY <1>3, WriteAppendEffect, WriteFailsEffect, CopyTailEffect, CopyFailsEffect
  <2>2. run[r].doing \in AtLog
    BY <2>1 DEF HandleInv, AtLog
  <2>3. \A h \in handles' : ~HeldBy(h, r)
    BY <2>1, <2>2, HandleNames DEF Others, HeldBy, AtLog
  <2>4. handles' \subseteq handles /\ \A h \in handles : h \in handles' \/ h.who = r
    BY <2>1 DEF Others
  <2>5. QED
    BY <1>1, <2>1, <2>2, <2>3, <2>4 DEF HandleInv
<1>4. ASSUME NEW r \in Runs, OpenTrim(r)
      PROVE  HandleInv' /\ handles' \subseteq LogHandles
  <2>1. /\ Only(r) /\ run[r].pc = "trim"
        /\ \/ /\ handles' = handles \cup {Reading(r)}
              /\ run'[r].pc = "copy" /\ run'[r].doing = run[r].doing
           \/ handles' = handles /\ run'[r].pc = "idle"
    BY <1>4, OpenTrimEffect
  <2>2. run[r].doing \in AtLog /\ \A h : ~HeldBy(h, r)
    BY <2>1 DEF HandleInv, AtLog, HeldBy
  <2>3. HeldBy(Reading(r), r)' <=> run'[r].pc = "copy" \/ HeldBy(Reading(r), r)'
    BY DEF HeldBy, Reading, Handle, Shared
  <2>4. Reading(r).mode = "read"
    BY HandleNames
  <2>5. QED
    BY <1>1, <2>1, <2>2, <2>3, <2>4 DEF HandleInv
<1>5. ASSUME NEW r \in Runs, MoveOver(r) \/ DeleteTemp(r)
      PROVE  HandleInv' /\ handles' \subseteq LogHandles
  <2>1. /\ Only(r) /\ handles' = handles /\ run[r].pc \in {"move", "delete"}
        /\ \/ run'[r].pc = "idle"
           \/ run'[r].pc = "delete" /\ run'[r].doing = run[r].doing
    BY <1>5, MoveOverEffect, DeleteTempEffect
  <2>2. run[r].doing \in AtLog /\ \A h : ~HeldBy(h, r)
    BY <2>1 DEF HandleInv, AtLog, HeldBy
  <2>3. QED
    BY <1>1, <2>1, <2>2 DEF HandleInv
<1>6. ASSUME NEW r \in Runs, ChildActs(r)
      PROVE  HandleInv' /\ handles' \subseteq LogHandles
  <2>1. /\ Only(r) /\ run[r].doing = "child" /\ run'[r].pc = "idle"
        /\ run[r].pc = "idle"
        /\ StartChild(r) /\ handles' # handles => run'[r].doing = "child"
        /\ ChildWrites(r) => run'[r].doing = "child"
    BY <1>6, ChildEffect
  <2>2. HeldBy(ChildHandle(r), r)' <=> run'[r].doing = "child" \/ HeldBy(ChildHandle(r), r)'
    BY DEF HeldBy, ChildHandle, Handle, Shared, Child
  <2>3. \A h : HeldBy(h, r) => h = ChildHandle(r)
    BY <2>1 DEF HeldBy
  <2>4. CASE StartChild(r)
    <3>1. /\ ChildHandle(r) \notin handles
          /\ \/ handles' = handles
             \/ CanOpen("write", Shared) /\ handles' = handles \cup {ChildHandle(r)}
      BY <2>4 DEF StartChild
    <3>2. view.at = "reading" => handles' = handles
      BY <3>1, Refused
    <3>3. \A h \in handles' : HeldBy(h, r) => HeldBy(h, r)'
      BY <2>1, <2>2, <2>3, <2>4, <3>1
    <3>4. QED
      BY <1>1, <2>1, <2>2, <2>4, <3>1, <3>2, <3>3 DEF HandleInv
  <2>5. CASE ChildWrites(r)
    <3>1. handles' = handles
      BY <2>5 DEF ChildWrites
    <3>2. QED
      BY <1>1, <2>1, <2>2, <2>3, <2>5, <3>1 DEF HandleInv
  <2>6. CASE ChildEnds(r)
    <3>1. handles' = handles \ {ChildHandle(r)}
      BY <2>6 DEF ChildEnds
    <3>2. QED
      BY <1>1, <2>1, <2>3, <3>1 DEF HandleInv
  <2>7. QED
    BY <1>6, <2>4, <2>5, <2>6 DEF ChildActs
<1>7. ASSUME NEW p \in Processes, Crash(p)
      PROVE  HandleInv' /\ handles' \subseteq LogHandles
  <2>1. /\ \A r \in Runs :
             \/ ProcessOf[r] = p /\ run'[r].pc = "idle" /\ run'[r].doing = "end"
             \/ ProcessOf[r] # p /\ run'[r] = run[r]
        /\ \A h : h \in handles' <=>
             h \in handles /\ \A r \in Runs : ProcessOf[r] = p => h.who \notin {r, Child(r)}
    BY <1>7, CrashEffect
  <2>2. \A h, s : HeldBy(h, s)' <=>
          \/ h = Appending(s) /\ run'[s].pc = "write"
          \/ h = Reading(s) /\ run'[s].pc = "copy"
          \/ h = ChildHandle(s) /\ run'[s].doing = "child"
    BY DEF HeldBy, Appending, Reading, ChildHandle, Handle, Child, Shared
  <2>3. \A h, s : s \in Runs /\ HeldBy(h, s) => h.who \in {s, Child(s)}
    BY HandleNames DEF HeldBy
  <2>4. \A h \in handles' :
          \/ h = ViewHandle /\ view.at = "reading"
          \/ \E s \in Runs : HeldBy(h, s)'
    <3> TAKE h \in handles'
    <3>1. CASE h = ViewHandle /\ view.at = "reading"
      BY <3>1
    <3>2. ASSUME NEW s \in Runs, HeldBy(h, s) PROVE HeldBy(h, s)'
      <4>1. ProcessOf[s] # p
        BY <2>1, <2>3, <3>2
      <4>2. QED
        BY <2>1, <2>2, <3>2, <4>1 DEF HeldBy
    <3>3. QED
      BY <2>1, <3>1, <3>2 DEF HandleInv
  <2>5. ASSUME NEW s \in Runs
        PROVE  /\ run'[s].pc = "write" => Appending(s) \in handles'
               /\ run'[s].pc = "copy" => Reading(s) \in handles'
               /\ run'[s].pc # "idle" => run'[s].doing \in AtLog
    <3>1. CASE ProcessOf[s] = p
      BY <2>1, <3>1
    <3>2. CASE ProcessOf[s] # p
      <4>1. run'[s] = run[s]
        BY <2>1, <3>2
      <4>2. \A r \in Runs : ProcessOf[r] = p =>
              /\ Appending(s).who \notin {r, Child(r)}
              /\ Reading(s).who \notin {r, Child(r)}
        BY <3>2, HandleNames, Names
      <4>3. QED
        BY <2>1, <4>1, <4>2 DEF HandleInv, AtLog
    <3>3. QED
      BY <3>1, <3>2
  <2>6. view.at = "reading" =>
          ViewHandle \in handles' /\ \A h \in handles' : h.mode = "read"
    <3>1. \A r \in Runs : ViewHandle.who \notin {r, Child(r)}
      BY HandleNames, Names
    <3>2. QED
      BY <2>1, <3>1 DEF HandleInv
  <2>7. QED
    BY <1>0, <2>1, <2>4, <2>5, <2>6
       DEF HandleInv, AtLog, Appending, Reading, ViewHandle, Handle, Shared
<1>8. CASE Tick
  BY <1>0, <1>8
     DEF Tick, HandleInv, HeldBy, Appending, Reading, ChildHandle, ViewHandle,
         Handle, Shared, Child
<1>9. QED
  BY <1>2, <1>3, <1>4, <1>5, <1>6, <1>7, <1>8 DEF LogNext, ChildActs

-----------------------------------------------------------------------------
(* What the log and the copies hold.                                       *)
DataInv == Spaced(log) /\ NewestKept /\ TempInv /\ TrimInv

Data == TypeOK /\ HandleInv /\ DataInv

(* A text more at the end.                                                 *)
LEMMA WriteText ==
    ASSUME Data, NEW r \in Runs, Write(r)
    PROVE  /\ written' = written + 1 /\ written' \in Nat
           /\ log' \in Seq(1 .. written') /\ Len(log') = Len(log) + 1
           /\ \A i \in 1 .. Len(log) : log'[i] = log[i]
           /\ log'[Len(log) + 1] = written + 1
           /\ Spaced(log') /\ NewestKept'
           /\ exposed \subseteq exposed' /\ exposed' \subseteq 1 .. written'
           /\ (\E s \in Runs \ {r} : Trimming(s)) => written + 1 \in exposed'
<1>1. written \in Nat /\ log \in Seq(1 .. written) /\ exposed \subseteq 1 .. written
  BY DEF Data, TypeOK
<1>2. /\ written' = written + 1 /\ log' = Append(log, written + 1)
      /\ exposed' = IF \E s \in Runs \ {r} : Trimming(s)
                    THEN exposed \cup {written + 1} ELSE exposed
  BY DEF Write
<1>3. /\ log' \in Seq(1 .. written + 1) /\ Len(log') = Len(log) + 1
      /\ log'[Len(log) + 1] = written + 1
      /\ DOMAIN log = 1 .. Len(log) /\ Len(log) \in Nat
      /\ \A i \in 1 .. Len(log) : log'[i] = log[i] /\ log[i] \in 1 .. written
      /\ DOMAIN log' = 1 .. Len(log) + 1
  BY <1>1, <1>2, AppendText, Elements
<1>4. Spaced(log')
  <2> SUFFICES ASSUME NEW i \in 1 .. Len(log) + 1, NEW j \in 1 .. Len(log) + 1, i < j
               PROVE  log'[j] - log'[i] >= j - i
    BY <1>3 DEF Spaced
  <2>1. i \in 1 .. Len(log) /\ log'[i] = log[i]
    BY <1>3
  <2>2. \A k \in 1 .. Len(log) : i < k => log[k] - log[i] >= k - i
    BY <1>3, <2>1 DEF Data, DataInv, Spaced
  <2>3. CASE j \in 1 .. Len(log)
    BY <1>3, <2>1, <2>2, <2>3
  <2>4. CASE j = Len(log) + 1
    <3>1. log'[j] = written + 1 /\ log[Len(log)] \in 1 .. written /\ log[i] \in 1 .. written
      BY <1>3, <2>1, <2>4
    <3>2. CASE i = Len(log)
      BY <1>1, <1>3, <2>1, <2>4, <3>1, <3>2
    <3>3. CASE i < Len(log)
      <4>1. log[Len(log)] - log[i] >= Len(log) - i
        BY <1>3, <2>1, <2>2, <3>3
      <4>2. /\ log'[j] = written + 1 /\ log'[i] = log[i] /\ j = Len(log) + 1
            /\ log[Len(log)] \in Int /\ log[i] \in Int /\ written \in Int
            /\ log[Len(log)] <= written /\ Len(log) \in Int /\ i \in Int
        BY <1>1, <1>3, <2>1, <2>4, <3>1
      <4>3. QED
        BY <4>1, <4>2
    <3>4. i <= Len(log) /\ Len(log) \in Nat /\ i \in Nat
      BY <1>3, <2>1
    <3>5. QED
      BY <3>2, <3>3, <3>4
  <2>5. QED
    BY <1>3, <2>3, <2>4
<1>5. exposed \subseteq exposed' /\ exposed' \subseteq 1 .. written + 1
  BY <1>1, <1>2
<1>6. NewestKept'
  <2> SUFFICES ASSUME NEW n \in 1 .. written', n > written' - Limit,
                      ~(\E i \in DOMAIN log' : log'[i] = n)
               PROVE  n \in exposed'
    BY DEF NewestKept
  <2>1. n # written + 1
    BY <1>3
  <2>2. n \in 1 .. written /\ n > written - Limit
    BY <1>1, <1>2, <2>1, LogAssumption
  <2>3. ~(\E i \in DOMAIN log : log[i] = n)
    BY <1>3
  <2>4. QED
    BY <1>5, <2>2, <2>3 DEF Data, DataInv, NewestKept
<1>7. QED
  BY <1>1, <1>2, <1>3, <1>4, <1>5, <1>6

(* The newest Limit texts of a log that has grown by exposed ones.         *)
LEMMA CopyHasNewest ==
    ASSUME Data, NEW r \in Runs, run[r].pc = "copy"
    PROVE  /\ Kept(run[r].size) \in Seq(1 .. written)
           /\ Len(Kept(run[r].size)) = Limit
           /\ Spaced(Kept(run[r].size)) /\ HasNewest(Kept(run[r].size))
<1> DEFINE size == run[r].size
           K == Kept(size)
<1>1. /\ written \in Nat /\ log \in Seq(1 .. written) /\ size \in Nat
      /\ Limit \in Nat \ {0}
  BY LogAssumption DEF Data, TypeOK
<1>2. /\ size > Limit /\ size <= Len(log)
      /\ \A i \in DOMAIN log : i > size => log[i] \in exposed
  BY DEF Data, DataInv, TrimInv, TrimOf
<1> HIDE DEF size
<1>3. /\ K \in Seq(1 .. written) /\ Len(K) = Limit /\ DOMAIN K = 1 .. Limit
      /\ \A i \in 1 .. Limit : K[i] = log[size - Limit + i]
  BY <1>1, <1>2, KeptTexts, Elements
<1>4. /\ DOMAIN log = 1 .. Len(log) /\ Len(log) \in Nat
      /\ \A i \in 1 .. Len(log) : log[i] \in 1 .. written
  BY <1>1, Elements
<1>5. \A i, j \in 1 .. Len(log) : i < j => log[j] - log[i] >= j - i
  BY <1>4 DEF Data, DataInv, Spaced
<1> HIDE DEF K
<1>6. Spaced(K)
  <2> SUFFICES ASSUME NEW i \in 1 .. Limit, NEW j \in 1 .. Limit, i < j
               PROVE  K[j] - K[i] >= j - i
    BY <1>3 DEF Spaced
  <2>1. /\ size - Limit + i \in 1 .. Len(log) /\ size - Limit + j \in 1 .. Len(log)
        /\ size - Limit + i < size - Limit + j
        /\ (size - Limit + j) - (size - Limit + i) = j - i
    BY <1>1, <1>2, <1>4
  <2>2. log[size - Limit + j] - log[size - Limit + i] >= j - i
    BY <1>5, <2>1
  <2>3. QED
    BY <1>3, <2>2
<1>7. HasNewest(K)
  <2> SUFFICES ASSUME NEW n \in 1 .. written, n > written - Limit,
                      ~(\E i \in DOMAIN K : K[i] = n)
               PROVE  n \in exposed
    BY DEF HasNewest
  <2>1. CASE ~(\E i \in DOMAIN log : log[i] = n)
    BY <2>1 DEF Data, DataInv, NewestKept
  <2>2. ASSUME NEW i \in DOMAIN log, log[i] = n PROVE n \in exposed
    <3>1. CASE i > size
      BY <1>2, <2>2, <3>1
    <3>2. CASE i <= size /\ i > size - Limit
      <4>1. i - (size - Limit) \in 1 .. Limit
            /\ size - Limit + (i - (size - Limit)) = i
        BY <1>1, <1>4, <3>2
      <4>2. K[i - (size - Limit)] = n
        BY <1>3, <2>2, <4>1
      <4>3. QED
        BY <1>3, <4>1, <4>2
    <3>3. CASE i <= size - Limit
      <4>1. size \in 1 .. Len(log) /\ i < size /\ i \in 1 .. Len(log)
        BY <1>1, <1>2, <1>4, <3>3
      <4>2. log[size] - n >= size - i /\ log[size] \in 1 .. written
        BY <1>4, <1>5, <2>2, <4>1
      <4>3. QED
        BY <1>1, <1>4, <3>3, <4>1, <4>2
    <3>4. QED
      BY <1>1, <1>4, <3>1, <3>2, <3>3
  <2>3. QED
    BY <2>1, <2>2
<1>8. QED
  BY <1>3, <1>6, <1>7 DEF K, size

(* A step that leaves copies and trims alone, but may end some of them.    *)
TrimsStay ==
    \A s \in Runs :
        /\ run'[s].pc \in {"copy", "move"} => run'[s] = run[s]
        /\ run'[s].pc = "delete" => Owns(s) /\ run'[s].temp = run[s].temp
        /\ run'[s].pc = "move" /\ Opened(run[s].temp) => Opened(run[s].temp)'

LEMMA TempsStay ==
    ASSUME Data, UNCHANGED temps, TrimsStay, written' \in {written, written + 1}
    PROVE  TempInv'
<1>1. written \in Nat
  BY DEF Data, TypeOK
<1>2. \A n \in DOMAIN temps :
        /\ temps[n] \in Seq(1 .. written) /\ Spaced(temps[n])
        /\ Len(temps[n]) <= Limit
  BY DEF Data, DataInv, TempInv
<1>3. \A n \in DOMAIN temps : temps[n] \in Seq(1 .. written')
  BY <1>1, <1>2, MoreTexts
<1>4. ASSUME NEW s \in Runs, Owns(s)'
      PROVE  Owns(s) /\ run'[s].temp = run[s].temp
  BY <1>4 DEF Owns, TrimsStay
<1>5. ASSUME NEW s \in Runs, run'[s].pc = "copy"
      PROVE  /\ run'[s].temp \in DOMAIN temps /\ temps[run'[s].temp] = <<>>
             /\ \A u \in Runs :
                  run'[u].pc = "copy" /\ run'[u].temp = run'[s].temp => u = s
  BY <1>5 DEF TrimsStay, Data, DataInv, TempInv
<1>6. \A n \in DOMAIN temps : Spaced(temps[n])'
  BY <1>2 DEF Spaced
<1>7. QED
  BY <1>2, <1>3, <1>4, <1>5, <1>6 DEF TempInv, Data, DataInv

LEMMA QuietStep ==
    ASSUME Data, TrimsStay, UNCHANGED <<log, written, exposed, temps>>
    PROVE  DataInv'
<1>1. TempInv'
  BY TempsStay
<1>2. TrimInv'
  <2> SUFFICES ASSUME NEW s \in Runs PROVE TrimOf(s)'
    BY DEF TrimInv
  <2>1. CASE run'[s].pc = "copy"
    BY <2>1 DEF TrimsStay, Data, DataInv, TrimInv, TrimOf
  <2>2. CASE run'[s].pc = "move" /\ run'[s].temp \in DOMAIN temps' /\ ~Opened(run[s].temp)'
    <3>1. run'[s] = run[s] /\ ~Opened(run[s].temp)
      BY <2>2 DEF TrimsStay
    <3>2. HasNewest(temps[run[s].temp])
      BY <2>2, <3>1 DEF Data, DataInv, TrimInv, TrimOf
    <3>3. HasNewest(temps[run[s].temp])'
      BY <3>1, <3>2 DEF HasNewest
    <3>4. QED
      BY <2>2, <3>1, <3>3 DEF TrimOf
  <2>3. QED
    BY <2>1, <2>2 DEF TrimOf
<1>3. Spaced(log)' /\ NewestKept'
  BY DEF Data, DataInv, Spaced, NewestKept
<1>4. QED
  BY <1>1, <1>2, <1>3 DEF DataInv

(* What is written is exposed to every trim, the writer's own not going on.*)
LEMMA WriteStep ==
    ASSUME Data, TrimsStay, UNCHANGED temps, NEW r \in Runs, Write(r),
           run[r].pc \notin {"copy", "move"}
    PROVE  DataInv'
<1>1. /\ written \in Nat /\ log \in Seq(1 .. written) /\ written' = written + 1
      /\ log' \in Seq(1 .. written') /\ Len(log') = Len(log) + 1
      /\ \A i \in 1 .. Len(log) : log'[i] = log[i]
      /\ log'[Len(log) + 1] = written + 1
      /\ Spaced(log)' /\ NewestKept' /\ exposed \subseteq exposed'
      /\ (\E s \in Runs \ {r} : Trimming(s)) => written + 1 \in exposed'
      /\ written' \in Nat
  BY WriteText DEF Data, TypeOK, Spaced
<1>2. TempInv'
  BY <1>1, TempsStay
<1>3. /\ DOMAIN log = 1 .. Len(log) /\ Len(log) \in Nat
      /\ DOMAIN log' = 1 .. Len(log) + 1
  BY <1>1, Elements
<1>4. TrimInv'
  <2> SUFFICES ASSUME NEW s \in Runs PROVE TrimOf(s)'
    BY DEF TrimInv
  <2>1. CASE run'[s].pc = "copy"
    <3>1. /\ run'[s] = run[s] /\ run[s].size > Limit /\ run[s].size <= Len(log)
          /\ run[s].size \in Nat
          /\ \A i \in DOMAIN log : i > run[s].size => log[i] \in exposed
      BY <2>1 DEF TrimsStay, Data, DataInv, TrimInv, TrimOf, TypeOK
    <3>2. written + 1 \in exposed'
      BY <1>1, <2>1, <3>1 DEF Trimming
    <3>3. \A i \in DOMAIN log' : i \in DOMAIN log \/ i = Len(log) + 1
      BY <1>3
    <3>4. \A i \in DOMAIN log' : i > run'[s].size => log'[i] \in exposed'
      BY <1>1, <1>3, <3>1, <3>2, <3>3
    <3>5. QED
      BY <1>1, <1>3, <2>1, <3>1, <3>4 DEF TrimOf
  <2>2. CASE run'[s].pc = "move" /\ run'[s].temp \in DOMAIN temps' /\ ~Opened(run[s].temp)'
    <3>1. run'[s] = run[s] /\ ~Opened(run[s].temp)
      BY <2>2 DEF TrimsStay
    <3>2. HasNewest(temps[run[s].temp])
      BY <2>2, <3>1 DEF Data, DataInv, TrimInv, TrimOf
    <3>3. written + 1 \in exposed'
      BY <1>1, <2>2, <3>1 DEF Trimming
    <3>4. ASSUME NEW n \in 1 .. written', n > written' - Limit,
                 ~(\E i \in DOMAIN temps[run[s].temp] : temps[run[s].temp][i] = n)
          PROVE  n \in exposed'
      <4>1. n = written + 1 \/ (n \in 1 .. written /\ n > written - Limit)
        BY <1>1, <3>4, LogAssumption
      <4>2. QED
        BY <1>1, <3>2, <3>3, <3>4, <4>1 DEF HasNewest
    <3>5. HasNewest(temps[run[s].temp])'
      BY <3>1, <3>4 DEF HasNewest
    <3>6. QED
      BY <2>2, <3>1, <3>5 DEF TrimOf
  <2>3. QED
    BY <2>1, <2>2 DEF TrimOf
<1>5. QED
  BY <1>1, <1>2, <1>4 DEF DataInv

(* A run that neither starts nor ends a copy leaves all files as open as   *)
(* they are.                                                               *)
LEMMA OpenedStays ==
    ASSUME NEW r \in Runs, Only(r), run[r].pc # "copy", run'[r].pc # "copy"
    PROVE  \A name : Opened(name)' <=> Opened(name)
  BY DEF Only, Opened

LEMMA OpenTrimData ==
    ASSUME Data, NEW r \in Runs, OpenTrim(r) PROVE DataInv'
<1>1. /\ Only(r) /\ run[r].pc = "trim" /\ UNCHANGED <<log, written, tick, exposed>>
  BY OpenTrimEffect DEF Data, OpenTrim
<1>2. CASE run'[r].pc = "idle" /\ UNCHANGED temps
  <2>1. TrimsStay
    BY <1>1, <1>2, OpenedStays DEF TrimsStay, Only, Owns
  <2>2. QED
    BY <1>1, <1>2, <2>1, QuietStep
<1>3. CASE /\ run'[r].pc = "copy" /\ Len(log) > Limit /\ ~Opened(TempName(r))
           /\ temps' = Created(TempName(r))
           /\ run'[r].size = Len(log) /\ run'[r].temp = TempName(r)
  <2>1. /\ DOMAIN temps' = DOMAIN temps \cup {TempName(r)}
        /\ temps'[TempName(r)] = <<>>
        /\ \A n \in DOMAIN temps : n # TempName(r) => temps'[n] = temps[n]
    BY <1>3 DEF Created
  <2>2. /\ written \in Nat /\ tick \in Ticks /\ log \in Seq(1 .. written)
        /\ Limit \in Nat
    BY LogAssumption DEF Data, TypeOK
  <2>3. /\ <<>> \in Seq(1 .. written) /\ Len(<<>>) <= Limit
        /\ Spaced(<<>>)
    BY <2>2 DEF Spaced
  <2>4. \A s \in Runs : s # r => run'[s] = run[s]
    BY <1>1 DEF Only
  <2>5. \A n : Opened(n)' <=> Opened(n) \/ n = TempName(r)
    BY <1>1, <1>3, <2>4 DEF Opened
  <2>6. TempInv'
    <3>1. \A n \in DOMAIN temps' :
            temps'[n] \in Seq(1 .. written) /\ Spaced(temps'[n]) /\ Len(temps'[n]) <= Limit
      BY <2>1, <2>3 DEF Data, DataInv, TempInv
    <3>2. ASSUME NEW s \in Runs
          PROVE  /\ Owns(s)' => \E t \in Ticks : run'[s].temp = <<ProcessOf[s], t>>
                 /\ run'[s].pc = "copy" =>
                      /\ run'[s].temp \in DOMAIN temps' /\ temps'[run'[s].temp] = <<>>
                      /\ \A u \in Runs :
                           run'[u].pc = "copy" /\ run'[u].temp = run'[s].temp => u = s
      <4>1. CASE s = r
        <5>1. \A u \in Runs : run'[u].pc = "copy" /\ run'[u].temp = TempName(r) => u = r
          BY <1>3, <2>4 DEF Opened
        <5>2. QED
          BY <1>3, <2>1, <2>2, <4>1, <5>1 DEF TempName
      <4>2. CASE s # r
        <5>1. run'[s] = run[s] /\ (Owns(s)' <=> Owns(s))
          BY <2>4, <4>2 DEF Owns
        <5>2. run[s].pc = "copy" => run[s].temp # TempName(r)
          BY <1>3 DEF Opened
        <5>3. QED
          BY <1>3, <2>1, <2>4, <4>2, <5>1, <5>2 DEF Data, DataInv, TempInv
      <4>3. QED
        BY <4>1, <4>2
    <3>3. QED
      BY <1>1, <3>1, <3>2 DEF TempInv, Spaced
  <2>7. TrimInv'
    <3> SUFFICES ASSUME NEW s \in Runs PROVE TrimOf(s)'
      BY DEF TrimInv
    <3>1. CASE s = r
      BY <1>1, <1>3, <2>2, <3>1, Elements DEF TrimOf
    <3>2. CASE s # r
      <4>1. run'[s] = run[s]
        BY <2>4, <3>2
      <4>2. Opened(run[s].temp)' <=> Opened(run[s].temp) \/ run[s].temp = TempName(r)
        <5> DEFINE n == run[s].temp
        <5>1. n' = n
          BY <4>1
        <5> QED BY <2>5, <5>1 DEF Opened
      <4>3. TrimOf(s)
        BY DEF Data, DataInv, TrimInv
      <4>4. CASE run[s].pc = "copy"
        BY <1>1, <4>1, <4>3, <4>4 DEF TrimOf
      <4>5. CASE /\ run[s].pc = "move" /\ run[s].temp \in DOMAIN temps'
                 /\ ~Opened(run[s].temp)'
        <5>1. /\ HasNewest(temps[run[s].temp])
              /\ temps'[run[s].temp] = temps[run[s].temp]
          BY <2>1, <4>2, <4>3, <4>5 DEF TrimOf
        <5>2. HasNewest(temps[run[s].temp])'
          BY <1>1, <4>1, <5>1 DEF HasNewest
        <5>3. QED
          BY <4>1, <4>5, <5>2 DEF TrimOf
      <4>6. QED
        BY <4>1, <4>4, <4>5 DEF TrimOf
    <3>3. QED
      BY <3>1, <3>2
  <2>8. Spaced(log)' /\ NewestKept'
    BY <1>1 DEF Data, DataInv, Spaced, NewestKept
  <2>9. QED
    BY <2>6, <2>7, <2>8 DEF DataInv
<1>4. QED
  BY <1>2, <1>3, OpenTrimEffect DEF Data

LEMMA CopyTailData ==
    ASSUME Data, NEW r \in Runs, CopyTail(r) PROVE DataInv'
<1> DEFINE name == run[r].temp
           K == Kept(run[r].size)
<1>1. /\ Only(r) /\ run[r].pc = "copy" /\ run'[r].pc = "move"
      /\ run'[r].temp = name /\ UNCHANGED <<log, written, exposed>>
      /\ temps' = [temps EXCEPT ![name] = @ \o K]
  BY CopyTailEffect DEF Data
<1>2. /\ K \in Seq(1 .. written) /\ Len(K) = Limit /\ Spaced(K) /\ HasNewest(K)
  BY <1>1, CopyHasNewest
<1>3. /\ name \in DOMAIN temps /\ temps[name] = <<>>
      /\ \A s \in Runs : run[s].pc = "copy" /\ run[s].temp = name => s = r
      /\ Limit \in Nat
  BY <1>1, LogAssumption DEF Data, DataInv, TempInv
<1> HIDE DEF K
<1>4. <<>> \o K = K
  BY <1>2
<1>5. /\ DOMAIN temps' = DOMAIN temps /\ temps'[name] = K
      /\ \A n \in DOMAIN temps : n # name => temps'[n] = temps[n]
  BY <1>1, <1>3, <1>4
<1>6. \A s \in Runs : s # r => run'[s] = run[s]
  BY <1>1 DEF Only
<1>7. \A n : Opened(n) <=> Opened(n)' \/ n = name
  BY <1>1, <1>6 DEF Opened
<1>8. ~Opened(run[r].temp)'
  <2>1. \A s \in Runs : ~(run'[s].pc = "copy" /\ run'[s].temp = name)
    BY <1>1, <1>3, <1>6
  <2>2. QED
    BY <1>1, <2>1 DEF Opened
<1>9. TempInv'
  <2>1. \A n \in DOMAIN temps' :
          temps'[n] \in Seq(1 .. written) /\ Spaced(temps'[n]) /\ Len(temps'[n]) <= Limit
    BY <1>2, <1>3, <1>5 DEF Data, DataInv, TempInv
  <2>2. ASSUME NEW s \in Runs
        PROVE  /\ Owns(s)' => \E t \in Ticks : run'[s].temp = <<ProcessOf[s], t>>
               /\ run'[s].pc = "copy" =>
                    /\ run'[s].temp \in DOMAIN temps' /\ temps'[run'[s].temp] = <<>>
                    /\ \A u \in Runs :
                         run'[u].pc = "copy" /\ run'[u].temp = run'[s].temp => u = s
    <3>1. Owns(s)' => Owns(s) /\ run'[s].temp = run[s].temp
      BY <1>1, <1>6 DEF Owns
    <3>2. run'[s].pc = "copy" => s # r /\ run[s].temp # name
      BY <1>1, <1>3, <1>6
    <3>3. QED
      BY <1>1, <1>5, <1>6, <3>1, <3>2 DEF Data, DataInv, TempInv
  <2>3. QED
    BY <1>1, <2>1, <2>2 DEF TempInv, Spaced
<1>10. TrimInv'
  <2> SUFFICES ASSUME NEW s \in Runs PROVE TrimOf(s)'
    BY DEF TrimInv
  <2>1. CASE run'[s].pc = "move" /\ run'[s].temp = name
    <3>1. temps'[run'[s].temp] = K
      BY <1>5, <2>1
    <3>2. written' = written /\ exposed' = exposed
      BY <1>1
    <3>3. HasNewest(temps[run[s].temp])'
      BY <1>2, <3>1, <3>2 DEF HasNewest
    <3>4. QED
      BY <2>1, <3>3 DEF TrimOf
  <2>2. CASE s # r /\ ~(run'[s].pc = "move" /\ run'[s].temp = name)
    <3>1. run'[s] = run[s] /\ TrimOf(s)
      BY <1>6, <2>2 DEF Data, DataInv, TrimInv
    <3>2. CASE run[s].pc = "copy"
      BY <1>1, <3>1, <3>2 DEF TrimOf
    <3>3. CASE /\ run[s].pc = "move" /\ run[s].temp \in DOMAIN temps'
               /\ ~Opened(run[s].temp)'
      <4>1. run[s].temp # name
        BY <2>2, <3>1, <3>3
      <4>2. ~Opened(run[s].temp)
        BY <1>7, <3>1, <3>3, <4>1 DEF Opened
      <4>3. HasNewest(temps[run[s].temp])
        BY <1>5, <3>1, <3>3, <4>2 DEF TrimOf
      <4>4. HasNewest(temps[run[s].temp])'
        BY <1>1, <1>5, <3>1, <3>3, <4>1, <4>3 DEF HasNewest
      <4>5. QED
        BY <3>1, <3>3, <4>4 DEF TrimOf
    <3>4. QED
      BY <3>1, <3>2, <3>3 DEF TrimOf
  <2>3. QED
    BY <1>1, <2>1, <2>2
<1>11. QED
  BY <1>1, <1>9, <1>10 DEF Data, DataInv, Spaced, NewestKept

(* A part of what a trim copies.                                           *)
LEMMA PartTexts ==
    ASSUME Data, NEW r \in Runs, run[r].pc = "copy", NEW n \in 0 .. Limit - 1
    PROVE  /\ Part(r, n) \in Seq(1 .. written) /\ Len(Part(r, n)) <= Limit
           /\ Spaced(Part(r, n))
<1> DEFINE K == Kept(run[r].size)
<1>1. K \in Seq(1 .. written) /\ Len(K) = Limit /\ Spaced(K)
  BY CopyHasNewest
<1>2. n \in Nat /\ n < Limit /\ Limit \in Nat /\ written \in Nat
  BY LogAssumption DEF Data, TypeOK
<1> HIDE DEF K
<1>3. DOMAIN K = 1 .. Limit /\ \A i \in 1 .. Limit : K[i] \in 1 .. written
  BY <1>1, <1>2, Elements
<1>4. SubSeq(K, 1, n) = [i \in 1 .. n |-> K[i]]
  BY <1>1, <1>2, <1>3 DEF SubSeq
<1>5. /\ SubSeq(K, 1, n) \in Seq(1 .. written) /\ Len(SubSeq(K, 1, n)) = n
      /\ DOMAIN SubSeq(K, 1, n) = 1 .. n
      /\ \A i \in 1 .. n : SubSeq(K, 1, n)[i] = K[i] /\ i \in 1 .. Limit
  BY <1>2, <1>3, <1>4
<1>6. Spaced(SubSeq(K, 1, n))
  BY <1>1, <1>3, <1>5 DEF Spaced
<1>7. QED
  BY <1>2, <1>5, <1>6 DEF Part, K

(* A copy that fails is well formed, and whoever may still move it has     *)
(* been told that it lacks texts.                                          *)
LEMMA CopyFailsData ==
    ASSUME Data, NEW r \in Runs, CopyFails(r)
    PROVE  DataInv' /\ exposed' \subseteq 1 .. written /\ DOMAIN temps' = DOMAIN temps
<1> DEFINE name == run[r].temp
<1>1. /\ Only(r) /\ run[r].pc = "copy" /\ run'[r].pc = "delete"
      /\ run'[r].temp = name /\ UNCHANGED <<log, written>>
      /\ exposed' = IF \E s \in Runs : run[s].pc = "move" /\ run[s].temp = name
                    THEN 1 .. written ELSE exposed
  BY CopyFailsEffect DEF Data
<1>2. PICK n \in 0 .. Limit - 1 : temps' = [temps EXCEPT ![name] = @ \o Part(r, n)]
  BY CopyFailsEffect DEF Data
<1> DEFINE K == Part(r, n)
<1>3. K \in Seq(1 .. written) /\ Len(K) <= Limit /\ Spaced(K)
  BY <1>1, PartTexts
<1> HIDE DEF K
<1>4. /\ name \in DOMAIN temps /\ temps[name] = <<>>
      /\ \A s \in Runs : run[s].pc = "copy" /\ run[s].temp = name => s = r
  BY <1>1 DEF Data, DataInv, TempInv
<1>5. <<>> \o K = K
  BY <1>3
<1>6. /\ DOMAIN temps' = DOMAIN temps /\ temps'[name] = K
      /\ \A m \in DOMAIN temps : m # name => temps'[m] = temps[m]
  BY <1>2, <1>4, <1>5 DEF K
<1>7. \A s \in Runs : s # r => run'[s] = run[s]
  BY <1>1 DEF Only
<1>8. \A m : Opened(m) <=> Opened(m)' \/ m = name
  BY <1>1, <1>7 DEF Opened
<1>9. exposed \subseteq exposed' /\ exposed' \subseteq 1 .. written
  BY <1>1 DEF Data, TypeOK
<1>10. TempInv'
  <2>1. \A m \in DOMAIN temps' :
          temps'[m] \in Seq(1 .. written) /\ Spaced(temps'[m]) /\ Len(temps'[m]) <= Limit
    BY <1>3, <1>6 DEF Data, DataInv, TempInv
  <2>2. ASSUME NEW s \in Runs
        PROVE  /\ Owns(s)' => \E t \in Ticks : run'[s].temp = <<ProcessOf[s], t>>
               /\ run'[s].pc = "copy" =>
                    /\ run'[s].temp \in DOMAIN temps' /\ temps'[run'[s].temp] = <<>>
                    /\ \A u \in Runs :
                         run'[u].pc = "copy" /\ run'[u].temp = run'[s].temp => u = s
    <3>1. Owns(s)' => Owns(s) /\ run'[s].temp = run[s].temp
      BY <1>1, <1>7 DEF Owns
    <3>2. run'[s].pc = "copy" => s # r /\ run[s].temp # name
      BY <1>1, <1>4, <1>7
    <3>3. QED
      BY <1>1, <1>6, <1>7, <3>1, <3>2 DEF Data, DataInv, TempInv
  <2>3. QED
    BY <1>1, <2>1, <2>2 DEF TempInv, Spaced
<1>11. TrimInv'
  <2> SUFFICES ASSUME NEW s \in Runs PROVE TrimOf(s)'
    BY DEF TrimInv
  <2>1. CASE run'[s].pc = "move" /\ run'[s].temp = name
    <3>1. exposed' = 1 .. written'
      BY <1>1, <1>7, <2>1
    <3>2. HasNewest(temps[run[s].temp])'
      BY <3>1 DEF HasNewest
    <3>3. QED
      BY <2>1, <3>2 DEF TrimOf
  <2>2. CASE s # r /\ ~(run'[s].pc = "move" /\ run'[s].temp = name)
    <3>1. run'[s] = run[s] /\ TrimOf(s)
      BY <1>7, <2>2 DEF Data, DataInv, TrimInv
    <3>2. CASE run[s].pc = "copy"
      BY <1>1, <1>9, <3>1, <3>2 DEF TrimOf
    <3>3. CASE /\ run[s].pc = "move" /\ run[s].temp \in DOMAIN temps'
               /\ ~Opened(run[s].temp)'
      <4>1. run[s].temp # name
        BY <2>2, <3>1, <3>3
      <4>2. ~Opened(run[s].temp)
        BY <1>8, <3>1, <3>3, <4>1 DEF Opened
      <4>3. HasNewest(temps[run[s].temp])
        BY <1>6, <3>1, <3>3, <4>2 DEF TrimOf
      <4>4. HasNewest(temps[run[s].temp])'
        BY <1>1, <1>6, <1>9, <3>1, <3>3, <4>1, <4>3 DEF HasNewest
      <4>5. QED
        BY <3>1, <3>3, <4>4 DEF TrimOf
    <3>4. QED
      BY <3>1, <3>2, <3>3 DEF TrimOf
  <2>3. CASE s = r
    BY <1>1, <2>3 DEF TrimOf
  <2>4. QED
    BY <2>1, <2>2, <2>3
<1>12. Spaced(log)' /\ NewestKept'
  BY <1>1, <1>9 DEF Data, DataInv, Spaced, NewestKept
<1>13. QED
  BY <1>6, <1>9, <1>10, <1>11, <1>12 DEF DataInv

(* Copies are taken away, none of them half made.                          *)
LEMMA TempsGo ==
    ASSUME Data, TrimsStay, UNCHANGED <<written, exposed>>, NEW name,
           temps' = Without(name), ~Opened(name),
           \A s \in Runs : run'[s].pc = "copy" => UNCHANGED log
    PROVE  TempInv' /\ TrimInv'
<1>1. /\ DOMAIN temps' = DOMAIN temps \ {name}
      /\ \A n \in DOMAIN temps' : temps'[n] = temps[n]
  BY DEF Without
<1>2. \A n \in DOMAIN temps' :
        temps'[n] \in Seq(1 .. written) /\ Spaced(temps'[n]) /\ Len(temps'[n]) <= Limit
  BY <1>1 DEF Data, DataInv, TempInv
<1>3. ASSUME NEW s \in Runs
      PROVE  /\ Owns(s)' => \E t \in Ticks : run'[s].temp = <<ProcessOf[s], t>>
             /\ run'[s].pc = "copy" =>
                  /\ run'[s].temp \in DOMAIN temps' /\ temps'[run'[s].temp] = <<>>
                  /\ \A u \in Runs :
                       run'[u].pc = "copy" /\ run'[u].temp = run'[s].temp => u = s
  <2>1. Owns(s)' => Owns(s) /\ run'[s].temp = run[s].temp
    BY DEF Owns, TrimsStay
  <2>2. run'[s].pc = "copy" => run'[s] = run[s] /\ run[s].temp # name
    BY DEF TrimsStay, Opened
  <2>3. QED
    BY <1>1, <2>1, <2>2 DEF TrimsStay, Data, DataInv, TempInv
<1>4. TempInv'
  BY <1>2, <1>3 DEF TempInv, Spaced
<1>5. ASSUME NEW s \in Runs PROVE TrimOf(s)'
  <2>1. TrimOf(s)
    BY DEF Data, DataInv, TrimInv
  <2>2. CASE run'[s].pc = "copy"
    BY <2>1, <2>2 DEF TrimsStay, TrimOf
  <2>3. CASE /\ run'[s].pc = "move" /\ run'[s].temp \in DOMAIN temps'
             /\ ~Opened(run[s].temp)'
    <3>1. run'[s] = run[s] /\ ~Opened(run[s].temp)
      BY <2>3 DEF TrimsStay
    <3>2. HasNewest(temps[run[s].temp])
      BY <1>1, <2>1, <2>3, <3>1 DEF TrimOf
    <3>3. HasNewest(temps[run[s].temp])'
      BY <1>1, <2>3, <3>1, <3>2 DEF HasNewest
    <3>4. QED
      BY <2>3, <3>1, <3>3 DEF TrimOf
  <2>4. QED
    BY <2>2, <2>3 DEF TrimOf
<1>6. QED
  BY <1>4, <1>5 DEF TrimInv

LEMMA MoveOverData ==
    ASSUME Data, NEW r \in Runs, MoveOver(r) PROVE DataInv' /\ log' \in Seq(1 .. written)
<1>1. /\ Only(r) /\ run[r].pc = "move" /\ UNCHANGED <<written, handles, exposed>>
      /\ \/ /\ CanMove(run[r].temp)
            /\ log' = temps[run[r].temp] /\ temps' = Without(run[r].temp)
            /\ run'[r].pc = "idle"
         \/ /\ UNCHANGED <<log, temps>>
            /\ run'[r].pc = "delete" /\ run'[r].temp = run[r].temp
  BY MoveOverEffect DEF Data
<1>2. TrimsStay
  BY <1>1, OpenedStays DEF TrimsStay, Only, Owns
<1>3. CASE UNCHANGED <<log, temps>>
  BY <1>1, <1>2, <1>3, QuietStep DEF Data, TypeOK
<1>4. CASE /\ CanMove(run[r].temp)
           /\ log' = temps[run[r].temp] /\ temps' = Without(run[r].temp)
  <2>1. handles = {} /\ run[r].temp \in DOMAIN temps /\ ~Opened(run[r].temp)
    BY <1>4 DEF CanMove
  <2>2. \A s \in Runs : run'[s].pc # "copy"
    BY <1>2, <2>1 DEF TrimsStay, Data, HandleInv
  <2>3. TempInv' /\ TrimInv'
    BY <1>1, <1>2, <1>4, <2>1, <2>2, TempsGo
  <2>4. /\ Spaced(temps[run[r].temp]) /\ HasNewest(temps[run[r].temp])
        /\ log' \in Seq(1 .. written)
    BY <1>1, <1>4, <2>1 DEF Data, DataInv, TempInv, TrimInv, TrimOf
  <2>5. Spaced(log)' /\ NewestKept'
    BY <1>1, <1>4, <2>4 DEF Spaced, HasNewest, NewestKept
  <2>6. QED
    BY <2>3, <2>4, <2>5 DEF DataInv
<1>5. QED
  BY <1>1, <1>3, <1>4

LEMMA DeleteTempData ==
    ASSUME Data, NEW r \in Runs, DeleteTemp(r) PROVE DataInv'
<1>1. /\ Only(r) /\ run[r].pc = "delete" /\ run'[r].pc = "idle"
      /\ temps' = Deleted(run[r].temp) /\ UNCHANGED <<log, written, exposed>>
  BY DeleteTempEffect DEF Data
<1>2. TrimsStay
  BY <1>1, OpenedStays DEF TrimsStay, Only, Owns
<1>3. CASE Opened(run[r].temp)
  BY <1>1, <1>2, <1>3, QuietStep DEF Deleted
<1>4. CASE ~Opened(run[r].temp)
  BY <1>1, <1>2, <1>4, TempsGo DEF Deleted, Data, DataInv, Spaced, NewestKept
<1>5. QED
  BY <1>3, <1>4

LEMMA CrashTrims ==
    ASSUME Data, NEW p \in Processes, Crash(p) PROVE TrimsStay
<1>1. \A r \in Runs :
        \/ ProcessOf[r] = p /\ run'[r].pc = "idle"
        \/ ProcessOf[r] # p /\ run'[r] = run[r]
  BY CrashEffect DEF Data
<1>2. ASSUME NEW s \in Runs, run'[s].pc = "move", Opened(run[s].temp)
      PROVE  Opened(run[s].temp)'
  <2>1. PICK u \in Runs : run[u].pc = "copy" /\ run[u].temp = run[s].temp
    BY <1>2 DEF Opened
  <2>2. ProcessOf[s] # p /\ run'[s] = run[s]
    BY <1>1, <1>2
  <2>3. Owns(s) /\ Owns(u)
    BY <1>2, <2>1, <2>2 DEF Owns
  <2>4. PICK t \in Ticks : run[s].temp = <<ProcessOf[s], t>>
    BY <2>3 DEF Data, DataInv, TempInv
  <2>5. PICK v \in Ticks : run[u].temp = <<ProcessOf[u], v>>
    BY <2>3 DEF Data, DataInv, TempInv
  <2>6. ProcessOf[u] = ProcessOf[s]
    BY <2>1, <2>4, <2>5
  <2>7. run'[u] = run[u]
    BY <1>1, <2>2, <2>6
  <2>8. QED
    BY <2>1, <2>2, <2>7 DEF Opened
<1>3. QED
  BY <1>1, <1>2 DEF TrimsStay, Owns

LEMMA DataStep ==
    ASSUME Data, LogNext PROVE DataInv' /\ log' \in Seq(1 .. written') /\ written' \in Nat
                              /\ exposed' \subseteq 1 .. written'
<1>0. written \in Nat /\ log \in Seq(1 .. written) /\ exposed \subseteq 1 .. written
  BY DEF Data, TypeOK
<1>1. ASSUME NEW r \in Runs, Write(r), UNCHANGED temps, TrimsStay,
             run[r].pc \notin {"copy", "move"}
      PROVE  /\ DataInv' /\ log' \in Seq(1 .. written') /\ written' \in Nat
             /\ exposed' \subseteq 1 .. written'
  BY <1>1, WriteStep, WriteText
<1>2. ASSUME UNCHANGED <<log, written, exposed, temps>>, TrimsStay
      PROVE  /\ DataInv' /\ log' \in Seq(1 .. written') /\ written' \in Nat
             /\ exposed' \subseteq 1 .. written'
  BY <1>0, <1>2, QuietStep
<1>3. ASSUME NEW r \in Runs, Only(r), run[r].pc \notin {"copy", "move"},
             run'[r].pc \notin {"copy", "move", "delete"}
      PROVE  TrimsStay
  BY <1>3, OpenedStays DEF TrimsStay, Only, Owns
<1>4. ASSUME NEW r \in Runs, OpenAppend(r)
      PROVE  /\ DataInv' /\ log' \in Seq(1 .. written') /\ written' \in Nat
             /\ exposed' \subseteq 1 .. written'
  BY <1>2, <1>3, <1>4, OpenAppendEffect DEF Data, OpenAppend
<1>5. ASSUME NEW r \in Runs, WriteAppend(r)
      PROVE  /\ DataInv' /\ log' \in Seq(1 .. written') /\ written' \in Nat
             /\ exposed' \subseteq 1 .. written'
  BY <1>1, <1>3, <1>5, WriteAppendEffect DEF Data
<1>6. ASSUME NEW r \in Runs, ChildActs(r)
      PROVE  /\ DataInv' /\ log' \in Seq(1 .. written') /\ written' \in Nat
             /\ exposed' \subseteq 1 .. written'
  <2>1. TrimsStay /\ run[r].pc = "idle"
    BY <1>3, <1>6, ChildEffect DEF Data
  <2>2. QED
    BY <1>1, <1>2, <1>6, <2>1 DEF ChildActs, StartChild, ChildWrites, ChildEnds
<1>7. ASSUME NEW r \in Runs, OpenTrim(r) \/ CopyTail(r) \/ DeleteTemp(r)
      PROVE  /\ DataInv' /\ log' \in Seq(1 .. written') /\ written' \in Nat
             /\ exposed' \subseteq 1 .. written'
  <2>1. UNCHANGED <<log, written, exposed>>
    BY <1>7 DEF OpenTrim, CopyTail, DeleteTemp
  <2>2. QED
    BY <1>0, <1>7, <2>1, OpenTrimData, CopyTailData, DeleteTempData
<1>8. ASSUME NEW r \in Runs, MoveOver(r)
      PROVE  /\ DataInv' /\ log' \in Seq(1 .. written') /\ written' \in Nat
             /\ exposed' \subseteq 1 .. written'
  BY <1>0, <1>8, MoveOverData DEF MoveOver
<1>9. ASSUME NEW p \in Processes, Crash(p)
      PROVE  /\ DataInv' /\ log' \in Seq(1 .. written') /\ written' \in Nat
             /\ exposed' \subseteq 1 .. written'
  BY <1>2, <1>9, CrashTrims DEF Crash
<1>10. CASE Tick
  <2>1. UNCHANGED <<log, written, exposed, temps, run>>
    BY <1>10 DEF Tick
  <2>2. TrimsStay
    BY <2>1 DEF TrimsStay, Owns, Opened
  <2>3. QED
    BY <1>2, <2>1, <2>2
<1>11. ASSUME NEW r \in Runs, WriteFails(r)
       PROVE  /\ DataInv' /\ log' \in Seq(1 .. written') /\ written' \in Nat
              /\ exposed' \subseteq 1 .. written'
  BY <1>2, <1>3, <1>11, WriteFailsEffect DEF Data
<1>12. ASSUME NEW r \in Runs, CopyFails(r)
       PROVE  /\ DataInv' /\ log' \in Seq(1 .. written') /\ written' \in Nat
              /\ exposed' \subseteq 1 .. written'
  BY <1>0, <1>12, CopyFailsData DEF CopyFails
<1>13. QED
  BY <1>4, <1>5, <1>6, <1>7, <1>8, <1>9, <1>10, <1>11, <1>12 DEF LogNext, ChildActs

LEMMA LogTypeStep ==
    ASSUME Data, LogNext, UNCHANGED view PROVE TypeOK'
<1>0. TypeOK /\ HandleInv /\ \A r \in Runs : run[r].pc = "copy" => run[r].temp \in DOMAIN temps
  BY DEF Data, DataInv, TempInv
<1>1. /\ written' \in Nat /\ log' \in Seq(1 .. written')
      /\ exposed' \subseteq 1 .. written' /\ handles' \subseteq LogHandles
  BY DataStep, HandleStep DEF Data
<1>2. \A r : DOMAIN Created(<<ProcessOf[r], tick>>) = DOMAIN temps \cup {<<ProcessOf[r], tick>>}
  BY DEF Created
<1>3. \A name : DOMAIN Without(name) \subseteq DOMAIN temps
  BY DEF Without
<1>4. \A r \in Runs : <<ProcessOf[r], tick>> \in TempNames
  BY <1>0 DEF TypeOK, TempNames, Processes
<1>5. DOMAIN temps' \subseteq TempNames
  <2>1. CASE UNCHANGED temps
    BY <1>0, <2>1 DEF TypeOK
  <2>2. ASSUME NEW r \in Runs, OpenTrim(r) PROVE DOMAIN temps' \subseteq TempNames
    <3>1. temps' = temps \/ temps' = Created(<<ProcessOf[r], tick>>)
      BY <1>0, <2>2, OpenTrimEffect DEF TempName
    <3>2. QED
      BY <1>0, <1>2, <1>4, <3>1 DEF TypeOK
  <2>3. ASSUME NEW r \in Runs, CopyTail(r) \/ CopyFails(r)
        PROVE  DOMAIN temps' \subseteq TempNames
    <3>1. DOMAIN temps' = DOMAIN temps
      BY <1>0, <2>3, CopyTailEffect, CopyFailsData
    <3>2. QED
      BY <1>0, <3>1 DEF TypeOK
  <2>4. ASSUME NEW r \in Runs, MoveOver(r) PROVE DOMAIN temps' \subseteq TempNames
    <3>1. DOMAIN temps' \subseteq DOMAIN temps
      BY <1>0, <1>3, <2>4, MoveOverEffect
    <3>2. QED
      BY <1>0, <3>1 DEF TypeOK
  <2>5. ASSUME NEW r \in Runs, DeleteTemp(r) PROVE DOMAIN temps' \subseteq TempNames
    <3>1. DOMAIN temps' \subseteq DOMAIN temps
      BY <1>0, <1>3, <2>5, DeleteTempEffect DEF Deleted
    <3>2. QED
      BY <1>0, <3>1 DEF TypeOK
  <2>6. QED
    BY <2>1, <2>2, <2>3, <2>4, <2>5
       DEF LogNext, OpenAppend, WriteAppend, WriteFails, StartChild, ChildWrites,
           ChildEnds, Crash, Tick
<1>6. run' \in [Runs -> Record]
  <2>1. \A r \in Runs : OpenAppend(r) \/ WriteAppend(r) \/ OpenTrim(r) \/ CopyTail(r) => Only(r)
    BY <1>0, OpenAppendEffect, WriteAppendEffect, OpenTrimEffect, CopyTailEffect
  <2>2. \A r \in Runs : MoveOver(r) \/ DeleteTemp(r) \/ ChildActs(r)
                         \/ WriteFails(r) \/ CopyFails(r) => Only(r)
    BY <1>0, MoveOverEffect, DeleteTempEffect, ChildEffect, WriteFailsEffect,
       CopyFailsEffect
  <2>3. \A p \in Processes : Crash(p) => run' \in [Runs -> Record]
    BY <1>0, CrashEffect
  <2>4. Tick => run' \in [Runs -> Record]
    BY <1>0 DEF Tick, TypeOK, Record
  <2>5. QED
    BY <2>1, <2>2, <2>3, <2>4 DEF LogNext, ChildActs, Only
<1>7. tick' \in Ticks
  BY <1>0
     DEF LogNext, OpenAppend, WriteAppend, WriteFails, OpenTrim, CopyTail, CopyFails,
         MoveOver, DeleteTemp,
         StartChild, ChildWrites, ChildEnds, Crash, Tick, TypeOK
<1>8. disturbed' \in BOOLEAN /\ crashed' \in BOOLEAN
  BY <1>0
     DEF LogNext, OpenAppend, WriteAppend, WriteFails, OpenTrim, CopyTail, CopyFails,
         MoveOver, DeleteTemp,
         StartChild, ChildWrites, ChildEnds, Crash, Tick, TypeOK, Meets
<1>9. QED
  BY <1>1, <1>5, <1>6, <1>7, <1>8
     DEF TypeOK, Record, TempNames, LogHandles, Processes, Child, Viewer

-----------------------------------------------------------------------------
(* A copy has an owner until it is moved or deleted.                       *)
LEMMA OwnerStep ==
    ASSUME Data, OwnerInv, LogNext PROVE OwnerInv'
<1> SUFFICES ASSUME ~crashed', NEW n \in DOMAIN temps'
             PROVE  \E r \in Runs : Owns(r)' /\ run'[r].temp = n
  BY DEF OwnerInv
<1>1. ~crashed
  BY DEF LogNext, OpenAppend, WriteAppend, WriteFails, OpenTrim, CopyTail, CopyFails,
         MoveOver, DeleteTemp,
         StartChild, ChildWrites, ChildEnds, Crash, Tick
<1>2. ASSUME n \in DOMAIN temps, NEW r \in Runs, Only(r),
             Owns(r) /\ run[r].temp = n => Owns(r)' /\ run'[r].temp = n
      PROVE  \E s \in Runs : Owns(s)' /\ run'[s].temp = n
  <2>1. PICK s \in Runs : Owns(s) /\ run[s].temp = n
    BY <1>1, <1>2 DEF OwnerInv
  <2>2. CASE s = r
    BY <1>2, <2>1, <2>2
  <2>3. CASE s # r
    BY <1>2, <2>1, <2>3 DEF Only, Owns
  <2>4. QED
    BY <2>2, <2>3
<1>3. ASSUME NEW r \in Runs,
             OpenAppend(r) \/ WriteAppend(r) \/ WriteFails(r) \/ ChildActs(r)
      PROVE  \E s \in Runs : Owns(s)' /\ run'[s].temp = n
  <2>1. Only(r) /\ ~Owns(r)
    BY <1>3, OpenAppendEffect, WriteAppendEffect, WriteFailsEffect, ChildEffect
       DEF Data, Owns
  <2>2. UNCHANGED temps
    BY <1>3 DEF OpenAppend, WriteAppend, WriteFails, ChildActs, StartChild,
                ChildWrites, ChildEnds
  <2>3. QED
    BY <1>2, <2>1, <2>2
<1>4. ASSUME NEW r \in Runs, OpenTrim(r)
      PROVE  \E s \in Runs : Owns(s)' /\ run'[s].temp = n
  <2>1. /\ Only(r) /\ ~Owns(r)
        /\ \/ UNCHANGED temps
           \/ /\ temps' = Created(TempName(r)) /\ run'[r].pc = "copy"
              /\ run'[r].temp = TempName(r)
    BY <1>4, OpenTrimEffect DEF Data, Owns
  <2>2. DOMAIN Created(TempName(r)) = DOMAIN temps \cup {TempName(r)}
    BY DEF Created
  <2>3. CASE n \in DOMAIN temps
    BY <1>2, <2>1, <2>3
  <2>4. CASE n \notin DOMAIN temps
    BY <2>1, <2>2, <2>4 DEF Owns
  <2>5. QED
    BY <2>3, <2>4
<1>5. ASSUME NEW r \in Runs, CopyTail(r) \/ CopyFails(r)
      PROVE  \E s \in Runs : Owns(s)' /\ run'[s].temp = n
  <2>1. /\ Only(r) /\ run'[r].pc \in {"move", "delete"}
        /\ run'[r].temp = run[r].temp /\ DOMAIN temps' = DOMAIN temps
    BY <1>5, CopyTailEffect, CopyFailsEffect, CopyFailsData DEF Data
  <2>2. QED
    BY <1>2, <2>1 DEF Owns
<1>6. ASSUME NEW r \in Runs, MoveOver(r)
      PROVE  \E s \in Runs : Owns(s)' /\ run'[s].temp = n
  <2>1. /\ Only(r) /\ run[r].pc = "move"
        /\ \/ temps' = Without(run[r].temp)
           \/ /\ UNCHANGED temps
              /\ run'[r].pc = "delete" /\ run'[r].temp = run[r].temp
    BY <1>6, MoveOverEffect DEF Data
  <2>2. DOMAIN Without(run[r].temp) = DOMAIN temps \ {run[r].temp}
    BY DEF Without
  <2>3. QED
    BY <1>2, <2>1, <2>2 DEF Owns
<1>7. ASSUME NEW r \in Runs, DeleteTemp(r)
      PROVE  \E s \in Runs : Owns(s)' /\ run'[s].temp = n
  <2>1. Only(r) /\ run[r].pc = "delete" /\ temps' = Deleted(run[r].temp)
    BY <1>7, DeleteTempEffect DEF Data
  <2>2. CASE Opened(run[r].temp)
    <3>1. PICK s \in Runs : run[s].pc = "copy" /\ run[s].temp = run[r].temp
      BY <2>2 DEF Opened
    <3>2. s # r /\ run'[s] = run[s] /\ n \in DOMAIN temps
      BY <2>1, <2>2, <3>1 DEF Only, Deleted
    <3>3. CASE n = run[r].temp
      BY <3>1, <3>2, <3>3 DEF Owns
    <3>4. CASE n # run[r].temp
      BY <1>2, <2>1, <3>2, <3>4
    <3>5. QED
      BY <3>3, <3>4
  <2>3. CASE ~Opened(run[r].temp)
    <3>1. n \in DOMAIN temps /\ n # run[r].temp
      BY <2>1, <2>3 DEF Deleted, Without
    <3>2. QED
      BY <1>2, <2>1, <3>1
  <2>4. QED
    BY <2>2, <2>3
<1>8. ASSUME NEW p \in Processes, Crash(p) PROVE FALSE
  BY <1>8 DEF Crash
<1>9. CASE Tick
  BY <1>1, <1>9 DEF Tick, OwnerInv, Owns
<1>10. QED
  BY <1>3, <1>4, <1>5, <1>6, <1>7, <1>8, <1>9 DEF LogNext, ChildActs

-----------------------------------------------------------------------------
(* Whoever meets somebody is told.                                         *)
Acts(r) ==
    \/ OpenAppend(r) \/ WriteAppend(r) \/ WriteFails(r)
    \/ OpenTrim(r) \/ CopyTail(r) \/ CopyFails(r) \/ MoveOver(r) \/ DeleteTemp(r)
    \/ ChildActs(r)

LEMMA ActsAlone ==
    ASSUME Data, NEW r \in Runs, Acts(r)
    PROVE  /\ Only(r) /\ crashed' = crashed /\ (disturbed => disturbed')
           /\ \A s \in Runs : s # r => (Busy(s)' <=> Busy(s))
           /\ ~disturbed' /\ Busy(r)' => Busy(r) \/ \A s \in Runs : s # r => ~Busy(s)
<1>0. TypeOK /\ HandleInv
  BY DEF Data
<1>1. Only(r)
  BY <1>0, OpenAppendEffect, WriteAppendEffect, OpenTrimEffect, CopyTailEffect,
     WriteFailsEffect, CopyFailsEffect, MoveOverEffect, DeleteTempEffect, ChildEffect
     DEF Acts
<1>2. crashed' = crashed /\ (disturbed => disturbed')
  BY <1>0 DEF Acts, ChildActs, OpenAppend, WriteAppend, WriteFails, OpenTrim, CopyTail,
      CopyFails, MoveOver, DeleteTemp, StartChild, ChildWrites, ChildEnds, Meets, TypeOK
<1>3. \A h : h.who \notin {r, Child(r)} => (h \in handles' <=> h \in handles)
  <2>1. /\ Appending(r).who = r /\ Reading(r).who = r /\ ChildHandle(r).who = Child(r)
    BY HandleNames
  <2>2. CASE OpenAppend(r) \/ OpenTrim(r)
    <3>1. handles' \in {handles, handles \cup {Appending(r)}, handles \cup {Reading(r)}}
      BY <1>0, <2>2, OpenAppendEffect, OpenTrimEffect
    <3>2. QED
      BY <2>1, <3>1
  <2>3. CASE WriteAppend(r) \/ WriteFails(r) \/ CopyTail(r) \/ CopyFails(r)
    BY <2>3 DEF WriteAppend, WriteFails, CopyTail, CopyFails, Others
  <2>4. CASE MoveOver(r) \/ DeleteTemp(r)
    BY <2>4 DEF MoveOver, DeleteTemp
  <2>5. CASE ChildActs(r)
    <3>1. handles' \in {handles, handles \cup {ChildHandle(r)}, handles \ {ChildHandle(r)}}
      BY <2>5 DEF ChildActs, StartChild, ChildWrites, ChildEnds
    <3>2. QED
      BY <2>1, <3>1
  <2>6. QED
    BY <2>2, <2>3, <2>4, <2>5 DEF Acts
<1>4. ASSUME NEW s \in Runs, s # r PROVE Busy(s)' <=> Busy(s)
  <2>1. run'[s] = run[s]
    BY <1>1, <1>4 DEF Only
  <2>2. s \notin {r, Child(r)} /\ Child(s) \notin {r, Child(r)}
    BY <1>4, Names
  <2>3. \A h : h.who \in {s, Child(s)} => (h \in handles' <=> h \in handles)
    BY <1>3, <2>2
  <2>4. Busy(s)' <=> run'[s].pc # "idle" \/ \E h \in handles' : h.who \in {s, Child(s)}
    BY DEF Busy, Child
  <2>5. QED
    BY <2>1, <2>3, <2>4 DEF Busy
<1>5. ASSUME ~disturbed', Busy(r)', ~Busy(r) PROVE \A s \in Runs : s # r => ~Busy(s)
  <2>1. run[r].pc = "idle" /\ \A h \in handles : h.who \notin {r, Child(r)}
    BY <1>5 DEF Busy
  <2>2. Busy(r)' <=> run'[r].pc # "idle" \/ \E h \in handles' : h.who \in {r, Child(r)}
    BY DEF Busy, Child
  <2>3. CASE Meets(r)
    BY <1>5, <2>3 DEF Meets
  <2>4. CASE OpenAppend(r)
    BY <2>3, <2>4 DEF OpenAppend
  <2>5. CASE \/ WriteAppend(r) \/ WriteFails(r) \/ OpenTrim(r) \/ CopyTail(r)
             \/ CopyFails(r) \/ MoveOver(r) \/ DeleteTemp(r)
    BY <2>1, <2>5 DEF WriteAppend, WriteFails, OpenTrim, CopyTail, CopyFails,
                      MoveOver, DeleteTemp
  <2>6. CASE ChildActs(r)
    <3>1. run'[r].pc = "idle"
      BY <1>0, <2>6, ChildEffect
    <3>2. ~(handles' \subseteq handles)
      BY <1>5, <2>1, <2>2, <3>1
    <3>3. Meets(r)
      BY <2>6, <3>2 DEF ChildActs, StartChild, ChildWrites, ChildEnds
    <3>4. QED
      BY <2>3, <3>3
  <2>7. QED
    BY <2>4, <2>5, <2>6 DEF Acts
<1>6. QED
  BY <1>1, <1>2, <1>4, <1>5

(* Nobody alone is refused anything.                                       *)
LEMMA NoneRefused ==
    ASSUME Data, AloneInv, NEW r \in Runs, ~disturbed', disturbed => disturbed'
    PROVE  /\ OpenAppend(r) => run'[r].pc = "write"
           /\ OpenTrim(r) /\ run'[r].pc = "idle" => Len(log) <= Limit
           /\ MoveOver(r) => CanMove(run[r].temp)
           /\ ~DeleteTemp(r)
<1>0. TypeOK /\ HandleInv
  BY DEF Data
<1>1. ASSUME Meets(r)
      PROVE  /\ \A s \in Runs : s # r => ~Busy(s)
             /\ \A h \in handles : h.who = r \/ h.who # Viewer
  BY <1>1 DEF Meets, Others
<1>2. ASSUME Meets(r), NEW name, Opened(name), run[r].pc # "copy" PROVE FALSE
  <2>1. PICK s \in Runs : run[s].pc = "copy"
    BY <1>2 DEF Opened
  <2>2. Busy(s) /\ s # r
    BY <1>2, <2>1 DEF Busy
  <2>3. QED
    BY <1>1, <1>2, <2>2
<1>3. ASSUME OpenAppend(r) PROVE run'[r].pc = "write"
  <2>1. Meets(r)
    BY <1>3 DEF OpenAppend
  <2>2. ViewHandle \notin handles
    BY <1>1, <2>1, HandleNames, Names
  <2>3. QED
    BY <1>0, <1>3, <2>2, OpenAppendEffect, Refused DEF HandleInv
<1>4. ASSUME OpenTrim(r), run'[r].pc = "idle" PROVE Len(log) <= Limit
  <2>1. Meets(r) /\ run[r].pc = "trim"
    BY <1>4 DEF OpenTrim
  <2>2. ~Opened(TempName(r))
    BY <1>2, <2>1
  <2>3. ~(Len(log) > Limit)
    BY <1>0, <1>4, <2>2, OpenTrimEffect, Refused
  <2>4. Len(log) \in Nat /\ Limit \in Nat
    BY <1>0, LogAssumption DEF TypeOK
  <2>5. QED
    BY <2>3, <2>4
<1>5. ASSUME MoveOver(r) PROVE CanMove(run[r].temp)
  <2>1. Meets(r) /\ run[r].pc = "move"
    BY <1>5 DEF MoveOver
  <2>2. ~Opened(run[r].temp)
    BY <1>2, <2>1
  <2>3. run[r].temp \in DOMAIN temps
    BY <2>1 DEF AloneInv
  <2>4. ASSUME NEW h \in handles PROVE FALSE
    <3>1. h # ViewHandle
      BY <1>1, <2>1, HandleNames, Names
    <3>2. PICK s \in Runs : HeldBy(h, s)
      BY <1>0, <3>1 DEF HandleInv
    <3>3. h.who \in {s, Child(s)}
      BY <3>2, HandleNames DEF HeldBy
    <3>4. s = r
      BY <1>1, <2>1, <3>3 DEF Busy
    <3>5. run[r].doing \in AtLog
      BY <1>0, <2>1 DEF HandleInv, AtLog
    <3>6. QED
      BY <2>1, <3>2, <3>4, <3>5 DEF HeldBy, AtLog
  <2>5. QED
    BY <2>2, <2>3, <2>4 DEF CanMove
<1>6. ~DeleteTemp(r)
  BY DEF AloneInv, DeleteTemp
<1>7. QED
  BY <1>3, <1>4, <1>5, <1>6

LEMMA AloneStep ==
    ASSUME Data, AloneInv, LogNext PROVE AloneInv'
<1> SUFFICES ASSUME ~disturbed' PROVE AloneInv'
  BY DEF AloneInv
<1>1. ASSUME NEW r \in Runs, Acts(r) PROVE AloneInv'
  <2>1. /\ Only(r) /\ ~disturbed /\ (disturbed => disturbed')
        /\ \A s \in Runs : s # r => (Busy(s)' <=> Busy(s))
        /\ Busy(r)' => Busy(r) \/ \A s \in Runs : s # r => ~Busy(s)
    BY <1>1, ActsAlone
  <2>2. \A s, u \in Runs : Busy(s)' /\ Busy(u)' => s = u
    BY <2>1 DEF AloneInv
  <2>3. run[r].pc # "idle" => \A s \in Runs : s # r => run[s].pc = "idle"
    BY <2>1 DEF AloneInv, Busy
  <2>4. ASSUME NEW s \in Runs
        PROVE  /\ run'[s].pc # "delete"
               /\ run'[s].pc = "move" => run'[s].temp \in DOMAIN temps'
    <3>1. CASE s # r
      <4>1. run'[s] = run[s]
        BY <2>1, <3>1 DEF Only
      <4>2. CASE run[s].pc = "idle"
        BY <4>1, <4>2
      <4>3. CASE run[s].pc # "idle"
        <5>1. run[r].pc = "idle"
          BY <2>3, <3>1, <4>3
        <5>2. OpenAppend(r) \/ ChildActs(r)
          BY <1>1, <5>1
             DEF Acts, WriteAppend, WriteFails, OpenTrim, CopyTail, CopyFails,
                 MoveOver, DeleteTemp
        <5>3. UNCHANGED temps
          BY <5>2 DEF OpenAppend, ChildActs, StartChild, ChildWrites, ChildEnds
        <5>4. QED
          BY <2>1, <4>1, <5>3 DEF AloneInv
      <4>4. QED
        BY <4>2, <4>3
    <3>2. CASE s = r
      <4>1. CASE \/ OpenAppend(r) \/ WriteAppend(r) \/ WriteFails(r) \/ OpenTrim(r)
                 \/ ChildActs(r)
        BY <3>2, <4>1, OpenAppendEffect, WriteAppendEffect, WriteFailsEffect,
           OpenTrimEffect, ChildEffect
           DEF Data
      <4>2. CASE CopyTail(r)
        <5>1. /\ run[r].pc = "copy" /\ run'[r].pc = "move"
              /\ run'[r].temp = run[r].temp /\ DOMAIN temps' = DOMAIN temps
          BY <4>2, CopyTailEffect DEF Data
        <5>2. QED
          BY <3>2, <5>1 DEF Data, DataInv, TempInv
      <4>3. CASE MoveOver(r)
        <5>1. CanMove(run[r].temp)
          BY <2>1, <4>3, NoneRefused
        <5>2. QED
          BY <3>2, <4>3, <5>1, MoveOverEffect DEF Data
      <4>4. CASE DeleteTemp(r)
        BY <2>1, <4>4, NoneRefused
      <4>5. CASE CopyFails(r)
        BY <4>5 DEF CopyFails
      <4>6. QED
        BY <1>1, <4>1, <4>2, <4>3, <4>4, <4>5 DEF Acts
    <3>3. QED
      BY <3>1, <3>2
  <2>5. QED
    BY <2>2, <2>4 DEF AloneInv
<1>2. ASSUME NEW p \in Processes, Crash(p) PROVE AloneInv'
  <2>1. /\ \A r \in Runs : run'[r].pc = "idle" \/ run'[r] = run[r]
        /\ handles' \subseteq handles /\ UNCHANGED <<temps, disturbed>>
    BY <1>2, CrashEffect DEF Data
  <2>2. \A s : Busy(s)' <=> run'[s].pc # "idle" \/ \E h \in handles' : h.who \in {s, Child(s)}
    BY DEF Busy, Child
  <2>3. \A s \in Runs : Busy(s)' => Busy(s)
    BY <2>1, <2>2 DEF Busy
  <2>4. QED
    BY <2>1, <2>3 DEF AloneInv
<1>3. CASE Tick
  BY <1>3 DEF Tick, AloneInv, Busy, Child
<1>4. QED
  BY <1>1, <1>2, <1>3 DEF LogNext, Acts, ChildActs

(* A log that is too long is still to be trimmed.                          *)
LEMMA LimitStep ==
    ASSUME Data, AloneInv, LimitInv, LogNext PROVE LimitInv'
<1> SUFFICES ASSUME ~disturbed', ~crashed', Len(log') > Limit
             PROVE  \E s \in Runs : Pending(s)'
  BY DEF LimitInv
<1>1. ASSUME NEW r \in Runs, Acts(r) PROVE \E s \in Runs : Pending(s)'
  <2>1. Only(r) /\ ~disturbed /\ ~crashed /\ (disturbed => disturbed')
    BY <1>1, ActsAlone
  <2>2. \A s \in Runs : s # r /\ Pending(s) => Pending(s)'
    BY <2>1 DEF Only, Pending
  <2>3. CASE OpenAppend(r)
    BY <2>1, <2>3, NoneRefused DEF Pending
  <2>4. CASE WriteAppend(r) \/ WriteFails(r) \/ CopyTail(r) \/ CopyFails(r)
    BY <2>4, WriteAppendEffect, WriteFailsEffect, CopyTailEffect, CopyFailsEffect
       DEF Data, Pending
  <2>5. CASE OpenTrim(r)
    <3>1. log' = log
      BY <2>5 DEF OpenTrim
    <3>2. Len(log) \in Nat /\ Limit \in Nat
      BY LogAssumption DEF Data, TypeOK
    <3>3. run'[r].pc # "idle"
      BY <2>1, <2>5, <3>1, <3>2, NoneRefused
    <3>4. QED
      BY <3>3 DEF Pending
  <2>6. CASE MoveOver(r)
    <3>1. CanMove(run[r].temp)
      BY <2>1, <2>6, NoneRefused
    <3>2. log' = temps[run[r].temp] /\ run[r].temp \in DOMAIN temps
      BY <2>6, <3>1, MoveOverEffect DEF Data, CanMove
    <3>3. Len(log') <= Limit /\ Len(log') \in Nat
      BY <3>2 DEF Data, DataInv, TempInv
    <3>4. QED
      BY <3>3, LogAssumption
  <2>7. CASE DeleteTemp(r)
    BY <2>1, <2>7, NoneRefused
  <2>8. CASE StartChild(r)
    <3>1. ~Pending(r) /\ log' = log
      BY <2>8, ChildEffect DEF Data, ChildActs, StartChild
    <3>2. QED
      BY <2>1, <2>2, <3>1 DEF LimitInv
  <2>9. CASE ChildWrites(r) \/ ChildEnds(r)
    BY <2>9, ChildEffect DEF Data, ChildActs
  <2>10. QED
    BY <1>1, <2>3, <2>4, <2>5, <2>6, <2>7, <2>8, <2>9 DEF Acts, ChildActs
<1>2. ASSUME NEW p \in Processes, Crash(p) PROVE FALSE
  BY <1>2 DEF Crash
<1>3. CASE Tick
  BY <1>3 DEF Tick, LimitInv, Pending
<1>4. QED
  BY <1>1, <1>2, <1>3 DEF LogNext, Acts, ChildActs

-----------------------------------------------------------------------------
(* Division by a positive number.                                          *)
LEMMA DivBounds ==
    ASSUME NEW n \in Nat \ {0}, NEW a \in Nat
    PROVE  /\ a \div n \in Nat
           /\ n * (a \div n) <= a /\ a < n * (a \div n) + n
<1>1. a \div n \in Int /\ a % n \in 0 .. n - 1 /\ a = n * (a \div n) + (a % n)
  OBVIOUS
<1>2. a \div n >= 0
  OBVIOUS
<1> DEFINE d == a \div n
           m == a % n
<1> HIDE DEF d, m
<1>3. d \in Int /\ m \in 0 .. n - 1 /\ a = n * d + m /\ d >= 0
  BY <1>1, <1>2 DEF d, m
<1>4. n * d <= a /\ a < n * d + n
  BY <1>3, Z3
<1>5. QED
  BY <1>3, <1>4 DEF d

LEMMA DivAtMost ==
    ASSUME NEW n \in Nat \ {0}, NEW a \in Nat, NEW k \in Nat, a <= n * k
    PROVE  a \div n <= k
<1> DEFINE d == a \div n
<1>1. d \in Nat /\ n * d <= a
  BY DivBounds
<1> HIDE DEF d
<1>2. ~(d >= k + 1)
  <2>1. SUFFICES ASSUME d >= k + 1 PROVE FALSE
    OBVIOUS
  <2>2. n * d >= n * (k + 1)
    BY <1>1, <2>1, Z3
  <2>3. n * (k + 1) = n * k + n
    BY Z3
  <2>4. n * d \in Nat /\ n * k \in Nat
    BY <1>1
  <2>5. QED
    BY <1>1, <2>2, <2>3, <2>4
<1>3. QED
  BY <1>1, <1>2 DEF d

LEMMA DivTimes ==
    ASSUME NEW n \in Nat \ {0}, NEW k \in Nat
    PROVE  (n * k) \div n = k
<1> DEFINE a == n * k
           d == a \div n
<1>1. a \in Nat
  OBVIOUS
<1>2. d \in Nat /\ n * d <= a /\ a < n * d + n
  BY <1>1, DivBounds
<1>3. d <= k
  BY <1>1, DivAtMost
<1> HIDE DEF d
<1>4. d >= k
  <2>1. SUFFICES ASSUME d <= k - 1 PROVE FALSE
    BY <1>2
  <2>2. n * d <= n * (k - 1)
    BY <1>2, <2>1, Z3
  <2>3. n * (k - 1) = n * k - n
    BY Z3
  <2>4. n * d \in Nat /\ n * k \in Nat
    BY <1>2
  <2>5. QED
    BY <1>2, <2>2, <2>3, <2>4
<1>5. QED
  BY <1>2, <1>3, <1>4 DEF d

LEMMA DivGrows ==
    ASSUME NEW n \in Nat \ {0}, NEW a \in Nat, NEW b \in Nat, a <= b
    PROVE  a \div n <= b \div n
<1> DEFINE e == b \div n
<1>1. e \in Nat /\ b < n * e + n
  BY DivBounds
<1>2. a \div n \in Nat /\ n * (a \div n) <= a
  BY DivBounds
<1> DEFINE d == a \div n
<1> HIDE DEF d, e
<1>3. d \in Nat /\ n * d < n * e + n
  <2>1. n * d \in Nat /\ n * e \in Nat
    BY <1>1, <1>2 DEF d
  <2>2. QED
    BY <1>1, <1>2, <2>1 DEF d
<1>4. d <= e
  <2>1. SUFFICES ASSUME d >= e + 1 PROVE FALSE
    BY <1>1, <1>3
  <2>2. n * d >= n * (e + 1)
    BY <1>1, <1>3, <2>1, Z3
  <2>3. n * (e + 1) = n * e + n
    BY <1>1, Z3
  <2>4. n * d \in Nat /\ n * e \in Nat
    BY <1>1, <1>3
  <2>5. QED
    BY <1>3, <2>2, <2>3, <2>4
<1>5. QED
  BY <1>4 DEF d, e

(* The scrollbar's arithmetic.                                             *)
LEMMA ThumbFits ==
    ASSUME NEW n \in Nat
    PROVE  /\ ThumbLen(n) \in Nat /\ ThumbLen(n) <= Track
           /\ MaxPos(n) \in Nat /\ MaxPos(n) <= n /\ Track \in Nat /\ Page \in Nat
<1>1. Track \in Nat \ {0} /\ MinThumb \in Nat /\ Page \in Nat \ {0}
  BY ViewerAssumption
<1>2. n > 0 => (Track * Page) \div n \in Nat
  <2>1. Track * Page \in Nat
    BY <1>1
  <2>2. QED
    BY <2>1, DivBounds
<1> DEFINE fair == IF n > 0 THEN (Track * Page) \div n ELSE Track
<1>3. fair \in Nat
  BY <1>1, <1>2
<1> HIDE DEF fair
<1>4. ThumbLen(n) = LET big == IF fair < MinThumb THEN MinThumb ELSE fair
                    IN  IF big > Track THEN Track ELSE big
  BY DEF ThumbLen, fair
<1>5. ThumbLen(n) \in Nat /\ ThumbLen(n) <= Track
  BY <1>1, <1>3, <1>4
<1>6. QED
  BY <1>1, <1>5 DEF MaxPos

LEMMA ThumbStays ==
    ASSUME NEW n \in Nat, NEW first \in Nat
    PROVE  /\ ThumbPos(n, first) \in Nat
           /\ ThumbPos(n, first) + ThumbLen(n) \in 0 .. Track
<1> DEFINE free == Track - ThumbLen(n)
           f == IF first > MaxPos(n) THEN MaxPos(n) ELSE first
<1>1. /\ ThumbLen(n) \in Nat /\ ThumbLen(n) <= Track /\ MaxPos(n) \in Nat
      /\ Track \in Nat
  BY ThumbFits
<1>2. free \in Nat /\ f \in Nat /\ f <= MaxPos(n) /\ (free > 0 <=> Track > ThumbLen(n))
  BY <1>1
<1>3. ThumbPos(n, first) = IF MaxPos(n) > 0 /\ Track > ThumbLen(n)
                           THEN (free * f) \div MaxPos(n) ELSE 0
  BY DEF ThumbPos
<1> HIDE DEF f, free
<1>4. ASSUME MaxPos(n) > 0
      PROVE  (free * f) \div MaxPos(n) \in Nat /\ (free * f) \div MaxPos(n) <= free
  <2>1. free * f \in Nat /\ free * f <= MaxPos(n) * free
    BY <1>1, <1>2, Z3
  <2>2. MaxPos(n) \in Nat \ {0}
    BY <1>1, <1>4
  <2>3. QED
    BY <1>2, <2>1, <2>2, DivBounds, DivAtMost
<1>5. ThumbPos(n, first) \in Nat /\ ThumbPos(n, first) <= free
  BY <1>2, <1>3, <1>4
<1>6. QED
  BY <1>1, <1>5 DEF free

(* Dragging: what the thumb's place stands for, and where that is drawn.   *)
LEMMA DragReaches ==
    ASSUME NEW n \in Nat
    PROVE  /\ \A pos \in Int : DragTop(n, pos) \in Nat
           /\ DragTop(n, 0) = 0
           /\ ThumbLen(n) < Track => DragTop(n, Track - ThumbLen(n)) = MaxPos(n)
           /\ \A y \in 0 .. Track :
                /\ DragTop(n, y) <= DragTop(n, y + 1)
                /\ ThumbPos(n, DragTop(n, y)) <= y
<1> DEFINE free == Track - ThumbLen(n)
           M == MaxPos(n)
           At(pos) == IF pos < 0 THEN 0 ELSE IF pos > free THEN free ELSE pos
<1>1. free \in Nat /\ M \in Nat /\ Track \in Nat /\ (Track > ThumbLen(n) <=> free > 0)
  BY ThumbFits
<1>2. \A pos : DragTop(n, pos) = IF M > 0 /\ free > 0 THEN (At(pos) * M) \div free ELSE 0
  BY DEF DragTop
<1>3. /\ \A pos \in Int : At(pos) \in Nat /\ At(pos) <= free
      /\ \A y \in Nat : At(y) <= y /\ At(y) <= At(y + 1)
      /\ At(0) = 0 /\ At(free) = free
  BY <1>1
<1>4. \A first : ThumbPos(n, first) =
        IF M > 0 /\ Track > ThumbLen(n)
        THEN (free * (IF first > M THEN M ELSE first)) \div M ELSE 0
  BY DEF ThumbPos
<1>5. ThumbLen(n) < Track => free > 0
  BY <1>1, ThumbFits
<1> HIDE DEF free, M, At
<1>6. CASE ~(M > 0 /\ free > 0)
  <2>1. \A pos : DragTop(n, pos) = 0 /\ ThumbPos(n, pos) = 0
    BY <1>1, <1>2, <1>4, <1>6
  <2>2. ThumbLen(n) < Track => M = 0
    BY <1>1, <1>5, <1>6
  <2>3. QED
    BY <1>1, <2>1, <2>2 DEF M
<1>7. CASE M > 0 /\ free > 0
  <2>1. M \in Nat \ {0} /\ free \in Nat \ {0}
    BY <1>1, <1>7
  <2>2. ASSUME NEW p \in Nat, p <= free
        PROVE  /\ p * M \in Nat /\ (p * M) \div free \in Nat
               /\ (p * M) \div free <= M
               /\ (free * ((p * M) \div free)) \div M <= p
    <3>1. p * M \in Nat /\ p * M <= free * M
      BY <2>1, <2>2, Z3
    <3>2. (p * M) \div free \in Nat /\ free * ((p * M) \div free) <= p * M
      BY <2>1, <3>1, DivBounds
    <3>3. (p * M) \div free <= M
      BY <2>1, <3>1, DivAtMost
    <3> DEFINE t == (p * M) \div free
    <3>4. t \in Nat /\ free * t <= p * M
      BY <3>2
    <3> HIDE DEF t
    <3>5. free * t \in Nat /\ p * M = M * p
      BY <2>1, <3>4, Z3
    <3>6. (free * t) \div M <= p
      BY <2>1, <3>1, <3>4, <3>5, DivAtMost
    <3>7. QED
      BY <3>1, <3>2, <3>3, <3>6 DEF t
  <2>3. ASSUME NEW pos \in Int PROVE DragTop(n, pos) \in Nat
    BY <1>2, <1>3, <1>7, <2>2
  <2>4. DragTop(n, 0) = 0
    <3>1. DragTop(n, 0) = (0 * M) \div free
      BY <1>2, <1>3, <1>7
    <3>2. 0 * M = free * 0
      BY <2>1
    <3>3. QED
      BY <2>1, <3>1, <3>2, DivTimes
  <2>5. DragTop(n, free) = M
    <3>1. DragTop(n, free) = (free * M) \div free
      BY <1>2, <1>3, <1>7
    <3>2. QED
      BY <2>1, <3>1, DivTimes
  <2>6. ASSUME NEW y \in 0 .. Track PROVE DragTop(n, y) <= DragTop(n, y + 1)
    <3>1. /\ y \in Nat /\ y + 1 \in Nat /\ At(y) \in Nat /\ At(y + 1) \in Nat
          /\ At(y) <= At(y + 1)
      BY <1>1, <1>3
    <3>2. At(y) * M \in Nat /\ At(y + 1) * M \in Nat /\ At(y) * M <= At(y + 1) * M
      BY <2>1, <3>1, Z3
    <3>3. (At(y) * M) \div free <= (At(y + 1) * M) \div free
      BY <2>1, <3>2, DivGrows
    <3>4. QED
      BY <1>2, <1>7, <3>3
  <2>7. ASSUME NEW y \in 0 .. Track PROVE ThumbPos(n, DragTop(n, y)) <= y
    <3>1. y \in Nat /\ At(y) \in Nat /\ At(y) <= free /\ At(y) <= y
      BY <1>1, <1>3
    <3> DEFINE t == (At(y) * M) \div free
    <3>2. t \in Nat /\ t <= M /\ (free * t) \div M <= At(y)
      BY <2>2, <3>1
    <3>3. DragTop(n, y) = t
      BY <1>2, <1>7
    <3>4. free * t \in Nat
      BY <2>1, <3>2
    <3>5. (free * t) \div M \in Nat
      BY <2>1, <3>4, DivBounds
    <3> HIDE DEF t
    <3>6. ThumbPos(n, t) = (free * t) \div M
      BY <1>1, <1>4, <1>7, <3>2
    <3>7. QED
      BY <3>1, <3>2, <3>3, <3>5, <3>6
  <2>8. QED
    BY <1>1, <2>3, <2>4, <2>5, <2>6, <2>7 DEF M, free
<1>8. QED
  BY <1>6, <1>7

-----------------------------------------------------------------------------
(* The viewer.                                                             *)
LEMMA WholeText ==
    ASSUME NEW w \in Nat, NEW q \in Seq(1 .. w)
    PROVE  SubSeq(q, 1, Len(q)) \in Seq(Nat) /\ Len(SubSeq(q, 1, Len(q))) = Len(q)
<1>1. Len(q) \in Nat /\ \A i \in 1 .. Len(q) : q[i] \in Nat
  BY Elements
<1>2. SubSeq(q, 1, Len(q)) = [i \in 1 .. Len(q) |-> q[i]]
  BY <1>1 DEF SubSeq
<1>3. QED
  BY <1>1, <1>2

LEMMA ScrolledStays ==
    ASSUME NEW n \in Nat, NEW top \in Int PROVE Scrolled(n, top) \in 0 .. n
  BY DEF Scrolled

(* While the viewer reads nothing is written, and the log is not replaced. *)
LEMMA ReadingKeepsLog ==
    ASSUME Data, LogNext, view.at = "reading" PROVE log' = log
<1>1. ViewHandle \in handles /\ \A h \in handles : h.mode = "read"
  BY DEF Data, HandleInv
<1>2. ASSUME NEW r \in Runs, WriteAppend(r) PROVE FALSE
  BY <1>1, <1>2, HandleNames DEF WriteAppend, Data, HandleInv
<1>3. ASSUME NEW r \in Runs, ChildWrites(r) PROVE FALSE
  BY <1>1, <1>3, HandleNames DEF ChildWrites
<1>4. ASSUME NEW r \in Runs, MoveOver(r) PROVE log' = log
  BY <1>1, <1>4, MoveOverEffect DEF Data, CanMove
<1>5. QED
  BY <1>2, <1>3, <1>4
     DEF LogNext, OpenAppend, WriteFails, OpenTrim, CopyTail, CopyFails, DeleteTemp,
         StartChild, ChildEnds, Crash, Tick

(* What the viewer's own steps leave of the runs' invariants.              *)
LEMMA LogStays ==
    ASSUME IInv, UNCHANGED <<log, written, temps, tick, run, exposed, disturbed, crashed>>,
           handles' \subseteq LogHandles,
           \A s \in Runs : \A h : h.who \in {s, Child(s)} => (h \in handles' <=> h \in handles)
    PROVE  /\ TypeOK' /\ Spaced(log)' /\ NewestKept' /\ TempInv' /\ TrimInv'
           /\ OwnerInv' /\ AloneInv' /\ LimitInv'
<1>1. TypeOK'
  BY DEF IInv, TypeOK, TempNames, Processes, LogHandles, Child, Viewer
<1>2. Spaced(log)' /\ NewestKept'
  BY DEF IInv, Spaced, NewestKept
<1>3. TempInv'
  BY DEF IInv, TempInv, Spaced, Owns
<1>4. TrimInv'
  BY DEF IInv, TrimInv, TrimOf, HasNewest, Opened
<1>5. OwnerInv' /\ LimitInv'
  BY DEF IInv, OwnerInv, Owns, LimitInv, Pending
<1>6. \A s \in Runs : Busy(s)' <=> Busy(s)
  <2>1. \A s : Busy(s)' <=> run'[s].pc # "idle" \/ \E h \in handles' : h.who \in {s, Child(s)}
    BY DEF Busy, Child
  <2>2. QED
    BY <2>1 DEF Busy
<1>7. AloneInv'
  BY <1>6 DEF IInv, AloneInv
<1>8. QED
  BY <1>1, <1>2, <1>3, <1>4, <1>5, <1>7

LEMMA HeldStays ==
    ASSUME UNCHANGED run
    PROVE  \A h, s : HeldBy(h, s)' <=> HeldBy(h, s)
  BY DEF HeldBy, Appending, Reading, ChildHandle, Handle, Child, Shared

LEMMA ViewerStep ==
    ASSUME IInv, OpenView \/ ReadView \/ CloseView \/ ScrollNext PROVE IInv'
<1>0. /\ view \in View /\ written \in Nat /\ log \in Seq(1 .. written)
      /\ Len(log) \in Nat /\ Len(view.lines) \in Nat
      /\ Track \in Nat
  BY ViewerAssumption DEF IInv, ViewInv, TypeOK, View
<1>1. \A s \in Runs : ViewHandle.who \notin {s, Child(s)}
  BY HandleNames, Names
<1>2. ASSUME UNCHANGED logVars, view'.at = "reading" <=> view.at = "reading"
      PROVE  HandleInv'
  <2>1. UNCHANGED run /\ UNCHANGED handles
    BY <1>2 DEF logVars
  <2>2. QED
    BY <1>2, <2>1, HeldStays DEF IInv, HandleInv, Appending, Reading, ViewHandle, Handle, Shared
<1>3. CASE OpenView
  <2>1. CASE UNCHANGED handles /\ view' = [view EXCEPT !.at = "failed"]
    <3>1. view' \in View /\ view'.at = "failed" /\ view.at = "closed"
          /\ view'.first = view.first /\ view'.lines = view.lines
          /\ view'.drag = view.drag
      BY <1>0, <1>3, <2>1 DEF View, OpenView
    <3>2. ViewInv'
      BY <3>1 DEF IInv, ViewInv, ViewIsWhole
    <3>3. UNCHANGED logVars
      BY <1>3, <2>1 DEF OpenView, logVars
    <3>4. QED
      BY <1>2, <2>1, <3>1, <3>2, <3>3, LogStays DEF IInv, logVars, TypeOK
  <2>2. CASE /\ CanOpen("read", {"read"})
             /\ handles' = handles \cup {ViewHandle}
             /\ view' = [view EXCEPT !.at = "reading", !.size = Len(log)]
    <3>1. view' \in View /\ view'.at = "reading" /\ view.at = "closed"
          /\ view'.first = view.first /\ view'.lines = view.lines
          /\ view'.drag = view.drag /\ view'.size = Len(log)
      BY <1>0, <1>3, <2>2 DEF View, OpenView
    <3>2. UNCHANGED <<log, written, temps, tick, run, exposed, disturbed, crashed>>
      BY <1>3 DEF OpenView
    <3>3. ViewInv'
      BY <3>1, <3>2 DEF IInv, ViewInv, ViewIsWhole
    <3>4. \A h \in handles' : h.mode = "read"
      BY <2>2, HandleNames DEF CanOpen
    <3>5. HandleInv'
      BY <2>2, <3>1, <3>2, <3>4, HeldStays
         DEF IInv, HandleInv, Appending, Reading, ViewHandle, Handle, Shared
    <3>6. handles' \subseteq LogHandles
      BY <2>2, HandleNames DEF IInv, TypeOK
    <3>7. QED
      BY <1>1, <2>2, <3>2, <3>3, <3>5, <3>6, LogStays DEF IInv
  <2>3. QED
    BY <1>3, <2>1, <2>2, HandleNames DEF OpenView
<1>4. CASE ReadView
  <2>1. /\ view.at = "reading" /\ view.size = Len(log)
        /\ handles' = Others(Viewer)
        /\ UNCHANGED <<log, written, temps, tick, run, exposed, disturbed, crashed>>
        /\ view' = [view EXCEPT !.at = "open", !.lines = SubSeq(log, 1, Len(log)),
                                !.first = MaxPos(Len(log))]
    BY <1>4 DEF ReadView, IInv, ViewInv, ViewIsWhole
  <2>2. /\ SubSeq(log, 1, Len(log)) \in Seq(Nat)
        /\ Len(SubSeq(log, 1, Len(log))) = Len(log)
        /\ MaxPos(Len(log)) \in Nat /\ MaxPos(Len(log)) <= Len(log)
    BY <1>0, WholeText, ThumbFits
  <2>3. /\ view' \in View /\ view'.at = "open" /\ view'.drag = view.drag
        /\ view'.first <= Len(view'.lines)
    BY <1>0, <2>1, <2>2 DEF View
  <2>4. ViewInv'
    BY <2>3 DEF IInv, ViewInv, ViewIsWhole
  <2>5. \A h \in handles' : h \in handles /\ h # ViewHandle
    BY <2>1, HandleNames DEF Others
  <2>6. \A s \in Runs : \A h : h.who \in {s, Child(s)} => (h \in handles' <=> h \in handles)
    BY <2>1, Names DEF Others
  <2>7. HandleInv'
    <3>1. \A s \in Runs : Appending(s).who = s /\ Reading(s).who = s
      BY HandleNames
    <3>2. \A s \in Runs : /\ run'[s].pc = "write" => Appending(s) \in handles'
                          /\ run'[s].pc = "copy" => Reading(s) \in handles'
                          /\ run'[s].pc # "idle" => run'[s].doing \in AtLog
      BY <2>1, <2>6, <3>1 DEF IInv, HandleInv, AtLog
    <3>3. \A h \in handles' : \E s \in Runs : HeldBy(h, s)'
      BY <2>1, <2>5, HeldStays DEF IInv, HandleInv
    <3>4. QED
      BY <2>3, <3>2, <3>3
         DEF HandleInv, AtLog, Appending, Reading, ViewHandle, Handle, Shared
  <2>8. handles' \subseteq LogHandles
    BY <2>5 DEF IInv, TypeOK
  <2>9. QED
    BY <2>1, <2>4, <2>6, <2>7, <2>8, LogStays DEF IInv
<1>5. CASE CloseView
  <2>1. view' = Closed /\ view.at \in {"open", "failed"} /\ UNCHANGED logVars
    BY <1>5 DEF CloseView
  <2>2. /\ Closed \in View /\ Closed.at = "closed" /\ Closed.first = 0
        /\ Len(Closed.lines) = 0 /\ Closed.drag = NoDrag
    BY DEF Closed, View, NoDrag
  <2>3. ViewInv'
    BY <2>1, <2>2 DEF ViewInv, ViewIsWhole, View, NoDrag
  <2>4. QED
    BY <1>2, <2>1, <2>2, <2>3, LogStays DEF IInv, logVars, TypeOK
<1>6. CASE ScrollNext
  <2>1. UNCHANGED logVars
    BY <1>6 DEF ScrollNext, onCustomScrollbarMouseDown, onCustomScrollbarMouseMove,
                onCustomScrollbarMouseUp
  <2>2. ASSUME NEW f \in 0 .. Lines, view' = [view EXCEPT !.first = f]
        PROVE  ViewInv' /\ view'.at = view.at
    <3>2. f \in Nat /\ f <= Len(view.lines)
      BY <1>0, <2>2 DEF Lines
    <3>1. /\ view' \in View /\ view'.at = view.at /\ view'.first = f
          /\ view'.size = view.size /\ view'.lines = view.lines
          /\ view'.drag = view.drag
      BY <1>0, <2>2, <3>2 DEF View
    <3>3. QED
      BY <2>1, <3>1, <3>2 DEF IInv, ViewInv, ViewIsWhole, logVars
  <2>3. ASSUME NEW d \in {NoDrag} \cup 0 .. Track, view' = [view EXCEPT !.drag = d]
        PROVE  ViewInv' /\ view'.at = view.at
    <3>1. /\ view' \in View /\ view'.at = view.at /\ view'.first = view.first
          /\ view'.size = view.size /\ view'.lines = view.lines
          /\ view'.drag = d
      BY <1>0, <2>3 DEF View, NoDrag
    <3>2. QED
      BY <2>1, <2>3, <3>1 DEF IInv, ViewInv, ViewIsWhole, logVars
  <2>4. Lines \in Nat /\ view.first \in Nat /\ Page \in Nat /\ view.drag \in Int
    BY <1>0, ThumbFits DEF Lines, View
  <2>5. ASSUME NEW y \in 0 .. Track - 1, onCustomScrollbarMouseDown(y)
        PROVE  ViewInv' /\ view'.at = view.at
    <3>1. CASE OnThumb(y)
      <4>1. /\ ThumbPos(Lines, view.first) \in Nat
            /\ ThumbLen(Lines) \in Nat /\ ThumbLen(Lines) <= Track
        BY <2>4, ThumbStays, ThumbFits
      <4>2. y - ThumbPos(Lines, view.first) \in 0 .. Track
        BY <1>0, <3>1, <4>1 DEF OnThumb
      <4>3. QED
        BY <2>3, <2>5, <3>1, <4>2 DEF onCustomScrollbarMouseDown
    <3>2. CASE ~OnThumb(y)
      <4>1. /\ Scrolled(Lines, view.first - Page) \in 0 .. Lines
            /\ Scrolled(Lines, view.first + Page) \in 0 .. Lines
        <5>1. view.first - Page \in Int /\ view.first + Page \in Int
          BY <2>4
        <5>2. QED
          BY <2>4, <5>1, ScrolledStays
      <4>2. \/ view' = [view EXCEPT !.first = Scrolled(Lines, view.first - Page)]
            \/ view' = [view EXCEPT !.first = Scrolled(Lines, view.first + Page)]
        BY <2>5, <3>2 DEF onCustomScrollbarMouseDown
      <4>3. QED
        BY <2>2, <4>1, <4>2
    <3>3. QED
      BY <3>1, <3>2
  <2>6. ASSUME NEW y \in -1 .. Track + 1, onCustomScrollbarMouseMove(y)
        PROVE  ViewInv' /\ view'.at = view.at
    <3>1. DragTop(Lines, y - view.drag) \in Nat
      <4>1. y - view.drag \in Int
        BY <1>0, <2>4
      <4>2. QED
        BY <2>4, <4>1, DragReaches
    <3>2. Scrolled(Lines, DragTop(Lines, y - view.drag)) \in 0 .. Lines
      BY <2>4, <3>1, ScrolledStays
    <3>3. QED
      BY <2>2, <2>6, <3>2 DEF onCustomScrollbarMouseMove
  <2>7. ASSUME onCustomScrollbarMouseUp PROVE ViewInv' /\ view'.at = view.at
    <3>1. view' = [view EXCEPT !.drag = NoDrag]
      BY <2>7 DEF onCustomScrollbarMouseUp
    <3>2. QED
      BY <2>3, <3>1
  <2>8. ViewInv' /\ view'.at = view.at
    <3>1. \/ \E y \in 0 .. Track - 1 : onCustomScrollbarMouseDown(y)
          \/ \E y \in -1 .. Track + 1 : onCustomScrollbarMouseMove(y)
          \/ onCustomScrollbarMouseUp
      BY <1>6 DEF ScrollNext
    <3>2. QED
      BY <2>5, <2>6, <2>7, <3>1
  <2>9. QED
    BY <1>2, <2>1, <2>8, LogStays DEF IInv, logVars, TypeOK
<1>7. QED
  BY <1>3, <1>4, <1>5, <1>6

-----------------------------------------------------------------------------
(* The inductive invariant.                                                *)
LEMMA InvInit == Init => IInv
<1> SUFFICES ASSUME Init PROVE IInv
  OBVIOUS
<1>1. /\ log = <<>> /\ written = 0 /\ handles = {} /\ temps = <<>> /\ tick \in Ticks
      /\ exposed = {} /\ disturbed = FALSE /\ crashed = FALSE /\ view = Closed
      /\ run = [r \in Runs |-> [doing |-> "header", pc |-> "idle",
                                left |-> Headers[r], size |-> 0, temp |-> <<>>]]
  BY DEF Init, LogInit
<1>2. /\ Limit \in Nat \ {0} /\ \A r \in Runs : Headers[r] \in Nat
      /\ Track \in Nat
  BY LogAssumption, ViewerAssumption
<1>3. \A r \in Runs : run[r].pc = "idle" /\ run[r].doing = "header"
  BY <1>1
<1>4. TypeOK
  <2>1. run \in [Runs -> Record]
    BY <1>1, <1>2 DEF Record
  <2>2. DOMAIN temps \subseteq TempNames
    BY <1>1
  <2>3. log \in Seq(1 .. written)
    BY <1>1
  <2>4. disturbed \in BOOLEAN /\ crashed \in BOOLEAN
    BY <1>1
  <2>5. QED
    BY <1>1, <2>1, <2>2, <2>3, <2>4 DEF TypeOK, Record
<1>5. ViewInv
  BY <1>1, <1>2 DEF ViewInv, View, Closed, NoDrag, ViewIsWhole
<1>6. HandleInv
  BY <1>1, <1>3 DEF HandleInv, Closed
<1>7. Spaced(log) /\ NewestKept
  BY <1>1 DEF Spaced, NewestKept
<1>8. TempInv /\ TrimInv /\ OwnerInv
  BY <1>1, <1>3 DEF TempInv, TrimInv, TrimOf, OwnerInv, Owns
<1>9. AloneInv
  BY <1>1, <1>3 DEF AloneInv, Busy
<1>10. LimitInv
  BY <1>1, <1>2 DEF LimitInv
<1>11. QED
  BY <1>4, <1>5, <1>6, <1>7, <1>8, <1>9, <1>10 DEF IInv

LEMMA InvStep == IInv /\ [Next]_vars => IInv'
<1> SUFFICES ASSUME IInv, [Next]_vars PROVE IInv'
  OBVIOUS
<1>1. Data
  BY DEF IInv, Data, DataInv
<1>2. CASE LogNext /\ UNCHANGED view
  <2>1. TypeOK' /\ HandleInv'
    BY <1>1, <1>2, LogTypeStep, HandleStep DEF Data
  <2>2. Spaced(log)' /\ NewestKept' /\ TempInv' /\ TrimInv'
    BY <1>1, <1>2, DataStep DEF DataInv
  <2>3. OwnerInv' /\ AloneInv' /\ LimitInv'
    BY <1>1, <1>2, OwnerStep, AloneStep, LimitStep DEF IInv
  <2>4. ViewInv'
    <3>1. view' = view /\ (view.at = "reading" => log' = log)
      BY <1>1, <1>2, ReadingKeepsLog
    <3>2. QED
      BY <3>1 DEF IInv, ViewInv, ViewIsWhole
  <2>5. QED
    BY <2>1, <2>2, <2>3, <2>4 DEF IInv
<1>3. CASE OpenView \/ ReadView \/ CloseView \/ ScrollNext
  BY <1>3, ViewerStep
<1>4. CASE UNCHANGED vars
  <2>1. UNCHANGED logVars /\ UNCHANGED view
    BY <1>4 DEF vars
  <2>2. HandleInv' /\ ViewInv'
    BY <2>1, HeldStays
       DEF IInv, HandleInv, ViewInv, ViewIsWhole, Appending, Reading, ViewHandle,
           Handle, Shared, logVars
  <2>3. QED
    BY <2>1, <2>2, LogStays DEF IInv, logVars, TypeOK
<1>5. QED
  BY <1>2, <1>3, <1>4 DEF Next

(* IInv holds in every state: what each of the runs holds, what its trim   *)
(* has read, whose the temporary files are, and what the viewer shows.     *)
THEOREM Invariance == Spec => []IInv
  BY InvInit, InvStep, PTL DEF Spec

-----------------------------------------------------------------------------
(* What follows from it.                                                   *)
LEMMA ViewTyped == IInv => ViewTypeOK
  BY DEF IInv, ViewInv, ViewTypeOK, View

LEMMA TextHolds == IInv => TextKept
<1> SUFFICES ASSUME IInv PROVE InOrder
  BY DEF TextKept, IInv
<1>1. written \in Nat /\ log \in Seq(1 .. written) /\ Spaced(log)
  BY DEF IInv, TypeOK
<1>2. DOMAIN log = 1 .. Len(log) /\ Len(log) \in Nat
      /\ \A i \in 1 .. Len(log) : log[i] \in Nat
  BY <1>1, Elements
<1>3. ASSUME NEW i \in DOMAIN log, NEW j \in DOMAIN log, i < j PROVE log[i] < log[j]
  <2>1. log[j] - log[i] >= j - i
    BY <1>1, <1>3 DEF Spaced
  <2>2. i \in Nat /\ j \in Nat /\ log[i] \in Nat /\ log[j] \in Nat
    BY <1>2
  <2>3. QED
    BY <1>3, <2>1, <2>2
<1>4. QED
  BY <1>3 DEF InOrder

LEMMA TrimHolds == IInv => TrimmedInTheEnd
<1> SUFFICES ASSUME IInv, Quiet, ~crashed PROVE DOMAIN temps = {} /\ (~disturbed => Len(log) <= Limit)
  BY DEF TrimmedInTheEnd, NoTempLeft, LimitKept
<1>1. \A r \in Runs : ~Owns(r) /\ ~Pending(r)
  BY DEF Quiet, Owns, Pending
<1>2. DOMAIN temps = {}
  BY <1>1 DEF IInv, OwnerInv
<1>3. Len(log) \in Nat /\ Limit \in Nat
  BY LogAssumption DEF IInv, TypeOK
<1>4. ~disturbed => Len(log) <= Limit
  BY <1>1, <1>3 DEF IInv, LimitInv
<1>5. QED
  BY <1>2, <1>4

LEMMA ViewerHolds == IInv => ViewerInv
<1> SUFFICES ASSUME IInv PROVE ViewerInv
  OBVIOUS
<1>1. ViewTypeOK /\ ViewIsWhole
  BY ViewTyped DEF IInv, ViewInv
<1>2. Lines \in Nat /\ view.first \in Nat
  BY DEF IInv, ViewInv, View, Lines
<1>3. ThumbInTrack
  BY <1>2, ThumbStays DEF ThumbInTrack
<1>4. DragReachesEnds
  BY <1>2, DragReaches DEF DragReachesEnds
<1>5. QED
  BY <1>1, <1>3, <1>4 DEF ViewerInv

(* An idle run that has something to append, and stays idle, was refused   *)
(* the log; it is refused only by the viewer's handle.                     *)
RefusedByViewer ==
    \A r \in Runs :
      run[r].pc = "idle" /\ run[r].doing \in {"header", "failed", "footer"}
        /\ run'[r].pc = "idle" /\ run'[r] # run[r] /\ crashed' = crashed
      => view.at = "reading"

LEMMA RefusalStep == IInv /\ [Next]_vars => [RefusedByViewer]_vars
<1> SUFFICES ASSUME IInv, Next, NEW s \in Runs, run[s].pc = "idle",
                    run[s].doing \in {"header", "failed", "footer"},
                    run'[s].pc = "idle", run'[s] # run[s], crashed' = crashed
             PROVE  view.at = "reading"
  BY DEF RefusedByViewer
<1>1. TypeOK /\ HandleInv
  BY DEF IInv
<1>2. CASE LogNext
  <2>1. ASSUME NEW r \in Runs, Acts(r) PROVE view.at = "reading"
    <3>1. CASE OpenAppend(r)
      <4>1. Only(r) /\ (run'[r].pc = "write" \/ ~CanOpen("write", Shared))
        BY <1>1, <3>1, OpenAppendEffect
      <4>2. s = r
        BY <4>1 DEF Only
      <4>3. QED
        BY <1>1, <4>1, <4>2, Refused
    <3>2. CASE ChildActs(r)
      BY <1>1, <3>2, ChildEffect DEF Only
    <3>3. CASE \/ WriteAppend(r) \/ WriteFails(r) \/ OpenTrim(r) \/ CopyTail(r)
               \/ CopyFails(r) \/ MoveOver(r) \/ DeleteTemp(r)
      <4>1. Only(r) /\ run[r].pc # "idle"
        BY <1>1, <3>3, WriteAppendEffect, WriteFailsEffect, OpenTrimEffect,
           CopyTailEffect, CopyFailsEffect, MoveOverEffect, DeleteTempEffect
      <4>2. QED
        BY <4>1 DEF Only
    <3>4. QED
      BY <2>1, <3>1, <3>2, <3>3 DEF Acts, ChildActs
  <2>2. ASSUME NEW p \in Processes, Crash(p) PROVE FALSE
    <3>1. ~crashed /\ crashed' = TRUE
      BY <2>2 DEF Crash
    <3>2. QED
      BY <3>1, crashed' = crashed
  <2>3. CASE Tick
    BY <2>3 DEF Tick
  <2>4. QED
    BY <1>2, <2>1, <2>2, <2>3 DEF LogNext, Acts, ChildActs
<1>3. CASE OpenView \/ ReadView \/ CloseView \/ ScrollNext
  BY <1>3 DEF OpenView, ReadView, CloseView, ScrollNext, onCustomScrollbarMouseDown,
              onCustomScrollbarMouseMove, onCustomScrollbarMouseUp, logVars
<1>4. QED
  BY <1>2, <1>3 DEF Next

(* What a run, its log and the viewer hold is always well formed, even     *)
(* when runs share temporary files and are killed.                         *)
THEOREM TypeCorrect == Spec => []ViewTypeOK
  BY Invariance, ViewTyped, PTL

(* However many runs append to one log, and trim it, at the same time      *)
(* (CW_AppendToLogFile, CW_TrimLogFileToMaxBytes): the log's texts are in  *)
(* the order of writing, and of the newest none is missing but those that  *)
(* were written while another run trimmed, or were in a copy that failed   *)
(* under a name that another run's copy had.                               *)
THEOREM TextSafe == Spec => []TextKept
  BY Invariance, TextHolds, PTL

(* When all runs are over and none was killed, CW_TrimLogFileToMaxBytes    *)
(* has left no temporary file, and a log of at most maxBytes if the runs   *)
(* were one after the other and no copy failed.                            *)
THEOREM TrimSafe == Spec => []TrimmedInTheEnd
  BY Invariance, TrimHolds, PTL

(* The log viewer (cw_logview_dialog.cpp) shows a whole log; with its own  *)
(* scrollbars, of any size, its thumb stays on the track and all of the    *)
(* text can be reached by dragging it.                                     *)
THEOREM ViewerSafe == Spec => []ViewerInv
  BY Invariance, ViewerHolds, PTL

(* CW_AppendToLogFile gives an append up only while the viewer reads: the  *)
(* handles of other runs, their children and their trims never refuse it.  *)
THEOREM RefusalSafe == Spec => OnlyViewerRefuses
<1>1. Spec => [][RefusedByViewer]_vars
  BY Invariance, RefusalStep, PTL DEF Spec
<1>2. QED
  BY <1>1 DEF OnlyViewerRefuses, RefusedByViewer

=============================================================================
