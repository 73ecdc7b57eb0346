------------------------------- MODULE LogFile -------------------------------
(***************************************************************************)
(* A log file (cw_log_utils.cpp) that several runs of clamscan or          *)
(* freshclam write at the same time: each run is a thread of some process  *)
(* that appends a header before it starts its child (cw_bg_task.cpp,       *)
(* cw_scan_dialog.cpp), a child that writes to the same file through       *)
(* --log, and a footer.  After each append of its own, a thread trims the  *)
(* file to its newest bytes by copying them to a temporary file that then  *)
(* takes the log's place.                                                  *)
(*                                                                         *)
(* Windows' sharing modes and what they refuse are modelled; a text is one *)
(* unit long and is known by its number.                                   *)
(***************************************************************************)
EXTENDS Naturals, Sequences

CONSTANTS Runs,       \* runs that use this log
          ProcessOf,  \* the process each of them is in
          Headers,    \* texts each of them appends before it starts the child
          Reports,    \* the runs of a dialog, that append a footer after
                      \* "failed to start" too
          Limit,      \* maxBytes
          ChildTexts, \* bound: texts a child writes
          Ticks       \* bound: values of GetTickCount

ASSUME LogAssumption ==
    /\ Headers \in [Runs -> Nat \ {0}] /\ Reports \subseteq Runs
    /\ Limit \in Nat \ {0} /\ ChildTexts \in Nat

VARIABLES
    log,      \* the file, as a sequence of texts; empty if there is none
    written,  \* history: texts that were ever written
    handles,  \* open handles to the log
    temps,    \* temporary files: from names to contents
    tick,     \* GetTickCount
    run,      \* the runs: see TypeOK
    exposed,  \* history: texts written while another thread trimmed, or when
              \* the copy that two threads had under one name failed
    disturbed,  \* history: two runs, or a run and the viewer, were at the
                \* log, or a copy failed
    crashed     \* history: a process was killed

logVars == <<log, written, handles, temps, tick, run, exposed, disturbed,
             crashed>>

Processes == {ProcessOf[r] : r \in Runs}
TempNames == Processes \X Ticks
Viewer == "viewer"
Child(r) == <<"child", r>>

(* The names of those that open the log differ.                            *)
ASSUME WhoAssumption ==
    \A r \in Runs :
        /\ r # Viewer /\ Child(r) # Viewer
        /\ \A s \in Runs : r # Child(s)

Handle(who, mode, share) == [who |-> who, mode |-> mode, share |-> share]
LogHandles ==
    [who : Runs \cup {Child(r) : r \in Runs} \cup {Viewer},
     mode : {"read", "write"}, share : SUBSET {"read", "write"}]

(* pc is where the thread is in CW_AppendToLogFile and CW_TrimLogFile...,  *)
(* doing is what the append is for; size and copy are what a trim has read *)
(* so far, temp is its temporary file's name.                              *)
TypeOK ==
    /\ written \in Nat /\ log \in Seq(1 .. written) /\ exposed \subseteq 1 .. written
    /\ handles \subseteq LogHandles
    /\ DOMAIN temps \subseteq TempNames
    /\ tick \in Ticks
    /\ run \in [Runs -> [doing : {"header", "child", "failed", "footer", "end"},
                         pc : {"idle", "write", "trim", "copy", "move", "delete"},
                         left : Nat, size : Nat, temp : TempNames \cup {<<>>}]]
    /\ disturbed \in BOOLEAN /\ crashed \in BOOLEAN

LogInit ==
    /\ log = <<>> /\ written = 0 /\ handles = {}
    /\ temps = <<>> /\ tick \in Ticks
    /\ run = [r \in Runs |-> [doing |-> "header", pc |-> "idle",
                              left |-> Headers[r], size |-> 0, temp |-> <<>>]]
    /\ exposed = {} /\ disturbed = FALSE /\ crashed = FALSE

-----------------------------------------------------------------------------
(* CreateFile: every open handle must allow what the new one does, and the *)
(* other way round.  Nobody shares deletion.                               *)
CanOpen(mode, share) ==
    \A h \in handles : mode \in h.share /\ h.mode \in share
Others(r) == {h \in handles : h.who # r}

Busy(s) == run[s].pc # "idle" \/ \E h \in handles : h.who \in {s, Child(s)}
Meets(r) ==
    disturbed' = (disturbed \/ (\E s \in Runs \ {r} : Busy(s))
                            \/ \E h \in Others(r) : h.who = Viewer)

Shared == {"read", "write"}

(* The handles of an append and of a trim.                                 *)
Appending(r) == Handle(r, "write", Shared)
(* Fault: a trim does not let others write.                                *)
ReadingAlone(r) == Handle(r, "read", {"read"})
Reading(r) == Handle(r, "read", Shared)

Trimming(r) == run[r].pc \in {"copy", "move"}

Write(r) ==
    /\ log' = Append(log, written + 1)
    /\ written' = written + 1
    /\ exposed' = IF \E s \in Runs \ {r} : Trimming(s)
                  THEN exposed \cup {written + 1} ELSE exposed

(* What the thread does when an append has returned.                       *)
NextAppend(e) ==
    LET done == [e EXCEPT !.pc = "idle", !.size = 0, !.temp = <<>>]
    IN  IF e.doing = "header" /\ e.left > 1 THEN [done EXCEPT !.left = @ - 1]
        ELSE IF e.doing = "header" THEN [done EXCEPT !.doing = "child", !.left = 0]
        ELSE [done EXCEPT !.doing = "end"]

AfterAppend(r, e) ==
    LET next == NextAppend(e)
    IN  IF e.doing = "failed" /\ r \in Reports
        THEN [next EXCEPT !.doing = "footer"] ELSE next

-----------------------------------------------------------------------------
(* CW_AppendToLogFile; a file that cannot be opened is not written.        *)
OpenAppend(r) ==
    /\ run[r].doing \in {"header", "failed", "footer"} /\ run[r].pc = "idle"
    /\ \E h \in {Appending(r)} :
         IF CanOpen(h.mode, h.share)
         THEN /\ handles' = handles \cup {h}
              /\ run' = [run EXCEPT ![r].pc = "write"]
         ELSE /\ run' = [run EXCEPT ![r] = AfterAppend(r, @)]
              /\ UNCHANGED handles
    /\ Meets(r)
    /\ UNCHANGED <<log, written, temps, tick, exposed, crashed>>

WriteAppend(r) ==
    /\ run[r].pc = "write"
    /\ Write(r)
    /\ handles' = Others(r)
    /\ run' = [run EXCEPT ![r].pc = "trim"]
    /\ UNCHANGED <<temps, tick, disturbed, crashed>>

(* A write that fails, as on a full disk, is not noticed.                  *)
WriteFails(r) ==
    /\ run[r].pc = "write"
    /\ handles' = Others(r)
    /\ run' = [run EXCEPT ![r].pc = "trim"]
    /\ UNCHANGED <<log, written, temps, tick, exposed, disturbed, crashed>>

(* CW_TrimLogFileToMaxBytes.  The name of the temporary file is made of    *)
(* the process and the time; another thread may have it open.              *)
Opened(name) == \E s \in Runs : run[s].pc = "copy" /\ run[s].temp = name

(* CREATE_ALWAYS.                                                          *)
Created(name) ==
    [n \in DOMAIN temps \cup {name} |-> IF n = name THEN <<>> ELSE temps[n]]

OpenTrim(r) ==
    /\ run[r].pc = "trim"
    /\ \E name \in {<<ProcessOf[r], tick>>}, h \in {Reading(r)} :
         IF /\ CanOpen(h.mode, h.share)
            /\ Len(log) > Limit
            /\ ~Opened(name)
         THEN /\ handles' = handles \cup {h}
              /\ temps' = Created(name)
              /\ run' = [run EXCEPT ![r].pc = "copy", ![r].size = Len(log),
                                    ![r].temp = name]
         ELSE /\ run' = [run EXCEPT ![r] = AfterAppend(r, @)]
              /\ UNCHANGED <<handles, temps>>
    /\ Meets(r)
    /\ UNCHANGED <<log, written, tick, exposed, crashed>>

(* Fault: the oldest bytes are kept.                                       *)
KeptOldest(size) == SubSeq(log, 1, Limit)

(* From fileSize - maxBytes on, maxBytes.                                  *)
Kept(size) == SubSeq(log, size - Limit + 1, size)

CopyTail(r) ==
    /\ run[r].pc = "copy"
    /\ temps' = [temps EXCEPT ![run[r].temp] = @ \o Kept(run[r].size)]
    /\ handles' = Others(r)
    /\ run' = [run EXCEPT ![r].pc = "move"]
    /\ UNCHANGED <<log, written, tick, exposed, disturbed, crashed>>

(* A read or a write fails and a part of the copy is there, until it is    *)
(* deleted; another thread whose own copy had this name may move it first. *)
CopyFails(r) ==
    /\ run[r].pc = "copy"
    /\ \E n \in 0 .. Limit - 1 :
         temps' = [temps EXCEPT ![run[r].temp] =
                     @ \o SubSeq(Kept(run[r].size), 1, n)]
    /\ handles' = Others(r)
    /\ run' = [run EXCEPT ![r].pc = "delete"]
    /\ exposed' = IF \E s \in Runs : run[s].pc = "move" /\ run[s].temp = run[r].temp
                  THEN 1 .. written ELSE exposed
    /\ disturbed' = TRUE
    /\ UNCHANGED <<log, written, tick, crashed>>

(* MoveFileEx puts the copy in the place of the log, unless somebody has   *)
(* either of them open, or the copy is gone.                               *)
CanMove(name) == handles = {} /\ name \in DOMAIN temps /\ ~Opened(name)
Without(name) == [n \in DOMAIN temps \ {name} |-> temps[n]]

Replace(r) ==
    IF CanMove(run[r].temp)
    THEN /\ log' = temps[run[r].temp]
         /\ temps' = Without(run[r].temp)
         /\ run' = [run EXCEPT ![r] = AfterAppend(r, @)]
    ELSE /\ run' = [run EXCEPT ![r].pc = "delete"]
         /\ UNCHANGED <<log, temps>>

MoveOver(r) ==
    /\ run[r].pc = "move"
    /\ Replace(r)
    /\ Meets(r)
    /\ UNCHANGED <<written, handles, tick, exposed, crashed>>

(* Fault: a copy that could not be moved stays.                            *)
Forget(name) == temps

Deleted(name) == IF Opened(name) THEN temps ELSE Without(name)

DeleteTemp(r) ==
    /\ run[r].pc = "delete"
    /\ temps' = Deleted(run[r].temp)
    /\ run' = [run EXCEPT ![r] = AfterAppend(r, @)]
    /\ UNCHANGED <<log, written, handles, tick, exposed, disturbed, crashed>>

-----------------------------------------------------------------------------
(* The child, external: it has the log open for as long as it runs, or     *)
(* runs without a log.  Its thread appends the footer when it has ended.   *)
ChildHandle(r) == Handle(Child(r), "write", Shared)

StartChild(r) ==
    /\ run[r].doing = "child" /\ ChildHandle(r) \notin handles
    /\ run[r].left = 0
    /\ \/ /\ handles' = IF CanOpen("write", Shared)
                        THEN handles \cup {ChildHandle(r)} ELSE handles
          /\ run' = [run EXCEPT ![r].left = ChildTexts + 1]
          /\ Meets(r)
       \/ /\ run' = [run EXCEPT ![r].doing = "failed"]
          /\ UNCHANGED <<handles, disturbed>>
    /\ UNCHANGED <<log, written, temps, tick, exposed, crashed>>

ChildWrites(r) ==
    /\ ChildHandle(r) \in handles /\ run[r].left > 1
    /\ Write(r)
    /\ run' = [run EXCEPT ![r].left = @ - 1]
    /\ UNCHANGED <<handles, temps, tick, disturbed, crashed>>

ChildEnds(r) ==
    /\ run[r].doing = "child" /\ run[r].left > 0
    /\ handles' = handles \ {ChildHandle(r)}
    /\ run' = [run EXCEPT ![r].doing = "footer", ![r].left = 0]
    /\ UNCHANGED <<log, written, temps, tick, exposed, disturbed, crashed>>

(* A process is killed, with its threads and, here, its children.          *)
Crash(p) ==
    LET mine == {r \in Runs : ProcessOf[r] = p} IN
    /\ ~crashed /\ crashed' = TRUE
    /\ \E r \in mine : run[r].doing # "end"
    /\ handles' = {h \in handles : \A r \in mine : h.who \notin {r, Child(r)}}
    /\ run' = [r \in Runs |->
                 IF r \in mine
                 THEN [doing |-> "end", pc |-> "idle", left |-> 0, size |-> 0,
                       temp |-> <<>>]
                 ELSE run[r]]
    /\ UNCHANGED <<log, written, temps, tick, exposed, disturbed>>

Tick ==
    /\ tick + 1 \in Ticks
    /\ tick' = tick + 1
    /\ UNCHANGED <<log, written, handles, temps, run, exposed, disturbed, crashed>>

LogNext ==
    \/ \E r \in Runs :
         OpenAppend(r) \/ WriteAppend(r) \/ WriteFails(r)
           \/ OpenTrim(r) \/ CopyTail(r) \/ CopyFails(r) \/ MoveOver(r) \/ DeleteTemp(r)
           \/ StartChild(r) \/ ChildWrites(r) \/ ChildEnds(r)
    \/ \E p \in Processes : Crash(p)
    \/ Tick

-----------------------------------------------------------------------------
Quiet == \A r \in Runs : run[r].doing = "end" /\ run[r].pc = "idle"

(* Trims never mix texts up: the log has them in the order in which they   *)
(* were written, each at most once.                                        *)
InOrder == \A i, j \in DOMAIN log : i < j => log[i] < log[j]

(* Of the newest texts, the log has lost none but those that were written  *)
(* while another run's trim was between reading and replacing the log, or  *)
(* trimmed together with a copy of the same name that failed.              *)
NewestKept ==
    \A n \in 1 .. written :
        n > written - Limit /\ ~(\E i \in DOMAIN log : log[i] = n)
            => n \in exposed

(* A log is made of the newest texts in order, but for losses of those two *)
(* kinds.                                                                  *)
TextKept == InOrder /\ NewestKept

(* When all runs are over there is no temporary file left, though two      *)
(* threads may have used the same name; a crash may leave one.             *)
NoTempLeft == Quiet /\ ~crashed => DOMAIN temps = {}

(* What a child wrote beyond the limit is cut off in the end, if no other  *)
(* run and no viewer had the log open at the same time and no copy failed. *)
LimitKept == Quiet /\ ~crashed /\ ~disturbed => Len(log) <= Limit

(* What runs leave behind in the end: no copy, and a log of limited size.  *)
TrimmedInTheEnd == NoTempLeft /\ LimitKept
=============================================================================
