----------------------------- MODULE ScanReport -----------------------------
(***************************************************************************)
(* From what is scanned or updated to what the user is told: the command   *)
(* line (cw_scan_logic.cpp), the files counted beforehand, the lines that  *)
(* clamscan or freshclam prints on two pipes, the progress dialog          *)
(* (cw_scan_dialog.cpp) or the background task (cw_bg_task.cpp) that reads *)
(* them, and the balloon at the end (cw_application.cpp).                  *)
(*                                                                         *)
(* Threads and the end of the dialog are in ScanDialog; here a line is     *)
(* read and handled in one step, from either pipe.  The tools are external *)
(* and are described by what they print.                                   *)
(***************************************************************************)
EXTENDS Globs, ScanOutput, FiniteSets

CONSTANTS Tasks,      \* what is run: see ReportAssumption
          Databases,  \* databases freshclam looks at, in order
          DbSize,     \* progress rows of a download
          MaxTries,   \* bound: downloads of one database
          Failures,   \* exit codes of a freshclam that failed
          PipeBound   \* bound: unread lines in a pipe

VARIABLES
    task,     \* the settings and the target
    child,    \* clamscan or freshclam: where it is, the file or database,
              \* the bytes of this download, the downloads of this database
    outp, errp,  \* its two pipes
    state,    \* ScanOutputState
    view,     \* the dialog's report, status line, bar and last error line
    cancelled,
    verdict,  \* what the dialog says at the end, "" before
    code,     \* the exit code the dialog or the task keeps
    balloon,  \* "" until the application knows the end
    gone,     \* files that clamscan has removed
    fetched   \* history: bytes freshclam reported, over all downloads

tool == <<child, outp, errp, gone, fetched>>
vars == <<task, child, outp, errp, state, view, cancelled, verdict, code,
          balloon, gone, fetched>>

IsUpdate == task.mode = "update"
IsDialog == task.by = "dialog"
Ended == {"ended", "killed", "missing"}
Outcomes == {"cancelled", "missing", "servererror", "unsupported", "blocked",
             "failed", "uptodate", "updated", "complete"}

FileSet ==
    [path : Seq(STRING), size : Nat, is : {"clean", "infected", "locked"},
     top : BOOLEAN]
Patterns == [isRegex : BOOLEAN, text : Seq(Elements)]

ReportAssumption ==
    /\ Tasks \subseteq
         [mode : {"scan", "memory", "update"}, by : {"dialog", "background"},
          target : {"folder", "file"}, files : Seq(FileSet),
          recursive : BOOLEAN, infectedOnly : BOOLEAN, remove : BOOLEAN,
          include : SUBSET Patterns, exclude : SUBSET Patterns]
    /\ \A t \in Tasks : t.target = "file" => t.files # <<>>
    /\ Databases \in Seq(STRING) /\ Databases # <<>>
    /\ DbSize \in Nat \ {0} /\ MaxTries \in Nat /\ PipeBound \in Nat
    /\ Failures \subseteq Int \ {0}
ASSUME ReportAssumption

TypeOK ==
    /\ task \in Tasks
    /\ child.at \in Ended \cup {"load", "files", "file", "remove", "infected",
                                "errors", "note", "exit",
                                "db", "fetch", "test", "install"}
    /\ Len(outp) <= PipeBound /\ Len(errp) <= PipeBound
    /\ state.files \in Nat /\ state.threats \in Nat
    /\ state.ui \in 0 .. 100 /\ state.updateUi \in 0 .. 100
    /\ view.bar \in 0 .. 100
    /\ cancelled \in BOOLEAN
    /\ verdict \in Outcomes \cup {""}
    /\ code \in Failures \cup {-1, 0, 1, 2}
    /\ balloon \in {"", "none", "infected", "error", "updated"}
    /\ gone \subseteq Range(task.files)

-----------------------------------------------------------------------------

(* Filters are for folders and drives, not for a file the user chose.      *)
shouldApplyPreferenceFilters(t) == t.mode = "scan" /\ t.target = "folder"

Filters(t, patterns) == IF shouldApplyPreferenceFilters(t) THEN patterns ELSE {}

(* The options of the command line that decide which lines come.           *)
buildClamscanCommand(t) ==
    [include |-> {Expression(p) : p \in Filters(t, t.include)},
     exclude |-> {Expression(p) : p \in Filters(t, t.exclude)},
     recursive |-> t.mode # "memory" /\ t.recursive,
     memory |-> t.mode = "memory",
     infectedOnly |-> t.infectedOnly,
     remove |-> t.remove]

Targets(t) == IF t.target = "file" THEN SubSeq(t.files, 1, 1) ELSE t.files

(* enumScanTargets: all the files below the target, whether or not the     *)
(* scan will be recursive; what is counted are positions.                  *)
enumScanTargets(t) ==
    {i \in DOMAIN Targets(t) :
        /\ t.mode = "scan" /\ t.by = "dialog"
        /\ shouldCountPath(Targets(t)[i].path, Filters(t, t.include),
                           Filters(t, t.exclude))}

Total(w) ==
    LET upTo[i \in 0 .. Len(w)] == IF i = 0 THEN 0 ELSE upTo[i - 1] + w[i]
    IN  upTo[Len(w)]

(* The bytes of those of the files that are counted.                       *)
SizeOf(files, counted) ==
    Total([i \in DOMAIN files |-> IF i \in counted THEN files[i].size ELSE 0])

(* The files clamscan comes across, and those it scans.                    *)
Reaches(t, f) ==
    \/ f.top \/ t.target = "file" \/ t.mode = "memory"
    \/ buildClamscanCommand(t).recursive
Scans(t, f) ==
    LET c == buildClamscanCommand(t)
    IN  Reaches(t, f) /\ (c.memory \/ Visits(f.path, c.include, c.exclude))

NoView == [box |-> <<>>, status |-> "", bar |-> 0, lastError |-> NoName]

Init ==
    /\ task \in Tasks
    /\ child = [at |-> IF task.mode = "update" THEN "db" ELSE "load",
                i |-> 1, n |-> 0, tries |-> 0]
    /\ outp = <<>> /\ errp = <<>>
    /\ LET counted == enumScanTargets(task) IN
         state = [initScanOutputState(IsUpdate) EXCEPT
                    !.expectedFiles = Cardinality(counted),
                    !.expectedBytes = SizeOf(Targets(task), counted)]
    /\ view = NoView
    /\ cancelled = FALSE
    /\ verdict = "" /\ code = -1 /\ balloon = ""
    /\ gone = {} /\ fetched = 0

-----------------------------------------------------------------------------
(* The tools.  A line is written when there is room for it; by default it  *)
(* goes to the standard output.                                            *)
Prints(l) ==
    /\ Len(outp) < PipeBound
    /\ outp' = Append(outp, l)
    /\ UNCHANGED errp
PrintError(l) ==
    /\ Len(errp) < PipeBound
    /\ errp' = Append(errp, l)
    /\ UNCHANGED outp
Silent == UNCHANGED <<outp, errp>>
At(where) == child' = [child EXCEPT !.at = where]
NextFile == child' = [child EXCEPT !.at = "files", !.i = @ + 1]
NextDb == child' = [child EXCEPT !.at = "db", !.i = @ + 1, !.tries = 0]
reader == <<task, state, view, cancelled, verdict, code, balloon>>

Files == Targets(task)
Current == Files[child.i]
Options == buildClamscanCommand(task)

LoadDatabase ==
    /\ child.at = "load"
    /\ Prints(Ratio("sigs", 1, 2))
    /\ At("files")
    /\ UNCHANGED <<reader, gone, fetched>>

ShowPercent ==
    /\ child.at = "files" /\ child.i <= Len(Files)
    /\ Scans(task, Current) /\ Current.is # "locked"
    /\ Prints(Named("percent", Current))
    /\ At("file")
    /\ UNCHANGED <<reader, gone, fetched>>

(* What is said of a file depends on what it is and on --infected; an      *)
(* infected file may be removed, after the line is written.                *)
ScanFile ==
    /\ child.at \in {"files", "file"} /\ child.i <= Len(Files)
    /\ \/ /\ Scans(task, Current) /\ Current.is = "infected"
          /\ Prints(Named("found", Current))
          /\ IF Options.remove THEN At("remove") ELSE NextFile
       \/ /\ Scans(task, Current) /\ Current.is = "clean"
          /\ IF Options.infectedOnly THEN Silent ELSE Prints(Named("ok", Current))
          /\ NextFile
       \/ /\ Scans(task, Current) /\ Current.is = "locked"
          /\ PrintError(Named("error", Current))
          /\ NextFile
       \/ /\ Reaches(task, Current) /\ ~Scans(task, Current)
          /\ IF Options.infectedOnly THEN Silent
             ELSE Prints(Named("excluded", Current))
          /\ NextFile
       \/ ~Reaches(task, Current) /\ Silent /\ NextFile
    /\ UNCHANGED <<reader, gone, fetched>>

RemoveFile ==
    /\ child.at = "remove"
    /\ gone' = gone \cup {Current}
    /\ NextFile
    /\ UNCHANGED <<reader, outp, errp, fetched>>

Are(kind) == {i \in DOMAIN Files : Scans(task, Files[i]) /\ Files[i].is = kind}
NumScanned == Cardinality(Are("clean") \cup Are("infected"))
NumInfected == Cardinality(Are("infected"))
NumLocked == Cardinality(Are("locked"))

Summarise ==
    /\ \/ /\ child.at = "files" /\ child.i > Len(Files)
          /\ Prints(Number("scannedfiles", NumScanned))
          /\ At("infected")
       \/ /\ child.at = "infected"
          /\ Prints(Number("infectedfiles", NumInfected))
          /\ At(IF NumLocked > 0 THEN "errors" ELSE "note")
       \/ /\ child.at = "errors"
          /\ Prints(Number("errorcount", NumLocked))
          /\ At("note")
       \/ /\ child.at = "note"
          /\ Prints(Line("note"))
          /\ At("exit")
    /\ UNCHANGED <<reader, gone, fetched>>

(* freshclam, database after database: up to date, or announced and        *)
(* downloaded, tested and installed.                                       *)
CheckDatabase ==
    /\ child.at = "db" /\ child.i <= Len(Databases)
    /\ \/ /\ Prints(Named("uptodate", Databases[child.i]))
          /\ NextDb
       \/ /\ Prints(Named("available", Databases[child.i]))
          /\ child' = [child EXCEPT !.at = "fetch", !.n = 0, !.tries = 1]
    /\ UNCHANGED <<reader, gone, fetched>>

Download ==
    /\ child.at = "fetch"
    /\ Prints(Ratio(IF child.n = 0 THEN "downloading" ELSE "row", child.n, DbSize))
    /\ fetched' = IF child.n > 0 THEN fetched + 1 ELSE fetched
    /\ child' = IF child.n = DbSize THEN [child EXCEPT !.at = "test"]
                ELSE [child EXCEPT !.n = @ + 1]
    /\ UNCHANGED <<reader, gone>>

(* A server fails; the same file is asked of another one, or not.          *)
ServerFails ==
    /\ child.at = "fetch"
    /\ \E l \in {Line("servererror"), Line("error")} : Prints(l) \/ PrintError(l)
    /\ \/ /\ child.tries < MaxTries
          /\ child' = [child EXCEPT !.n = 0, !.tries = @ + 1]
       \/ At("exit")
    /\ UNCHANGED <<reader, gone, fetched>>

Install ==
    /\ \/ /\ child.at = "test"
          /\ Prints(Line("testing"))
          /\ At("install")
       \/ /\ child.at = "install"
          /\ Prints(Named("updated", Databases[child.i]))
          /\ NextDb
    /\ UNCHANGED <<reader, gone, fetched>>

Refuse ==
    /\ child.at = "db" /\ child.i <= Len(Databases)
    /\ \E l \in {Line("ratelimit"), Line("unsupported")} : Prints(l) \/ PrintError(l)
    /\ At("exit")
    /\ UNCHANGED <<reader, gone, fetched>>

(* The exit code of a child that ended by itself is kept in child.n.  A    *)
(* freshclam that was told to come back later may end with 0, one that     *)
(* could not download does not.                                            *)
Exit ==
    /\ \/ child.at = "exit"
       \/ IsUpdate /\ child.at = "db" /\ child.i > Len(Databases)
    /\ \E c \in IF IsUpdate
                THEN IF child.at = "db" THEN {0}
                     ELSE IF child.tries = 0 THEN Failures \cup {0} ELSE Failures
                ELSE {IF NumInfected > 0 THEN 1 ELSE IF NumLocked > 0 THEN 2 ELSE 0} :
         child' = [child EXCEPT !.at = "ended", !.n = c]
    /\ UNCHANGED <<reader, outp, errp, gone, fetched>>

(* No freshclam.exe: the dialog's worker thread says so itself.            *)
ToolMissing ==
    /\ IsUpdate /\ IsDialog
    /\ child.at = "db" /\ child.i = 1
    /\ PrintError(Line("error"))
    /\ child' = [child EXCEPT !.at = "missing", !.n = -1]
    /\ UNCHANGED <<reader, gone, fetched>>

Tool == LoadDatabase \/ ShowPercent \/ ScanFile \/ RemoveFile \/ Summarise
          \/ CheckDatabase \/ Download \/ ServerFails \/ Install \/ Refuse
          \/ Exit \/ ToolMissing

-----------------------------------------------------------------------------
(* The reader.  GetFileAttributesEx does not find a file that is gone.     *)
SizeNow(l) == IF l.kind \in Counted /\ l.name \notin gone THEN l.name.size ELSE 0

(* The dialog starts every line with no errors counted.                    *)
Before == IF IsDialog THEN [state EXCEPT !.errors = 0] ELSE state

LooksLikeError(l, isError) == isError \/ l.kind \in {"error", "servererror"}

(* onScanOutput and appendLog; the task only keeps the state.  A memory    *)
(* scan's bar does not show progress.                                      *)
Shown(l, isError, e) ==
    IF ~IsDialog THEN view
    ELSE [box |-> IF e.append THEN Append(view.box, l) ELSE view.box,
          status |-> IF e.status = "" THEN view.status ELSE e.status,
          bar |-> IF e.bar = NoBar \/ (task.mode = "memory" /\ verdict = "")
                  THEN view.bar ELSE e.bar,
          lastError |-> IF IsUpdate /\ LooksLikeError(l, isError)
                        THEN l.kind ELSE view.lastError]

Handle(l, isError) ==
    \E r \in {processOutputLine(Before, l, isError, SizeNow(l))} :
        /\ state' = r[1]
        /\ view' = Shown(l, isError, r[2])
        /\ UNCHANGED <<task, child, cancelled, verdict, code, balloon, gone,
                       fetched>>

onOutput ==
    /\ outp # <<>>
    /\ outp' = Tail(outp)
    /\ UNCHANGED errp
    /\ Handle(Head(outp), FALSE)
onError ==
    /\ errp # <<>>
    /\ errp' = Tail(errp)
    /\ UNCHANGED outp
    /\ Handle(Head(errp), TRUE)

(* updateStatsDisplay, on a timer, until something is known of the scan.   *)
ShowEnumerated ==
    /\ IsDialog /\ ~IsUpdate /\ verdict = ""
    /\ ~state.dbPhase /\ ~state.filePhase /\ state.completed = 0
    /\ view' = [view EXCEPT !.status = "enumerated"]
    /\ UNCHANGED <<task, tool, state, cancelled, verdict, code, balloon>>

(* The user stops the scan and the child is killed.                        *)
Cancel ==
    /\ IsDialog
    /\ verdict = ""
    /\ cancelled' = TRUE
    /\ child' = IF child.at \in Ended THEN child
                ELSE [child EXCEPT !.at = "killed", !.n = 1]
    /\ UNCHANGED <<task, outp, errp, state, view, verdict, code, balloon, gone,
                   fetched>>

-----------------------------------------------------------------------------
(* onScanFinished.                                                         *)
NoUpdatesNeeded(c) == c = 0 /\ ~state.changes /\ state.upToDate > 0

(* Fault: a failure is looked for only if nothing was changed.             *)
ChangesAreSuccess(c) ==
    CASE cancelled -> "cancelled"
      [] ~cancelled /\ IsUpdate /\ state.changes -> "updated"
      [] ~cancelled /\ IsUpdate /\ ~state.changes /\ NoUpdatesNeeded(c) -> "uptodate"
      [] ~cancelled /\ IsUpdate /\ ~state.changes /\ ~NoUpdatesNeeded(c) -> "failed"
      [] OTHER -> "complete"

Verdict(c) ==
    IF cancelled THEN "cancelled"
    ELSE IF ~IsUpdate THEN "complete"
    ELSE IF child.at = "missing" THEN "missing"
    ELSE IF state.serverError THEN "servererror"
    ELSE IF state.blocked THEN IF state.unsupported THEN "unsupported" ELSE "blocked"
    ELSE IF c # 0 THEN "failed"
    ELSE IF NoUpdatesNeeded(c) THEN "uptodate"
    ELSE "updated"

Failed == {"missing", "servererror", "failed"}
Blocked == {"blocked", "unsupported"}

(* Files that are clean do not stay in the report.                         *)
reformatLog(box) ==
    LET kept[n \in 0 .. Len(box)] ==
            IF n = 0 THEN <<>>
            ELSE IF box[n].kind = "ok" THEN kept[n - 1]
            ELSE Append(kept[n - 1], box[n])
    IN  kept[Len(box)]

(* What the dialog adds at the end.                                        *)
Footer(v) ==
    LET failed == v \in Failed \cup Blocked
        nothing == v = "uptodate" \/ state.transferred + state.downloaded = 0
    IN  <<Line(IF v = "cancelled" THEN "Cancelled"
               ELSE IF v \in Failed THEN "Failed"
               ELSE IF v \in Blocked THEN "Blocked" ELSE "Completed")>>
        \o (IF ~IsUpdate /\ ~cancelled /\ state.errors > 0
            THEN <<Number("errornote", state.errors)>> ELSE <<>>)
        \o (IF IsUpdate /\ ~cancelled
            THEN <<IF failed THEN Line(v)
                   ELSE IF nothing THEN Line("nothing")
                   ELSE Number("downloaded", state.transferred + state.downloaded)>>
            ELSE <<>>)
        \o (IF IsUpdate /\ failed /\ view.lastError # NoName
            THEN <<Named("detail", view.lastError)>> ELSE <<>>)

ChildReported == child.at \in Ended /\ outp = <<>> /\ errp = <<>> /\ verdict = ""

onScanFinished ==
    /\ IsDialog /\ ChildReported
    /\ \E v \in {Verdict(child.n)} :
         /\ verdict' = v
         /\ code' = IF v = "uptodate" THEN 2 ELSE child.n
         /\ view' = [view EXCEPT
              !.box = (IF IsUpdate THEN @ ELSE reformatLog(@)) \o Footer(v),
              !.status = v,
              !.bar = IF v \in Failed \cup Blocked THEN 0 ELSE 100]
    /\ UNCHANGED <<task, tool, state, cancelled, balloon>>

(* The dialog returns to doScan, doScanMemory or doUpdate.                 *)
ScanBalloon(rc) ==
    IF rc = 1 THEN "infected" ELSE IF rc \notin {0, -1} THEN "error" ELSE "none"
UpdateBalloon(rc) ==
    IF rc = 0 THEN "updated" ELSE IF rc \notin {2, -1} THEN "error" ELSE "none"

Close ==
    /\ IsDialog /\ verdict # "" /\ balloon = ""
    /\ \E rc \in {IF cancelled THEN -1 ELSE code} :
         balloon' = IF IsUpdate THEN UpdateBalloon(rc) ELSE ScanBalloon(rc)
    /\ UNCHANGED <<task, tool, state, view, cancelled, verdict, code>>

(* The background task's end, and onBgTaskFinished.                        *)
onBgTaskFinished ==
    /\ ~IsDialog /\ ChildReported /\ balloon = ""
    /\ code' = child.n
    /\ balloon' = IF ~IsUpdate THEN ScanBalloon(code')
                  ELSE IF code' \notin {0, 2} THEN "error"
                  ELSE IF state.changes THEN "updated" ELSE "none"
    /\ UNCHANGED <<task, tool, state, view, cancelled, verdict>>

Reader == onOutput \/ onError \/ ShowEnumerated \/ Cancel \/ onScanFinished
            \/ Close \/ onBgTaskFinished

Next == Tool \/ Reader

Spec == Init /\ [][Next]_vars

-----------------------------------------------------------------------------
AllRead == child.at = "ended" /\ outp = <<>> /\ errp = <<>>

(* The counts the user sees are those of the scan: threats are never more  *)
(* than clamscan found, and both numbers are right when all has been read, *)
(* whichever of results and summary came, from whichever pipe.             *)
CountsTrue ==
    ~IsUpdate =>
        /\ state.threats <= NumInfected
        /\ AllRead => state.threats = NumInfected /\ state.files = NumScanned

(* A file that the user chose is scanned, whatever the filters say.        *)
ChosenIsScanned ==
    task.mode = "scan" /\ task.target = "file" /\ AllRead
        => state.files + NumLocked = 1

(* The numbers and the bar are in range, and those the user is shown are   *)
(* true, for every target and filter.                                      *)
ReportInv == TypeOK /\ CountsTrue /\ ChosenIsScanned

(* "File scanned: n/m" reaches m: the dialog counted beforehand the files  *)
(* that clamscan then reads, although the two apply the filters each in    *)
(* its own way; for masks, recursive scans and reports of every file.      *)
CountReached ==
    /\ task.mode = "scan" /\ IsDialog /\ AllRead
    /\ task.recursive /\ ~task.infectedOnly
    /\ \A p \in task.include \cup task.exclude : IsMask(p)
    => state.completed + NumLocked = state.expectedFiles

(* While the scan runs a full bar means that every file that takes time    *)
(* has been read, though infected files may be gone before they are        *)
(* measured.                                                               *)
FullBarIsDone ==
    /\ task.mode = "scan" /\ IsDialog /\ verdict = ""
    /\ view.bar = 100 /\ state.expectedBytes > 0
    /\ \A p \in task.include \cup task.exclude : IsMask(p)
    => \A i \in DOMAIN Files :
          Scans(task, Files[i]) /\ Files[i].size > 0 /\ Files[i].is # "locked"
            => i < child.i \/ child.at \notin {"load", "files", "file"}

(* "Downloaded total" is what freshclam has downloaded, over several       *)
(* databases and over downloads that were started again.                   *)
SessionBytes ==
    IsUpdate /\ outp = <<>> => state.transferred + state.downloaded = fetched

(* The report that is left has every infected file and every line of the   *)
(* error stream, and none of the lines that a console would overwrite.     *)
ReportComplete ==
    ~IsUpdate /\ verdict = "complete" =>
        LET kept == Range(view.box) IN
        /\ \A i \in Are("infected") : Named("found", Files[i]) \in kept
        /\ \A i \in Are("locked") : Named("error", Files[i]) \in kept
        /\ \A l \in kept : l.kind \notin ScanTransient \cup {"ok"}

(* The dialog never calls a failed update a success, and says that all was *)
(* up to date only if nothing was installed.                               *)
VerdictTrue ==
    /\ verdict \in {"updated", "uptodate"} => child.at = "ended" /\ child.n = 0
    /\ verdict = "uptodate" => fetched = 0
    /\ verdict = "updated" => fetched > 0

(* After an update that was not refused, and did not end with the code the *)
(* program itself uses for "no changes", the balloon says that the         *)
(* database was updated just if it was, in the background as in a dialog.  *)
BalloonTrue ==
    /\ IsUpdate /\ balloon # "" /\ AllRead /\ ~cancelled
    /\ ~state.blocked /\ child.n # 2
    => (balloon = "updated") = (child.n = 0 /\ fetched > 0)

(* What the user is told at the end, in the report, in the dialog's title  *)
(* and by the balloon, is what the tool did.                               *)
ToldTrue == ReportComplete /\ VerdictTrue /\ BalloonTrue
=============================================================================
