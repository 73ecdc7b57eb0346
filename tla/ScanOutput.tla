----------------------------- MODULE ScanOutput -----------------------------
(***************************************************************************)
(* CWScanLogic's reading of what clamscan and freshclam print              *)
(* (cw_scan_logic.cpp): one line at a time is turned into a new            *)
(* ScanOutputState and into effects for the progress dialog.               *)
(*                                                                         *)
(* A line is a record: its kind, which stands for the texts the code looks *)
(* for, the file or database it names, and one or two numbers.             *)
(***************************************************************************)
EXTENDS Integers, FiniteSetsExt

NoName == "none"

(* A line about nothing but its kind, about a name, or with numbers.       *)
Line(kind) == [kind |-> kind, name |-> NoName, n |-> 0, of |-> 0]
Named(kind, name) == [Line(kind) EXCEPT !.name = name]
Number(kind, n) == [Line(kind) EXCEPT !.n = n]
Ratio(kind, n, of) == [Line(kind) EXCEPT !.n = n, !.of = of]

(* Lines of clamscan.  Progress that is overwritten on a console, and what *)
(* is said of a file.                                                      *)
DbProgress == {"sigs", "tasks", "loading"}
FileProgress == {"percent", "spinner"}
ScanTransient == DbProgress \cup FileProgress
Counted == {"ok", "found"}
FileResults == Counted \cup {"excluded"}

(* Lines of freshclam that carry the bytes done and to do, and those among *)
(* them, with a row that has no bytes, that are not kept in the report.    *)
ByteProgress == {"downloading", "row", "sizes"}
UpdateTransient == {"row", "sizes", "eta"}

initScanOutputState(isUpdate) ==
    [isUpdate |-> isUpdate,
     files |-> 0, threats |-> 0, errors |-> 0,
     expectedFiles |-> 0, expectedBytes |-> 0,
     completed |-> 0, bytes |-> 0, ui |-> 0,
     dbPhase |-> FALSE, filePhase |-> FALSE,
     known |-> FALSE, downloaded |-> 0, total |-> 0, transferred |-> 0,
     updateUi |-> 0, changes |-> FALSE, upToDate |-> 0, current |-> NoName,
     blocked |-> FALSE, unsupported |-> FALSE, serverError |-> FALSE]

(* What a line does besides: the report gets it, the status line changes   *)
(* (unless ""), and the bar moves (unless NoBar).                          *)
NoBar == -1
Effects(append, status, bar) ==
    [append |-> append, status |-> status, bar |-> bar]

-----------------------------------------------------------------------------

(* What an update notes of a line on either stream.                        *)
Marked(s, l) ==
    [s EXCEPT
        !.blocked = @ \/ l.kind \in {"ratelimit", "unsupported"},
        !.unsupported = @ \/ l.kind = "unsupported",
        !.serverError = @ \/ l.kind = "servererror",
        !.changes = @ \/ l.kind \in {"available", "updated"},
        !.upToDate = IF l.kind = "uptodate" THEN @ + 1 ELSE @,
        !.current = IF l.kind = "updated" THEN l.name ELSE @]

MarkStatus(s, l) ==
    CASE l.kind = "ratelimit" -> "blocked"
      [] l.kind = "unsupported" -> "unsupported"
      [] l.kind = "servererror" -> "servererror"
      [] l.kind = "uptodate" /\ ~s.changes -> "uptodate"
      [] l.kind = "testing" -> "verifying"
      [] l.kind = "updated" -> "installed"
      [] OTHER -> ""

(* Fault: the threats of the summary come on top of those counted.         *)
SummaryAdded(s, l) ==
    [s EXCEPT !.files = IF l.kind = "scannedfiles" THEN l.n ELSE @,
              !.threats = IF l.kind = "infectedfiles" THEN @ + l.n ELSE @,
              !.errors = IF l.kind = "errorcount" THEN l.n ELSE @]

(* parseSummaryInt for the three labels of the summary.                    *)
Summary(s, l) ==
    [s EXCEPT !.files = IF l.kind = "scannedfiles" THEN l.n ELSE @,
              !.threats = IF l.kind = "infectedfiles" THEN l.n ELSE @,
              !.errors = IF l.kind = "errorcount" THEN l.n ELSE @]

-----------------------------------------------------------------------------

(* Scans.  Per cent done: of the bytes, if the dialog could count them,    *)
(* else of the files.                                                      *)
Percent(s) ==
    IF s.expectedBytes > 0 THEN Min({100, (s.bytes * 100) \div s.expectedBytes})
    ELSE (s.completed * 100) \div Max({1, s.expectedFiles, s.completed})

(* A file's result; size is that of the file now, 0 when it is gone.       *)
OneMore(s, l, size) ==
    LET t == [s EXCEPT !.completed = @ + 1,
                       !.files = s.completed + 1,
                       !.bytes = @ + size,
                       !.threats = IF l.kind = "found" THEN @ + 1 ELSE @]
    IN  [t EXCEPT !.ui = Max({@, Percent(t)})]

(* Fault: a file that was left out counts as scanned.                      *)
CountsExcluded(s, l, size) ==
    IF l.kind \in FileResults THEN OneMore(s, l, size) ELSE s

FileDone(s, l, size) ==
    IF l.kind \in Counted THEN OneMore(s, l, size) ELSE s

ScanStatus(s, l) ==
    CASE l.kind \in FileProgress \cup FileResults -> "scanned"
      [] l.kind \in DbProgress -> l.kind
      [] ~s.dbPhase /\ ~s.filePhase -> "engine"
      [] OTHER -> ""

ScanLine(s, l, size) ==
    LET phased == [s EXCEPT
                     !.dbPhase = @ \/ l.kind \in DbProgress,
                     !.filePhase = @ \/ l.kind \in FileProgress \cup FileResults]
        next == FileDone(phased, l, size)
    IN  <<next, Effects(l.kind \notin ScanTransient, ScanStatus(next, l), next.ui)>>

-----------------------------------------------------------------------------
(* Updates.  A new database starts at zero; what was downloaded of the one *)
(* before goes to the session's total.                                     *)
Switch(s, l) ==
    IF l.kind = "available" THEN
        [s EXCEPT !.transferred = @ + s.downloaded,
                  !.current = l.name,
                  !.known = FALSE, !.downloaded = 0, !.total = 0,
                  !.updateUi = 0]
    ELSE s

Done(s, l) ==
    [s EXCEPT !.known = TRUE, !.downloaded = l.n, !.total = l.of,
              !.updateUi = Min({100, (l.n * 200 + l.of) \div (2 * l.of)})]

(* Fault: a download that starts again replaces what was downloaded.       *)
Replaced(s, l) == IF l.kind \in ByteProgress THEN Done(s, l) ELSE s

(* Fewer bytes than before: another file, or the same one again.           *)
Progress(s, l) ==
    IF l.kind \notin ByteProgress THEN s
    ELSE IF l.n < s.downloaded
         THEN [Done(s, l) EXCEPT !.transferred = @ + s.downloaded]
    ELSE Done(s, l)

UpdateLine(s, l) ==
    LET next == Progress(Switch(s, l), l)
        refresh == \/ ~s.known \/ next.updateUi # s.updateUi
                   \/ next.updateUi >= 100
    IN  <<next,
          IF l.kind = "available" THEN Effects(TRUE, "downloading", 0)
          ELSE IF l.kind \in ByteProgress /\ refresh
               THEN Effects(l.kind \notin UpdateTransient, "downloading", next.updateUi)
          ELSE Effects(l.kind \notin UpdateTransient, MarkStatus(s, l), NoBar)>>

(* <<new state, effects>>.  Lines of the error stream are kept and marked, *)
(* and are not looked at further.                                          *)
processOutputLine(s, l, isError, size) ==
    LET marked == IF s.isUpdate THEN Marked(s, l) ELSE s
    IN  IF isError
        THEN <<marked, Effects(TRUE, IF s.isUpdate THEN MarkStatus(marked, l) ELSE "", NoBar)>>
        ELSE IF s.isUpdate THEN UpdateLine(Summary(marked, l), l)
        ELSE ScanLine(Summary(marked, l), l, size)
=============================================================================
