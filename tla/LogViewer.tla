------------------------------ MODULE LogViewer ------------------------------
(***************************************************************************)
(* The log viewer (cw_logview_dialog.cpp) over a log that runs write to.   *)
(* It reads the file once, when it opens, without letting others write,    *)
(* and then scrolls its copy with scrollbars that it draws and handles     *)
(* itself.  Both scrollbars use the same arithmetic; the vertical one,     *)
(* with one text on a line, stands for both.                               *)
(***************************************************************************)
EXTENDS LogFile, Integers

CONSTANTS Track,     \* length of the scrollbar, in pixels
          MinThumb,  \* CW_Scale(24)
          Page       \* lines that fit in the window

ASSUME ViewerAssumption ==
    Track \in Nat \ {0} /\ MinThumb \in Nat /\ Page \in Nat \ {0}

VARIABLE view  \* see ViewTypeOK

vars == <<logVars, view>>

NoDrag == -1
Closed == [at |-> "closed", size |-> 0, lines |-> <<>>, first |-> 0, drag |-> NoDrag]

ViewTypeOK ==
    /\ TypeOK
    /\ view.at \in {"closed", "reading", "open", "failed"}
    /\ view.size \in Nat
    /\ view.first \in 0 .. Len(view.lines)
    /\ view.drag \in {NoDrag} \cup 0 .. Track

Init == LogInit /\ view = Closed

-----------------------------------------------------------------------------

ViewHandle == Handle(Viewer, "read", {"read"})

(* CreateFile and GetFileSize; what cannot be opened is reported.          *)
OpenView ==
    /\ view.at = "closed"
    /\ IF log # <<>> /\ CanOpen(ViewHandle.mode, ViewHandle.share)
       THEN /\ handles' = handles \cup {ViewHandle}
            /\ view' = [view EXCEPT !.at = "reading", !.size = Len(log)]
       ELSE /\ view' = [view EXCEPT !.at = "failed"]
            /\ UNCHANGED handles
    /\ UNCHANGED <<log, written, temps, tick, run, exposed, disturbed, crashed>>

MaxPos(n) == IF n > Page THEN n - Page ELSE 0

(* ReadFile, and the last page is scrolled to.                             *)
ReadView ==
    /\ view.at = "reading"
    /\ view' = [view EXCEPT !.at = "open", !.lines = SubSeq(log, 1, view.size),
                            !.first = MaxPos(view.size)]
    /\ handles' = Others(Viewer)
    /\ UNCHANGED <<log, written, temps, tick, run, exposed, disturbed, crashed>>

CloseView ==
    /\ view.at \in {"open", "failed"}
    /\ view' = Closed
    /\ UNCHANGED logVars

-----------------------------------------------------------------------------
(* The thumb, for n lines of which the one after first is at the top.      *)
ThumbLen(n) ==
    LET fair == IF n > 0 THEN (Track * Page) \div n ELSE Track
        big == IF fair < MinThumb THEN MinThumb ELSE fair
    IN  IF big > Track THEN Track ELSE big

(* Fault: a first line beyond the last page is not brought back.           *)
ThumbPosUnclamped(n, first) ==
    IF MaxPos(n) > 0 /\ Track > ThumbLen(n)
    THEN ((Track - ThumbLen(n)) * first) \div MaxPos(n) ELSE 0

ThumbPos(n, first) ==
    LET f == IF first > MaxPos(n) THEN MaxPos(n) ELSE first
    IN  IF MaxPos(n) > 0 /\ Track > ThumbLen(n)
        THEN ((Track - ThumbLen(n)) * f) \div MaxPos(n) ELSE 0

(* The first line for a thumb dragged to pos.                              *)
DragTop(n, pos) ==
    LET free == Track - ThumbLen(n)
        p == IF pos < 0 THEN 0 ELSE IF pos > free THEN free ELSE pos
    IN  IF MaxPos(n) > 0 /\ free > 0 THEN (p * MaxPos(n)) \div free ELSE 0

(* EM_LINESCROLL does not go beyond the first or the last line.            *)
Scrolled(n, top) == IF top < 0 \/ n = 0 THEN 0 ELSE IF top >= n THEN n - 1 ELSE top

Lines == Len(view.lines)
OnThumb(y) ==
    /\ y >= ThumbPos(Lines, view.first)
    /\ y <= ThumbPos(Lines, view.first) + ThumbLen(Lines)

(* On the thumb a drag starts; above or below it a page is turned.         *)
onCustomScrollbarMouseDown(y) ==
    /\ view.at = "open" /\ view.drag = NoDrag
    /\ view' = IF OnThumb(y)
               THEN [view EXCEPT !.drag = y - ThumbPos(Lines, view.first)]
               ELSE IF y < ThumbPos(Lines, view.first)
               THEN [view EXCEPT !.first = Scrolled(Lines, @ - Page)]
               ELSE [view EXCEPT !.first = Scrolled(Lines, @ + Page)]
    /\ UNCHANGED logVars

onCustomScrollbarMouseMove(y) ==
    /\ view.at = "open" /\ view.drag # NoDrag
    /\ view' = [view EXCEPT !.first = Scrolled(Lines, DragTop(Lines, y - view.drag))]
    /\ UNCHANGED logVars

onCustomScrollbarMouseUp ==
    /\ view.drag # NoDrag
    /\ view' = [view EXCEPT !.drag = NoDrag]
    /\ UNCHANGED logVars

ScrollNext ==
    \/ \E y \in 0 .. Track - 1 : onCustomScrollbarMouseDown(y)
    \/ \E y \in -1 .. Track + 1 : onCustomScrollbarMouseMove(y)
    \/ onCustomScrollbarMouseUp

Next ==
    \/ LogNext /\ UNCHANGED view
    \/ OpenView \/ ReadView \/ CloseView
    \/ ScrollNext

Spec == Init /\ [][Next]_vars

-----------------------------------------------------------------------------
(* The viewer shows a log that was whole when it read it: nothing is       *)
(* appended, and the log is not replaced, between its size and its text.   *)
ViewIsWhole == view.at = "reading" => view.size = Len(log)

(* Appends are given up silently; but that happens only while the viewer   *)
(* reads, never because of other runs, their children or their trims.      *)
OnlyViewerRefuses ==
    [][\A r \in Runs :
         run[r].pc = "idle" /\ run[r].doing \in {"header", "failed", "footer"}
           /\ run'[r].pc = "idle" /\ run'[r] # run[r] /\ crashed' = crashed
         => view.at = "reading"]_vars

(* The thumb never leaves the scrollbar, even when a page was turned       *)
(* beyond the last full one.                                               *)
ThumbInTrack ==
    view.at = "open" =>
        ThumbPos(Lines, view.first) + ThumbLen(Lines) \in 0 .. Track

(* Dragging reaches all of the text: the thumb's ends are the ends of the  *)
(* text, a line further down never needs a thumb further up, and a thumb   *)
(* is not drawn below the place it was dragged to.                         *)
DragReachesEnds ==
    view.at = "open" =>
        /\ DragTop(Lines, 0) = 0
        /\ ThumbLen(Lines) < Track => DragTop(Lines, Track - ThumbLen(Lines)) = MaxPos(Lines)
        /\ \A y \in 0 .. Track :
              /\ DragTop(Lines, y) <= DragTop(Lines, y + 1)
              /\ ThumbPos(Lines, DragTop(Lines, y)) <= y

(* The viewer shows a whole log, and all of it can be scrolled to.         *)
ViewerInv == ViewTypeOK /\ ViewIsWhole /\ ThumbInTrack /\ DragReachesEnds
=============================================================================
