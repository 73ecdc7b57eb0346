---------------------------- MODULE MCLogViewer ----------------------------
(* A model-checking instance of LogViewer: a scan of a dialog and one in   *)
(* the background, in one process.                                         *)
EXTENDS LogViewer

CONSTANTS dialog, background

TwoRuns == {dialog, background}
OneProcess == [r \in TwoRuns |-> 1]
OneHeader == [r \in TwoRuns |-> 1]
DialogReports == {dialog}
=============================================================================
