--------------------------- MODULE SettingsStore ----------------------------
(***************************************************************************)
(* What the users of CWConfig rely on: settings are kept in one place.  A  *)
(* start reads what the last save wrote; a save that is cut short leaves   *)
(* each setting at its old or its new value; nothing else changes them.    *)
(***************************************************************************)
CONSTANT Fields
VARIABLES on, mem, disk

Init == ~on /\ mem = disk

Load == on' /\ mem' = disk /\ disk' = disk

Change == on /\ on' /\ disk' = disk

Save == on /\ on' /\ disk' = mem'

CutShort ==
    /\ on /\ ~on'
    /\ \E old \in {disk}, new \in {disk'}, last \in {mem'} :
         \A f \in Fields : new[f] \in {old[f], last[f]}

End == ~on' /\ mem' = mem /\ disk' = disk

Next == Change \/ Save \/ Load \/ End \/ CutShort

Spec == Init /\ [][Next]_<<on, mem, disk>>
=============================================================================
