----------------------------- MODULE MCDesktop ------------------------------
(* Model-checking instance of Desktop.                                     *)
EXTENDS Desktop

CONSTANTS l1, l2, f, g

ThisVersion == <<1, 5, 1>>

World(slots, lines, commands) ==
    [slots |-> slots, lines |-> lines, commands |-> commands, tags |-> {},
     folders |-> {f}, writes |-> FALSE, fails |-> FALSE, until |-> 0,
     pending |-> 2]

(* Processes that come and go.                                             *)
Launching == World({l1, l2}, {{}, {"open"}, {"download", "check"},
                              {"mode=viewlog"}}, {"exit"})

(* Updates in dialogs and in the background.                               *)
Updating == [World({l1}, {{}}, {"open", "update", "scheduled"})
             EXCEPT !.until = 1, !.writes = TRUE]

(* Another process updates the same databases.                             *)
Sharing == [World({l1, l2}, {{"mode=update"}, {"open"}}, {"scheduled"})
            EXCEPT !.until = 1, !.writes = TRUE, !.pending = 1]

(* The user chooses another folder for the databases.                      *)
Moving == [World({l1}, {{}}, {"open", "prefs"})
           EXCEPT !.folders = {f, g}, !.until = 2]

(* Version checks before and after the dashboard is opened.                *)
Announcing == [World({l1, l2}, {{}, {"check"}}, {"open", "exit"})
               EXCEPT !.tags = {<<1, 6>>, <<0, 9, 9>>, <<2>>, <<1, 5, 1>>}]

(* The dashboard's window may not be created, before and after an update   *)
(* and the announcement of a version.                                      *)
Failing == [World({l1}, {{}, {"open"}}, {"open", "check", "update"})
            EXCEPT !.tags = {<<1, 6>>}, !.writes = TRUE, !.fails = TRUE]

AllWorlds == {Launching, Updating, Sharing, Moving, Announcing, Failing}
=============================================================================
