------------------------------ MODULE Settings ------------------------------
(***************************************************************************)
(* The configuration in use: starts and ends of the program, the           *)
(* Preferences and Schedule dialogs, the scheduler's saves, and the        *)
(* reload for a version check, all on the user-interface thread, with      *)
(* ClamWin.conf written key by key.                                        *)
(*                                                                         *)
(* A modal dialog dispatches messages, so the scheduler may save, and a    *)
(* version check may reload, the configuration a dialog is editing.        *)
(***************************************************************************)
EXTENDS Preferences

CONSTANTS Profiles,   \* what a first start finds, and a bound for the user's
                      \* entries: [root, files, entries]
          Edits,      \* <<control, value>> pairs the user may enter
          CutPoints,  \* bound: keys written when a save is cut short
          MaxStarts,  \* bound: starts of the program
          MaxRuns     \* bound: scheduled scans

(* The template in the program's folder, unless it makes the program       *)
(* standalone, holds what the installer writes (Setup.iss:229) and not a   *)
(* user's settings.                                                        *)
InstallersTemplate(files, root) ==
    \/ root = "install" \/ isStandaloneTemplate(files)
    \/ ~HasAny(files["install"], UserKeys)

(* A profile that has an older program's file beside it is told from a     *)
(* copy of the template, whatever is saved in it.                          *)
Recognizable(files, root) ==
    \/ root = "install" \/ isStandaloneTemplate(files)
    \/ PreferredLegacy(files) \in {"none", root}
    \/ ~files["install"].exists \/ HasAny(files["install"], SeedKeys)
    \/ ~files[root].exists \/ isPristineBootstrapCopy(files, root)
    \/ HasAny(files[root], UserKeys)

IsDisk(files, root) ==
    /\ root \in {"install", "appdata", "user"}
    /\ files = [p \in Places |-> files[p]]
    /\ \A p \in Places : IsFile(files[p])
    /\ InstallersTemplate(files, root)
    /\ Recognizable(files, root)

IsEntry(f, v) ==
    /\ f \in Controls \cup ScheduleControls
    /\ v \in IF f = "excludePatterns" THEN PatternSet ELSE ValuesOf(f)

ASSUME SettingsAssumption ==
    /\ \A s \in Profiles : IsDisk(s.files, s.root)
    /\ \A e \in Edits : IsEntry(e[1], e[2])
    /\ CutPoints \subseteq 1 .. Len(SaveOrder)

VARIABLES
    root,    \* the profile's place when the template is not standalone
    files,   \* ClamWin.conf in each place
    conf,    \* freshclam.conf in each place
    on,      \* the program runs
    ini,     \* m_config.iniPath
    cfg,     \* m_config
    dlg,     \* the modal dialog: "none", "prefs" or "schedule"
    ctl,     \* what its controls show
    page,    \* the page shown
    marked,  \* controls marked by a refusal
    starts,  \* so far
    entries  \* left for the user

disks == <<files, conf>>
dialog == <<dlg, ctl, page, marked>>
bounds == <<starts, entries>>
vars == <<root, files, conf, on, ini, cfg, dialog, bounds>>

NoControls == <<>>

(* The settings a start would find.                                        *)
NextPlace == resolveDefaultIniPathForLoad(files, root)
NextLoad == load(bootstrapLegacyProfile(files, NextPlace)[NextPlace], NextPlace)

Init ==
    /\ \E s \in Profiles : root = s.root /\ files = s.files /\ entries = s.entries
    /\ conf = [p \in Places |-> NoConf]
    /\ on = FALSE
    /\ ini = NextPlace
    /\ cfg = NextLoad
    /\ dlg = "none" /\ ctl = NoControls /\ page = "General" /\ marked = {}
    /\ starts = 0

Closed == dlg' = "none" /\ ctl' = NoControls /\ page' = "General" /\ marked' = {}

(* load() with no path: select, bootstrap, read, and write freshclam.conf. *)
Start ==
    /\ ~on /\ starts < MaxStarts
    /\ on' = TRUE
    /\ starts' = starts + 1
    /\ ini' = NextPlace
    /\ files' = bootstrapLegacyProfile(files, NextPlace)
    /\ cfg' = NextLoad
    /\ conf' = [conf EXCEPT ![NextPlace] = FreshclamConf(NextLoad)]
    /\ UNCHANGED <<root, dialog, entries>>

(* A version check loads the file in use again.                            *)
Reload ==
    /\ on
    /\ cfg' = load(files[ini], ini)
    /\ conf' = [conf EXCEPT ![ini] = FreshclamConf(cfg')]
    /\ UNCHANGED <<root, files, on, ini, dialog, bounds>>

(* The program ends, or is ended, between two messages.                    *)
End ==
    /\ on
    /\ on' = FALSE
    /\ Closed
    /\ UNCHANGED <<root, disks, ini, cfg, bounds>>

(* Fault: saves go to the default file, whichever was loaded.              *)
DefaultPlace == ProfileRoot(files, root)

(* save() writes the file that was loaded.                                 *)
SavePlace == ini

(* Fault: freshclam.conf is not written.                                   *)
SavedOnlyIni(c) ==
    /\ files' = [files EXCEPT ![SavePlace] = save(@, c, Len(SaveOrder))]
    /\ UNCHANGED conf

(* save() of the settings c.                                               *)
Saved(c) ==
    /\ files' = [files EXCEPT ![SavePlace] = save(@, c, Len(SaveOrder))]
    /\ conf' = [conf EXCEPT ![SavePlace] = FreshclamConf(c)]

(* check() of the scheduler records a run and saves.                       *)
ScheduledRun ==
    /\ on
    /\ cfg.scanLastRunTime < MaxRuns
    /\ cfg' = [cfg EXCEPT !.scanLastRunTime = @ + 1]
    /\ Saved(cfg')
    /\ UNCHANGED <<root, on, ini, dialog, bounds>>

-----------------------------------------------------------------------------
OpenPreferences ==
    /\ on /\ dlg = "none"
    /\ dlg' = "prefs"
    /\ \E first \in cfg.excludePatterns \cup {Whole("none")} :
         /\ cfg.excludePatterns # {} => first \in cfg.excludePatterns
         /\ ctl' = loadFromConfig(cfg, first)
    /\ page' = "General"
    /\ marked' = {}
    /\ UNCHANGED <<root, disks, on, ini, cfg, bounds>>

(* The user selects a page and changes a control on it that can be used,   *)
(* or adds or removes a pattern; this clears the control's mark.           *)
Enter(f, v) ==
    /\ entries > 0
    /\ entries' = entries - 1
    /\ f \in DOMAIN ctl
    /\ CASE dlg = "prefs" -> page' = PageOf(f) /\ Usable(ctl, f)
         [] dlg = "schedule" -> page' = page /\ ScheduleUsable(ctl, f)
    /\ ctl' = [ctl EXCEPT ![f] =
                 IF f # "excludePatterns" THEN v
                 ELSE IF v \in @ THEN @ \ {v} ELSE @ \cup {v}]
    /\ marked' = marked \ {f}
    /\ UNCHANGED <<root, disks, on, ini, cfg, dlg, starts>>

(* Save stops at the first refusal, with what it has assigned so far.      *)
PreferencesRefused ==
    /\ dlg = "prefs"
    /\ LET n == RefusedAt(ctl) IN
         /\ n # 0
         /\ cfg' = saveToConfig(cfg, ctl, n)
         /\ page' = PageOf(Refused(n, ctl))
         /\ marked' = marked \cup {Refused(n, ctl)}
    /\ UNCHANGED <<root, disks, on, ini, dlg, ctl, bounds>>

PreferencesSaved ==
    /\ dlg = "prefs"
    /\ RefusedAt(ctl) = 0
    /\ cfg' = saveToConfig(cfg, ctl, Len(Groups))
    /\ Saved(cfg')
    /\ Closed
    /\ UNCHANGED <<root, on, ini, bounds>>

(* doPreferences(): IDCANCEL is not zero, so Cancel saves what refused     *)
(* attempts have left in the configuration.                                *)
PreferencesCancelled ==
    /\ dlg = "prefs"
    /\ Saved(cfg)
    /\ Closed
    /\ UNCHANGED <<root, on, ini, cfg, bounds>>

OpenSchedule ==
    /\ on /\ dlg = "none"
    /\ dlg' = "schedule"
    /\ ctl' = loadSchedule(cfg)
    /\ UNCHANGED <<root, disks, on, ini, cfg, page, marked, bounds>>

ScheduleSaved ==
    /\ dlg = "schedule"
    /\ cfg' = saveSchedule(cfg, ctl)
    /\ Saved(cfg')
    /\ Closed
    /\ UNCHANGED <<root, on, ini, bounds>>

(* Cancel leaves the configuration alone; doSchedule() saves it.           *)
ScheduleCancelled ==
    /\ dlg = "schedule"
    /\ Saved(cfg)
    /\ Closed
    /\ UNCHANGED <<root, on, ini, cfg, bounds>>

(* What a save may be writing when the program is ended inside it.         *)
BeingSaved ==
    {c \in {[cfg EXCEPT !.scanLastRunTime = @ + 1]} : cfg.scanLastRunTime < MaxRuns}
    \cup (IF dlg = "none" THEN {} ELSE {cfg})
    \cup (IF dlg = "prefs" /\ RefusedAt(ctl) = 0
          THEN {saveToConfig(cfg, ctl, Len(Groups))} ELSE {})
    \cup (IF dlg = "schedule" THEN {saveSchedule(cfg, ctl)} ELSE {})

EndInSave ==
    /\ on
    /\ cfg' \in BeingSaved
    /\ \E n \in CutPoints :
         files' = [files EXCEPT ![ini] = save(@, cfg', n)]
    /\ on' = FALSE
    /\ Closed
    /\ UNCHANGED <<root, conf, ini, bounds>>

Next ==
    \/ Start \/ Reload \/ End \/ EndInSave \/ ScheduledRun
    \/ OpenPreferences \/ OpenSchedule
    \/ (\E e \in Edits : Enter(e[1], e[2]))
    \/ PreferencesRefused \/ PreferencesSaved \/ PreferencesCancelled
    \/ ScheduleSaved \/ ScheduleCancelled

Spec == Init /\ [][Next]_vars

-----------------------------------------------------------------------------
(* Settings stay in the ranges the rest of the program reads them in,      *)
(* whatever file they came from; a refusal marks a control of the dialog.  *)
TypeOK ==
    /\ root \in {"install", "appdata", "user"}
    /\ ini \in Places
    /\ IsSetting(cfg)
    /\ IsSetting(NextLoad)
    /\ page \in Pages
    /\ marked \subseteq Controls \ Toggles

Store == INSTANCE SettingsStore WITH mem <- Settled(ini, cfg), disk <- NextLoad

(* Across starts, places, copies of the template and old programs' files,  *)
(* the next start finds exactly what was last saved (SettingsStore).       *)
ImplementsStore == Store!Spec

(* freshclam.conf says what m_config says whenever no dialog is open, so a *)
(* scheduled or manual update uses the mirror and proxy the user sees.     *)
ConfInSync == on /\ dlg = "none" => conf[ini] = FreshclamConf(cfg)

(* Whatever was on disk, and whenever a save was cut short, the settings   *)
(* in use are in range and the updater's are the same.                     *)
SettingsInv == TypeOK /\ ConfInSync

(* A refused control can be found and changed: it is on the page shown     *)
(* when Save is refused, and enabled.  The update frequency and its day    *)
(* are excepted while updates are off: they are refused all the same, and  *)
(* their boxes cannot be used.                                             *)
RefusalCanBeFixed ==
    [][PreferencesRefused =>
         LET f == Refused(RefusedAt(ctl), ctl)
         IN  /\ f \in Page[page']
             /\ \/ Usable(ctl, f)
                \/ f \in {"updateFrequency", "scanDay"} /\ ~ctl.updateScheduled]_vars

(* A Save that is accepted is what the next start finds, control for       *)
(* control, whatever was reloaded or saved while the dialog was open; only *)
(* a limit that was below zero in the file, and is not used, becomes zero. *)
SavedAsShown ==
    [][PreferencesSaved =>
         \A f \in Controls :
            NextLoad'[f] = Settled(ini, saveToConfig(cfg, ctl, Len(Groups)))[f]
            /\ (f \notin {"databasePath", "quarantinePath", "scanLogFile",
                          "excludePatterns"}
                => NextLoad'[f] = IF f \in Limits THEN AtLeast0(ctl[f]) ELSE ctl[f])]_vars

(* "save and reload preserves all fields" (tests/test_config.cpp): the     *)
(* patterns saved are those the user has entered or left alone.            *)
FiltersKept == \A p \in NextLoad.excludePatterns : p = Whole(p.text)
=============================================================================
