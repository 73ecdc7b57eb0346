---------------------------- MODULE Preferences -----------------------------
(***************************************************************************)
(* The controls of CWPrefsDialog and CWScheduleDialog: what they show of   *)
(* the configuration, on which page, when they can be used, and what Save  *)
(* takes from them.  A control has the name of its setting.                *)
(***************************************************************************)
EXTENDS Config

(* Combo boxes hold what is selected, -1 for nothing.                      *)
UpdateFrequencies == <<"Daily", "Weekly", "Workdays">>
ScanFrequencies == <<"Daily", "Workdays", "Weekly", "Hourly">>
Days == 0 .. 6

(* What the scheduler makes of the number.                                 *)
frequencyName(n) ==
    CASE n = 0 -> "Daily" [] n = 1 -> "Workdays" [] n = 2 -> "Weekly"
      [] n = 3 -> "Hourly" [] OTHER -> "Unknown"

Selection(n, items) == IF n \in 0 .. items - 1 THEN n ELSE -1

-----------------------------------------------------------------------------
(* The pages and the controls on each.                                     *)
GeneralPage == {"scanMail", "infectedAction", "quarantinePath"}
FiltersPage == {"excludePatterns"}
UpdatesPage == {"updateScheduled", "dbMirror", "updateFrequency", "scanDay"}
ProxyPage == {"proxyEnabled", "proxyHost", "proxyPort"}
LimitsPage == {"scanArchives", "maxScanSizeMb", "maxFileSizeMb"}
FilesPage == {"databasePath", "scanLogFile"}
AdvancedPage == {"maxLogSizeMb", "priority"}

Page ==
    [General |-> GeneralPage, Filters |-> FiltersPage, Updates |-> UpdatesPage,
     Proxy |-> ProxyPage, Limits |-> LimitsPage, Files |-> FilesPage,
     Advanced |-> AdvancedPage]

Pages == DOMAIN Page
Controls == UNION {Page[p] : p \in Pages}
PageOf(f) == CHOOSE p \in Pages : f \in Page[p]

ScheduleControls == {"scanScheduled", "scanFrequency", "scanDay"}

(* Toggles carry no mark of a refusal.                                     *)
Toggles == {"scanMail", "infectedAction", "updateScheduled", "proxyEnabled", "scanArchives"}

(* updateEnableStates().                                                   *)
Usable(c, f) ==
    CASE f = "quarantinePath" -> c.infectedAction = 2
      [] f \in {"dbMirror", "updateFrequency"} -> c.updateScheduled
      [] f = "scanDay" -> c.updateScheduled /\ c.updateFrequency = 1
      [] f \in {"proxyHost", "proxyPort"} -> c.proxyEnabled
      [] f = "maxScanSizeMb" -> c.scanArchives
      [] OTHER -> TRUE

(* updateDayEnableState() of the schedule dialog.                          *)
ScheduleUsable(c, f) == f = "scanDay" => c.scanFrequency = 2

-----------------------------------------------------------------------------
(* populatePatternList() skips one character too many after a separator:   *)
(* every pattern but the first loses one, and is left out when it is gone. *)
Shorter(p) == [p EXCEPT !.lost = @ + 1]
PatternList(ps, first) ==
    {p \in {IF q = first THEN q ELSE Shorter(q) : q \in ps} : p.lost <= 4}

(* What the controls show of c.                                            *)
loadFromConfig(c, first) ==
    [f \in Controls |->
        CASE f = "updateFrequency" -> Selection(c[f], Len(UpdateFrequencies))
          [] f = "scanDay" -> Selection(c[f], Cardinality(Days))
          [] f = "excludePatterns" -> PatternList(c[f], first)
          [] f = "priority" -> IF c[f] = "l" THEN "l" ELSE "n"
          [] OTHER -> c[f]]

loadSchedule(c) ==
    [f \in ScheduleControls |->
        CASE f = "scanFrequency" -> Selection(c[f], Len(ScanFrequencies))
          [] f = "scanDay" -> Selection(c[f], Cardinality(Days))
          [] OTHER -> c[f]]

-----------------------------------------------------------------------------
AtLeast0(n) == IF n < 0 THEN 0 ELSE n

(* Fault: the limits of archives are checked when archives are not scanned.*)
RefusedAnyLimit(c) ==
    IF AtLeast0(c.maxFileSizeMb) \notin 1 .. MaxMb THEN "maxFileSizeMb"
    ELSE IF AtLeast0(c.maxScanSizeMb) \notin 1 .. MaxMb THEN "maxScanSizeMb"
    ELSE "none"

(* CW_ValidateLimitsValues().                                              *)
RefusedLimit(c) ==
    IF AtLeast0(c.maxFileSizeMb) \notin 1 .. MaxMb THEN "maxFileSizeMb"
    ELSE IF c.scanArchives /\ AtLeast0(c.maxScanSizeMb) \notin 1 .. MaxMb
    THEN "maxScanSizeMb"
    ELSE "none"

(* saveToConfig() assigns settings in groups and checks after each.        *)
Groups ==
    <<{"scanMail", "infectedAction", "quarantinePath"},
      {"updateScheduled", "dbMirror"},
      {"updateFrequency"},
      {"scanDay"},
      {"proxyEnabled", "proxyHost", "proxyPort"},
      {"scanArchives", "maxScanSizeMb", "maxFileSizeMb"},
      {"databasePath", "scanLogFile"},
      {"maxLogSizeMb"},
      {"priority", "excludePatterns"}>>

(* The control that the check after group n refuses.                       *)
Refused(n, c) ==
    CASE n = 1 /\ c.infectedAction = 2 /\ c.quarantinePath = "" -> "quarantinePath"
      [] n = 2 /\ c.updateScheduled /\ c.dbMirror = "" -> "dbMirror"
      [] n = 3 /\ c.updateFrequency < 0 -> "updateFrequency"
      [] n = 4 /\ c.updateFrequency = 1 /\ c.scanDay < 0 -> "scanDay"
      [] n = 5 /\ c.proxyEnabled /\ c.proxyHost = "" -> "proxyHost"
      [] n = 5 /\ c.proxyEnabled /\ c.proxyHost # ""
           /\ c.proxyPort \notin 0 .. MaxPort -> "proxyPort"
      [] n = 6 -> RefusedLimit(c)
      [] n = 7 /\ c.databasePath = "" -> "databasePath"
      [] n = 7 /\ c.databasePath # "" /\ c.scanLogFile = "" -> "scanLogFile"
      [] n = 8 /\ c.maxLogSizeMb \notin 1 .. MaxMb -> "maxLogSizeMb"
      [] OTHER -> "none"

(* The group at whose check Save stops, 0 if it accepts all.               *)
RefusedAt(c) ==
    LET bad == {n \in DOMAIN Groups : Refused(n, c) # "none"}
    IN  IF bad = {} THEN 0 ELSE CHOOSE n \in bad : \A m \in bad : n <= m

Limits == {"maxScanSizeMb", "maxFileSizeMb"}

(* The settings after Save has assigned the first n groups.                *)
saveToConfig(c, ctl, n) ==
    LET done == UNION {Groups[i] : i \in 1 .. n}
    IN  [f \in Fields |->
            IF f \notin done THEN c[f]
            ELSE IF f \in Limits THEN AtLeast0(ctl[f]) ELSE ctl[f]]

(* The schedule dialog checks nothing.                                     *)
saveSchedule(c, ctl) ==
    [f \in Fields |->
        IF f \notin ScheduleControls THEN c[f]
        ELSE IF f = "scanScheduled" THEN ctl[f] ELSE AtLeast0(ctl[f])]
=============================================================================
