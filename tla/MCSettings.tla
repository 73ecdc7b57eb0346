----------------------------- MODULE MCSettings -----------------------------
(* Model-checking instances of Settings.                                   *)
EXTENDS Settings, TLC

Seeded == File("ClamScan" :> "exe" @@ "databasePath" :> "common")
Standalone == File("Standalone" :> "1")
Plain == File("databasePath" :> "install")
(* An older installer's file, a file of this program, a Python ClamWin's.  *)
OldSeed == File("ClamScan" :> "old" @@ "databasePath" :> "own")
Used == File("dbMirror" :> "other" @@ "scanFrequency" :> 2 @@ "updateFrequency" :> 3)
(* Edited by hand: a day and a limit that no dialog saves.                 *)
Edited == File("updateScheduled" :> FALSE @@ "updateFrequency" :> 1 @@ "scanDay" :> -1
               @@ "scanArchives" :> FALSE @@ "maxScanSizeMb" :> -1)
Python == File("EnableMbox" :> TRUE @@ "proxyHost" :> "host" @@ "priority" :> "Low"
               @@ "scanLogFile" :> "" @@ "maxLogSizeMb" :> 0
               @@ "QuarantineDir" :> "install")

Profile(r, t, a, u, c, n) ==
    [root |-> r, entries |-> n,
     files |-> [install |-> t, appdata |-> a, user |-> u, common |-> c]]

(* Every mixture of files with the program left alone, some with an entry, *)
(* one with two.                                                           *)
AllProfiles ==
    {Profile("appdata", t, a, u, c, 0) :
        t \in {Absent, Plain, Seeded}, a \in {Absent, Plain, OldSeed, Used},
        u \in {Absent, Python}, c \in {Absent, Used}}
    \cup {Profile("appdata", Standalone, Absent, u, Absent, 0) : u \in {Absent, Python}}
    \cup {Profile("user", Seeded, Absent, u, Absent, 0) : u \in {Absent, Python, OldSeed}}
    \cup {Profile("install", Absent, Absent, Absent, Absent, 0),
           Profile("appdata", Seeded, OldSeed, Python, Absent, 1),
           Profile("appdata", Standalone, Absent, Absent, Absent, 1),
           Profile("appdata", Plain, Absent, Absent, Used, 1),
           Profile("appdata", Absent, Edited, Absent, Absent, 1),
           Profile("appdata", Plain, Absent, Absent, Absent, 2)}

OneProfile == {Profile("appdata", Plain, Absent, Absent, Absent, 1)}

AllEdits ==
    {<<"infectedAction", 2>>, <<"quarantinePath", "">>, <<"quarantinePath", "own">>,
     <<"updateScheduled", FALSE>>, <<"dbMirror", "">>, <<"dbMirror", "other">>,
     <<"updateFrequency", 1>>, <<"scanDay", 6>>,
     <<"proxyEnabled", TRUE>>, <<"proxyHost", "">>, <<"proxyHost", "host">>,
     <<"proxyPort", MaxPort + 1>>, <<"scanArchives", FALSE>>,
     <<"maxScanSizeMb", 0>>, <<"maxScanSizeMb", MaxMb>>, <<"maxFileSizeMb", MaxMb + 1>>,
     <<"databasePath", "">>, <<"databasePath", "install">>, <<"scanLogFile", "">>,
     <<"maxLogSizeMb", -1>>, <<"priority", "l">>, <<"scanMail", TRUE>>,
     <<"scanScheduled", TRUE>>, <<"scanFrequency", 2>>}
    \cup {<<"excludePatterns", Whole(t)>> : t \in Masks \cup Names}

FilterEdits == {<<"excludePatterns", Whole("notes")>>}
LimitEdits == {<<"maxFileSizeMb", MaxMb + 1>>}
=============================================================================
