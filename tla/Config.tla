------------------------------- MODULE Config -------------------------------
(***************************************************************************)
(* CWConfig (cw_config.cpp): which ClamWin.conf a start uses, what load()  *)
(* makes of it, what save() writes, and what freshclam.conf then says.     *)
(*                                                                         *)
(* A file is a function from the keys it holds to their values.  One       *)
(* setting of each treatment stands for those treated alike: scanArchives  *)
(* for the plain ones, maxScanSizeMb for the three limits of archives,     *)
(* scanLogFile for both logs.  A path is the folder it lies in.            *)
(***************************************************************************)
EXTENDS Integers, Sequences, FiniteSets, SequencesExt

CONSTANTS MaxMb,    \* the largest size the preferences accept
          MaxPort,  \* the largest port
          Masks,    \* filter patterns "*.tbb" and "*.pst"
          Names     \* other filter patterns

ASSUME ConfigAssumption ==
    /\ MaxMb \in Nat \ {0}
    /\ MaxPort \in Nat \ {0}
    /\ Masks \cap Names = {}

Places == {"install", "appdata", "user", "common"}
Folders == Places \cup {"own", ""}

(* A pattern and how many of its first characters are gone.                *)
Whole(t) == [text |-> t, lost |-> 0]
PatternSet == [text : Masks \cup Names, lost : 0 .. 4]

(* normalizeFilterPatterns(): ".tbb" and "bb" become "*.tbb" again.        *)
Normalized(ps) ==
    {IF p.text \in Masks /\ p.lost \in {1, 3} THEN Whole(p.text) ELSE p : p \in ps}

-----------------------------------------------------------------------------
(* The constructor's and load()'s defaults for a profile in place p.       *)
defaults(p) ==
    [databasePath |-> p, scanArchives |-> TRUE, scanMail |-> FALSE,
     infectedAction |-> 0, maxScanSizeMb |-> 1, maxFileSizeMb |-> 1,
     quarantinePath |-> p, scanLogFile |-> p, maxLogSizeMb |-> 1,
     priority |-> "n", dbMirror |-> "clamav", proxyEnabled |-> FALSE,
     proxyHost |-> "", proxyPort |-> 1, scanScheduled |-> FALSE,
     scanFrequency |-> 0, scanDay |-> 0, scanLastRunTime |-> 0,
     updateScheduled |-> TRUE, updateFrequency |-> 0,
     excludePatterns |-> {Whole(t) : t \in Masks}]

(* The order in which save() writes the keys.                              *)
SaveOrder ==
    <<"databasePath", "scanArchives", "scanMail", "infectedAction",
      "maxScanSizeMb", "maxFileSizeMb", "quarantinePath", "scanLogFile",
      "maxLogSizeMb", "priority", "dbMirror", "proxyEnabled", "proxyHost",
      "proxyPort", "scanScheduled", "scanFrequency", "scanDay",
      "scanLastRunTime", "updateScheduled", "updateFrequency",
      "excludePatterns">>

Fields == ToSet(SaveOrder)

(* Keys of other programs: the installer's, and those of the Python        *)
(* ClamWin that mean the same as one of today's.                           *)
SeedKeys == {"ClamScan"}
OldKeys == {"EnableMbox", "QuarantineDir"}

(* Keys that only a program that saved the user's settings has written.    *)
UserKeys ==
    {"scanArchives", "scanMail", "EnableMbox", "infectedAction",
     "maxScanSizeMb", "maxFileSizeMb", "priority", "excludePatterns",
     "dbMirror", "proxyEnabled", "proxyHost", "scanScheduled", "updateScheduled"}

(* What the program reads a key as: a folder, a switch, a number or text.  *)
ValuesOf(k) ==
    CASE k \in {"databasePath", "quarantinePath", "scanLogFile", "QuarantineDir"} ->
            Folders
      [] k \in {"scanArchives", "scanMail", "proxyEnabled", "scanScheduled",
                "updateScheduled", "EnableMbox"} -> BOOLEAN
      [] k \in {"maxScanSizeMb", "maxFileSizeMb", "maxLogSizeMb", "proxyPort"} -> Int
      [] k = "infectedAction" -> 0 .. 2
      [] k = "priority" -> {"l", "n"}
      [] k = "dbMirror" -> {"", "clamav", "other"}
      [] k = "proxyHost" -> {"", "host"}
      [] k = "scanFrequency" -> 0 .. 3
      [] k = "scanDay" -> -1 .. 6
      [] k = "scanLastRunTime" -> Nat
      [] k = "updateFrequency" -> -1 .. 3
      [] k = "excludePatterns" -> SUBSET PatternSet

IsSetting(c) ==
    /\ c = [k \in Fields |-> c[k]]
    /\ \A k \in Fields : c[k] \in ValuesOf(k)

Absent == [exists |-> FALSE, keys |-> <<>>]
File(keys) == [exists |-> TRUE, keys |-> keys]
Has(f, k) == f.exists /\ k \in DOMAIN f.keys
HasAny(f, ks) == \E k \in ks : Has(f, k)

(* Older programs spelled the priority out.                                *)
IsFile(f) ==
    /\ f.exists \in BOOLEAN
    /\ \A k \in Fields \cup OldKeys :
         Has(f, k) => \/ f.keys[k] \in ValuesOf(k)
                      \/ k = "priority" /\ f.keys[k] \in {"Low", "Normal"}

isStandaloneTemplate(files) == Has(files["install"], "Standalone")

(* With APPDATA unknown (Windows 98) root is "user", and without a user    *)
(* profile "install".                                                      *)
ProfileRoot(files, root) == IF isStandaloneTemplate(files) THEN "install" ELSE root

PreferredLegacy(files) ==
    IF files["user"].exists THEN "user"
    ELSE IF files["common"].exists THEN "common" ELSE "none"

(* A copy of the template, or what an older installer wrote; never a file  *)
(* with a user's settings.                                                 *)
isPristineBootstrapCopy(files, p) ==
    /\ files["install"].exists
    /\ p # "install"
    /\ \/ files[p] = files["install"]
       \/ HasAny(files[p], SeedKeys) /\ ~HasAny(files[p], UserKeys)

resolveDefaultIniPathForLoad(files, root) ==
    LET default == ProfileRoot(files, root)
        legacy == PreferredLegacy(files)
    IN  IF \/ isStandaloneTemplate(files)
           \/ legacy = "none"
           \/ files[default].exists /\ ~isPristineBootstrapCopy(files, default)
        THEN default
        ELSE legacy

(* A profile without settings receives a copy of the template.             *)
bootstrapLegacyProfile(files, p) ==
    IF files["install"].exists /\ ~isStandaloneTemplate(files) /\ ~files[p].exists
    THEN [files EXCEPT ![p] = files["install"]]
    ELSE files

-----------------------------------------------------------------------------
(* A folder as load() leaves it: that of the program becomes the           *)
(* profile's, and a log without a path goes there too.                     *)
Migrated(f, p) == IF f = "install" THEN p ELSE f
MigratedLog(f, p) == IF f = "" THEN p ELSE Migrated(f, p)

(* Each setting as a file in place p that holds the value v gives it.      *)
Settled(p, c) ==
    [c EXCEPT !.databasePath = Migrated(@, p),
              !.quarantinePath = Migrated(@, p),
              !.scanLogFile = MigratedLog(@, p),
              !.maxLogSizeMb = IF @ < 1 THEN 1 ELSE @,
              !.priority = CASE @ = "Low" -> "l" [] @ = "Normal" -> "n" [] OTHER -> @,
              !.excludePatterns = Normalized(@)]

(* Keys under the names of the Python program, and the proxy it had on     *)
(* whenever it had a host.                                                 *)
Fallback(f, k, c) ==
    CASE k = "scanMail" /\ Has(f, "EnableMbox") -> f.keys["EnableMbox"]
      [] k = "quarantinePath" /\ Has(f, "QuarantineDir") -> f.keys["QuarantineDir"]
      [] k = "proxyEnabled" -> Has(f, "proxyHost") /\ f.keys["proxyHost"] # ""
      [] OTHER -> c[k]

(* load() of the file f in place p.                                        *)
load(f, p) ==
    LET c == defaults(p)
        found == [k \in Fields |-> IF Has(f, k) THEN f.keys[k] ELSE Fallback(f, k, c)]
    IN  IF f.exists THEN Settled(p, found) ELSE c

(* Fault: one key is not written.                                          *)
WrittenWithoutMirror(c, k) ==
    IF k = "dbMirror" THEN "clamav" ELSE c[k]

(* What save() writes under key k.                                         *)
Written(c, k) ==
    IF k = "maxLogSizeMb" /\ c[k] < 1 THEN 1 ELSE c[k]

(* The file after save() has written the first n keys.                     *)
save(f, c, n) ==
    LET done == {SaveOrder[i] : i \in 1 .. n}
        old == IF f.exists THEN DOMAIN f.keys ELSE {}
    IN  File([k \in done \cup old |-> IF k \in done THEN Written(c, k) ELSE f.keys[k]])

(* What freshclam is told: mirror, database and proxy.                     *)
FreshclamConf(c) ==
    [mirror |-> IF c.dbMirror = "" THEN "clamav" ELSE c.dbMirror,
     database |-> c.databasePath,
     log |-> c.scanLogFile,
     proxy |-> IF c.proxyEnabled /\ c.proxyHost # ""
               THEN <<c.proxyHost, c.proxyPort>> ELSE <<>>]

NoConf == [mirror |-> "none", database |-> "", log |-> "", proxy |-> <<>>]
=============================================================================
