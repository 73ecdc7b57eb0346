--------------------------- MODULE SettingsProofs ---------------------------
(* Proofs about Settings: any files a start can find, any entries, any     *)
(* number of starts and scheduled runs, a save cut short after any key.    *)
(*                                                                         *)
(* First what load(), save() and the choice of the file return: a whole    *)
(* save is read back (LoadSaved), a cut one key by key at its old or new   *)
(* value (LoadCut), and neither a copy of the template nor a save moves    *)
(* the next start to another file (BootstrapKeepsPlace, SaveKeepsPlace).   *)
(* Then what the dialogs show, refuse and assign; then one lemma for each  *)
(* action, and the theorems.                                               *)
EXTENDS Settings, TLAPS

-----------------------------------------------------------------------------
LEMMA FieldsAre ==
    Fields =
    {"databasePath", "scanArchives", "scanMail", "infectedAction",
     "maxScanSizeMb", "maxFileSizeMb", "quarantinePath", "scanLogFile",
     "maxLogSizeMb", "priority", "dbMirror", "proxyEnabled", "proxyHost",
     "proxyPort", "scanScheduled", "scanFrequency", "scanDay",
     "scanLastRunTime", "updateScheduled", "updateFrequency",
     "excludePatterns"}
<1>1. DOMAIN SaveOrder = 1 .. 21
  BY DEF SaveOrder
<1>2. Fields = {SaveOrder[i] : i \in 1 .. 21}
  BY <1>1 DEF Fields, ToSet
<1> QED
  BY <1>2 DEF SaveOrder

LEMMA ControlsAre ==
    Controls =
    {"scanMail", "infectedAction", "quarantinePath", "excludePatterns",
     "updateScheduled", "dbMirror", "updateFrequency", "scanDay",
     "proxyEnabled", "proxyHost", "proxyPort", "scanArchives",
     "maxScanSizeMb", "maxFileSizeMb", "databasePath", "scanLogFile",
     "maxLogSizeMb", "priority"}
<1>1. Pages = {"General", "Filters", "Updates", "Proxy", "Limits", "Files", "Advanced"}
  BY DEF Pages, Page
<1>2. Controls = Page["General"] \cup Page["Filters"] \cup Page["Updates"]
                 \cup Page["Proxy"] \cup Page["Limits"] \cup Page["Files"]
                 \cup Page["Advanced"]
  BY <1>1 DEF Controls
<1> QED
  BY <1>2 DEF Page, GeneralPage, FiltersPage, UpdatesPage, ProxyPage,
              LimitsPage, FilesPage, AdvancedPage

LEMMA PageShows ==
    ASSUME NEW f \in Controls
    PROVE  PageOf(f) \in Pages /\ f \in Page[PageOf(f)]
<1>1. \E p \in Pages : f \in Page[p]
  BY DEF Controls
<1> QED
  BY <1>1 DEF PageOf

-----------------------------------------------------------------------------
(* A pattern that load() has put right stays as it is.                     *)
LEMMA NormalizedTyped ==
    ASSUME NEW ps, ps \subseteq PatternSet
    PROVE  /\ Normalized(ps) \subseteq PatternSet
           /\ Normalized(Normalized(ps)) = Normalized(ps)
<1> DEFINE N(p) == IF p.text \in Masks /\ p.lost \in {1, 3} THEN Whole(p.text) ELSE p
<1>1. \A p \in PatternSet : N(p) \in PatternSet
  BY DEF PatternSet, Whole
<1>2. \A p \in PatternSet : N(N(p)) = N(p)
  BY DEF PatternSet, Whole
<1>3. Normalized(ps) = {N(p) : p \in ps}
  BY DEF Normalized
<1>4. Normalized(Normalized(ps)) = {N(p) : p \in Normalized(ps)}
  BY DEF Normalized
<1> HIDE DEF N
<1> QED
  BY <1>1, <1>2, <1>3, <1>4

(* Settings as load() settles them in place p, one by one.                 *)
SettledAt(p, k, v) ==
    CASE k \in {"databasePath", "quarantinePath"} -> Migrated(v, p)
      [] k = "scanLogFile" -> MigratedLog(v, p)
      [] k = "maxLogSizeMb" -> IF v < 1 THEN 1 ELSE v
      [] k = "priority" -> CASE v = "Low" -> "l" [] v = "Normal" -> "n" [] OTHER -> v
      [] k = "excludePatterns" -> Normalized(v)
      [] OTHER -> v

LEMMA SettledByField ==
    ASSUME NEW p, NEW c, c = [k \in Fields |-> c[k]]
    PROVE  Settled(p, c) = [k \in Fields |-> SettledAt(p, k, c[k])]
<1> DEFINE s == Settled(p, c)
<1>1. s = [k \in Fields |-> s[k]]
  BY FieldsAre DEF Settled
<1>2. \A k \in Fields : s[k] = SettledAt(p, k, c[k])
  BY FieldsAre DEF Settled, SettledAt
<1> HIDE DEF s
<1>3. s = [k \in Fields |-> SettledAt(p, k, c[k])]
  BY <1>1, <1>2
<1> QED
  BY <1>3 DEF s
(* What a key may hold in a file.                                          *)
Held(k, v) == v \in ValuesOf(k) \/ (k = "priority" /\ v \in {"Low", "Normal"})

LEMMA SettledAtTyped ==
    ASSUME NEW p \in Places, NEW k \in Fields, NEW v, Held(k, v)
    PROVE  /\ SettledAt(p, k, v) \in ValuesOf(k)
           /\ SettledAt(p, k, SettledAt(p, k, v)) = SettledAt(p, k, v)
<1>1. CASE k \in {"databasePath", "quarantinePath", "scanLogFile"}
  BY <1>1 DEF SettledAt, ValuesOf, Held, Migrated, MigratedLog, Places, Folders
<1>2. CASE k = "maxLogSizeMb"
  BY <1>2 DEF SettledAt, ValuesOf, Held
<1>3. CASE k = "priority"
  BY <1>3 DEF SettledAt, ValuesOf, Held
<1>4. CASE k = "excludePatterns"
  <2>1. v \subseteq PatternSet
    BY <1>4 DEF ValuesOf, Held
  <2>2. SettledAt(p, k, v) = Normalized(v)
    BY <1>4 DEF SettledAt
  <2>3. SettledAt(p, k, Normalized(v)) = Normalized(Normalized(v))
    BY <1>4 DEF SettledAt
  <2>4. ValuesOf(k) = SUBSET PatternSet
    BY <1>4 DEF ValuesOf
  <2> QED
    BY <2>1, <2>2, <2>3, <2>4, NormalizedTyped
<1>5. CASE k \notin {"databasePath", "quarantinePath", "scanLogFile",
                     "maxLogSizeMb", "priority", "excludePatterns"}
  BY <1>5 DEF SettledAt, Held
<1> QED
  BY <1>1, <1>2, <1>3, <1>4, <1>5

LEMMA SettledTyped ==
    ASSUME NEW p \in Places, NEW c, IsSetting(c)
    PROVE  /\ IsSetting(Settled(p, c))
           /\ Settled(p, Settled(p, c)) = Settled(p, c)
<1>1. /\ c = [k \in Fields |-> c[k]]
      /\ \A k \in Fields : Held(k, c[k])
  BY DEF IsSetting, Held
<1> DEFINE s == Settled(p, c)
<1>2. s = [k \in Fields |-> SettledAt(p, k, c[k])]
  BY <1>1, SettledByField
<1> HIDE DEF s
<1>3. \A k \in Fields : s[k] = SettledAt(p, k, c[k])
  BY <1>2
<1>4. s = [k \in Fields |-> s[k]]
  BY <1>2
<1>5. Settled(p, s) = [k \in Fields |-> SettledAt(p, k, s[k])]
  BY <1>4, SettledByField
<1>6. \A k \in Fields : /\ s[k] \in ValuesOf(k)
                        /\ SettledAt(p, k, s[k]) = s[k]
  BY <1>1, <1>3, SettledAtTyped
<1>7. Settled(p, s) = s
  BY <1>4, <1>5, <1>6
<1> QED
  BY <1>4, <1>6, <1>7 DEF s, IsSetting

-----------------------------------------------------------------------------
(* The defaults are settings, and settling leaves them alone.              *)
LEMMA DefaultsTyped ==
    ASSUME NEW p \in Places
    PROVE  IsSetting(defaults(p)) /\ Settled(p, defaults(p)) = defaults(p)
<1> DEFINE d == defaults(p)
           masks == {Whole(t) : t \in Masks}
<1>1. d = [k \in Fields |-> d[k]]
  BY FieldsAre DEF defaults
<1>2. masks \subseteq PatternSet
  BY DEF Whole, PatternSet
<1>3. Normalized(masks) = masks
  BY DEF Whole, Normalized
<1>4. d["excludePatterns"] = masks
  BY DEF defaults
<1>8. /\ d["databasePath"] = p /\ d["quarantinePath"] = p /\ d["scanLogFile"] = p
      /\ d["maxScanSizeMb"] = 1 /\ d["maxFileSizeMb"] = 1 /\ d["maxLogSizeMb"] = 1
      /\ d["proxyPort"] = 1 /\ d["infectedAction"] = 0 /\ d["scanFrequency"] = 0
      /\ d["scanDay"] = 0 /\ d["scanLastRunTime"] = 0 /\ d["updateFrequency"] = 0
      /\ d["priority"] = "n" /\ d["dbMirror"] = "clamav" /\ d["proxyHost"] = ""
  BY DEF defaults
<1>9. /\ d["scanArchives"] = TRUE /\ d["scanMail"] = FALSE
      /\ d["proxyEnabled"] = FALSE /\ d["scanScheduled"] = FALSE
      /\ d["updateScheduled"] = TRUE
  BY DEF defaults
<1> HIDE DEF masks, d
<1>5. \A k \in Fields : d[k] \in ValuesOf(k)
  <2> SUFFICES ASSUME NEW k \in Fields
               PROVE  d[k] \in ValuesOf(k)
    OBVIOUS
  <2>1. CASE k = "excludePatterns"
    BY <2>1, <1>2, <1>4 DEF ValuesOf
  <2>2. CASE k \in {"databasePath", "quarantinePath", "scanLogFile"}
    BY <1>8, <2>2 DEF ValuesOf, Folders
  <2>3. CASE k \in {"maxScanSizeMb", "maxFileSizeMb", "maxLogSizeMb", "proxyPort",
                    "infectedAction", "scanFrequency", "scanDay",
                    "scanLastRunTime", "updateFrequency"}
    <3>1. d[k] \in {0, 1}
      BY <1>8, <2>3
    <3>2. CASE k \in {"maxScanSizeMb", "maxFileSizeMb", "maxLogSizeMb", "proxyPort"}
      <4>1. ValuesOf(k) = Int
        BY <3>2 DEF ValuesOf
      <4> QED
        BY <3>1, <4>1
    <3>3. CASE k = "infectedAction"
      BY <3>1, <3>3 DEF ValuesOf
    <3>4. CASE k = "scanFrequency"
      BY <3>1, <3>4 DEF ValuesOf
    <3>5. CASE k = "scanDay"
      BY <3>1, <3>5 DEF ValuesOf
    <3>6. CASE k = "scanLastRunTime"
      BY <3>1, <3>6 DEF ValuesOf
    <3>7. CASE k = "updateFrequency"
      BY <3>1, <3>7 DEF ValuesOf
    <3> QED
      BY <2>3, <3>2, <3>3, <3>4, <3>5, <3>6, <3>7
  <2>4. CASE k \in {"scanArchives", "scanMail", "proxyEnabled", "scanScheduled",
                    "updateScheduled"}
    <3>1. d[k] \in BOOLEAN
      BY <1>9, <2>4
    <3>2. ValuesOf(k) = BOOLEAN
      BY <2>4 DEF ValuesOf
    <3> QED
      BY <3>1, <3>2
  <2>5. CASE k \in {"priority", "dbMirror", "proxyHost"}
    BY <1>8, <2>5 DEF ValuesOf
  <2> QED
    BY <2>1, <2>2, <2>3, <2>4, <2>5, FieldsAre
<1>6. \A k \in Fields : SettledAt(p, k, d[k]) = d[k]
  <2> SUFFICES ASSUME NEW k \in Fields
               PROVE  SettledAt(p, k, d[k]) = d[k]
    OBVIOUS
  <2>1. CASE k = "excludePatterns"
    BY <2>1, <1>3, <1>4 DEF SettledAt
  <2>2. CASE k \in {"databasePath", "quarantinePath", "scanLogFile"}
    BY <1>8, <2>2 DEF SettledAt, Migrated, MigratedLog, Places
  <2>3. CASE k \in {"maxLogSizeMb", "priority"}
    BY <1>8, <2>3 DEF SettledAt
  <2>4. CASE k \notin {"databasePath", "quarantinePath", "scanLogFile",
                       "maxLogSizeMb", "priority", "excludePatterns"}
    BY <2>4 DEF SettledAt
  <2> QED
    BY <2>1, <2>2, <2>3, <2>4
<1>7. Settled(p, d) = d
  BY <1>1, <1>6, SettledByField
<1> QED
  BY <1>1, <1>5, <1>7 DEF d, IsSetting

(* What load() finds under a key, before it settles it.                    *)
Found(f, p, k) == IF Has(f, k) THEN f.keys[k] ELSE Fallback(f, k, defaults(p))

LEMMA LoadByField ==
    ASSUME NEW f, f.exists, NEW p
    PROVE  load(f, p) = [k \in Fields |-> SettledAt(p, k, Found(f, p, k))]
<1> DEFINE found == [k \in Fields |-> Found(f, p, k)]
<1>1. load(f, p) = Settled(p, found)
  BY DEF load, Found
<1>2. found = [k \in Fields |-> found[k]]
  OBVIOUS
<1>3. \A k \in Fields : found[k] = Found(f, p, k)
  OBVIOUS
<1> HIDE DEF found
<1>4. Settled(p, found) = [k \in Fields |-> SettledAt(p, k, found[k])]
  BY <1>2, SettledByField
<1> QED
  BY <1>1, <1>3, <1>4

LEMMA FoundTyped ==
    ASSUME NEW f, IsFile(f), NEW p \in Places, NEW k \in Fields
    PROVE  Held(k, Found(f, p, k))
<1>1. \A j \in Fields \cup OldKeys : Has(f, j) => Held(j, f.keys[j])
  BY DEF IsFile, Held
<1>2. CASE Has(f, k)
  BY <1>1, <1>2 DEF Found
<1>3. CASE ~Has(f, k)
  <2>1. Found(f, p, k) = Fallback(f, k, defaults(p))
    BY <1>3 DEF Found
  <2>2. defaults(p)[k] \in ValuesOf(k)
    BY DefaultsTyped DEF IsSetting
  <2>3. ValuesOf("EnableMbox") = BOOLEAN /\ ValuesOf("scanMail") = BOOLEAN
        /\ ValuesOf("QuarantineDir") = Folders /\ ValuesOf("quarantinePath") = Folders
        /\ ValuesOf("proxyEnabled") = BOOLEAN
    BY DEF ValuesOf
  <2>4. CASE k = "scanMail" /\ Has(f, "EnableMbox")
    <3>1. Fallback(f, k, defaults(p)) = f.keys["EnableMbox"]
      BY <2>4 DEF Fallback
    <3>2. Held("EnableMbox", f.keys["EnableMbox"])
      BY <1>1, <2>4 DEF OldKeys
    <3> QED
      BY <2>1, <2>3, <2>4, <3>1, <3>2 DEF Held
  <2>5. CASE k = "quarantinePath" /\ Has(f, "QuarantineDir")
    <3>1. Fallback(f, k, defaults(p)) = f.keys["QuarantineDir"]
      BY <2>5 DEF Fallback
    <3>2. Held("QuarantineDir", f.keys["QuarantineDir"])
      BY <1>1, <2>5 DEF OldKeys
    <3> QED
      BY <2>1, <2>3, <2>5, <3>1, <3>2 DEF Held
  <2>6. CASE k = "proxyEnabled"
    <3>1. Fallback(f, k, defaults(p)) = (Has(f, "proxyHost") /\ f.keys["proxyHost"] # "")
      BY <2>6 DEF Fallback
    <3>2. Fallback(f, k, defaults(p)) \in BOOLEAN
      BY <3>1
    <3> QED
      BY <2>1, <2>3, <2>6, <3>2 DEF Held
  <2>7. CASE /\ ~(k = "scanMail" /\ Has(f, "EnableMbox"))
             /\ ~(k = "quarantinePath" /\ Has(f, "QuarantineDir"))
             /\ k # "proxyEnabled"
    <3>1. Fallback(f, k, defaults(p)) = defaults(p)[k]
      BY <2>7 DEF Fallback
    <3> QED
      BY <2>1, <2>2, <3>1 DEF Held
  <2> QED
    BY <2>4, <2>5, <2>6, <2>7
<1> QED
  BY <1>2, <1>3

(* What load() makes of a file in place p are settings, settled in p.      *)
LEMMA LoadTyped ==
    ASSUME NEW f, IsFile(f), NEW p \in Places
    PROVE  IsSetting(load(f, p)) /\ Settled(p, load(f, p)) = load(f, p)
<1>1. CASE f.exists
  <2> DEFINE s == load(f, p)
  <2>1. s = [k \in Fields |-> SettledAt(p, k, Found(f, p, k))]
    BY <1>1, LoadByField
  <2> HIDE DEF s
  <2>2. s = [k \in Fields |-> s[k]]
    BY <2>1
  <2>3. \A k \in Fields : s[k] \in ValuesOf(k) /\ SettledAt(p, k, s[k]) = s[k]
    BY <2>1, FoundTyped, SettledAtTyped
  <2>4. Settled(p, s) = s
    BY <2>2, <2>3, SettledByField
  <2> QED
    BY <2>2, <2>3, <2>4 DEF s, IsSetting
<1>2. CASE ~f.exists
  <2>1. load(f, p) = defaults(p)
    BY <1>2 DEF load
  <2> QED
    BY <2>1, DefaultsTyped
<1> QED
  BY <1>1, <1>2

-----------------------------------------------------------------------------
(* The keys save() has written when it is cut short after n.               *)
Done(n) == {SaveOrder[i] : i \in 1 .. n}

(* The proxy's host is written after the switch that says it is used.      *)
LEMMA DoneKeys ==
    ASSUME NEW n \in 1 .. Len(SaveOrder)
    PROVE  /\ Done(n) \subseteq Fields
           /\ Done(Len(SaveOrder)) = Fields
           /\ "proxyHost" \in Done(n) => "proxyEnabled" \in Done(n)
<1>1. Len(SaveOrder) = 21 /\ DOMAIN SaveOrder = 1 .. 21
  BY DEF SaveOrder
<1>2. Fields = {SaveOrder[i] : i \in 1 .. 21}
  BY <1>1 DEF Fields, ToSet
<1>3. ASSUME "proxyHost" \in Done(n)
      PROVE  "proxyEnabled" \in Done(n)
  <2>1. PICK i \in 1 .. n : SaveOrder[i] = "proxyHost"
    BY <1>3 DEF Done
  <2>2. i = 13
    BY <1>1, <2>1 DEF SaveOrder
  <2>3. 12 \in 1 .. n /\ SaveOrder[12] = "proxyEnabled"
    BY <1>1, <2>1, <2>2 DEF SaveOrder
  <2> QED
    BY <2>3 DEF Done
<1>4. Done(n) \subseteq Fields
  BY <1>1, <1>2 DEF Done
<1> QED
  BY <1>1, <1>2, <1>3, <1>4 DEF Done

LEMMA WrittenKept ==
    ASSUME NEW c, IsSetting(c), NEW k \in Fields, NEW p
    PROVE  /\ Held(k, Written(c, k))
           /\ SettledAt(p, k, Written(c, k)) = SettledAt(p, k, c[k])
<1>1. c[k] \in ValuesOf(k)
  BY DEF IsSetting
<1>2. CASE k = "maxLogSizeMb"
  BY <1>1, <1>2 DEF Written, Held, ValuesOf, SettledAt
<1>3. CASE k # "maxLogSizeMb"
  BY <1>1, <1>3 DEF Written, Held
<1> QED
  BY <1>2, <1>3

(* A save replaces the keys it reaches and leaves the others.              *)
HasReplaced(g, f, c, n) ==
    /\ g.exists = TRUE
    /\ \A k : Has(g, k) <=> k \in Done(n) \/ Has(f, k)
    /\ \A k \in Done(n) : g.keys[k] = Written(c, k)
    /\ \A k : k \notin Done(n) /\ Has(f, k) => g.keys[k] = f.keys[k]

LEMMA SavedKeys ==
    ASSUME NEW f, NEW c, NEW n
    PROVE  HasReplaced(save(f, c, n), f, c, n)
<1> DEFINE old == IF f.exists THEN DOMAIN f.keys ELSE {}
           keys == [k \in Done(n) \cup old |->
                       IF k \in Done(n) THEN Written(c, k) ELSE f.keys[k]]
<1>1. save(f, c, n) = [exists |-> TRUE, keys |-> keys]
  BY DEF save, File, Done
<1>2. \A k : Has(f, k) <=> k \in old
  BY DEF Has
<1> HIDE DEF old
<1>3. /\ DOMAIN keys = Done(n) \cup old
      /\ \A k \in Done(n) : keys[k] = Written(c, k)
      /\ \A k \in old : k \notin Done(n) => keys[k] = f.keys[k]
  OBVIOUS
<1> HIDE DEF keys
<1> QED
  BY <1>1, <1>2, <1>3 DEF Has, HasReplaced

LEMMA SavedTyped ==
    ASSUME NEW f, IsFile(f), NEW c, IsSetting(c), NEW n \in 1 .. Len(SaveOrder)
    PROVE  IsFile(save(f, c, n))
<1> DEFINE g == save(f, c, n)
<1>1. /\ g.exists = TRUE
      /\ \A k : Has(g, k) <=> k \in Done(n) \/ Has(f, k)
      /\ \A k \in Done(n) : g.keys[k] = Written(c, k)
      /\ \A k : k \notin Done(n) /\ Has(f, k) => g.keys[k] = f.keys[k]
  <2>1. HasReplaced(g, f, c, n)
    BY SavedKeys
  <2> HIDE DEF g
  <2> QED
    BY <2>1 DEF HasReplaced
<1> HIDE DEF g
<1>2. \A k \in Fields \cup OldKeys : Has(f, k) => Held(k, f.keys[k])
  BY DEF IsFile, Held
<1>3. \A k \in Done(n) : Held(k, Written(c, k))
  BY DoneKeys, WrittenKept
<1>4. \A k \in Fields \cup OldKeys : Has(g, k) => Held(k, g.keys[k])
  BY <1>1, <1>2, <1>3
<1> QED
  BY <1>1, <1>4 DEF IsFile, Held, g

(* load() gives back what save() was given, settled.                       *)
LEMMA LoadSaved ==
    ASSUME NEW f, IsFile(f), NEW c, IsSetting(c), NEW p \in Places
    PROVE  load(save(f, c, Len(SaveOrder)), p) = Settled(p, c)
<1> DEFINE g == save(f, c, Len(SaveOrder))
<1>1. Len(SaveOrder) \in 1 .. Len(SaveOrder)
  BY DEF SaveOrder
<1>2. Done(Len(SaveOrder)) = Fields
  BY <1>1, DoneKeys
<1>3. /\ g.exists = TRUE
      /\ \A k \in Fields : Has(g, k) /\ g.keys[k] = Written(c, k)
  <2>1. HasReplaced(g, f, c, Len(SaveOrder))
    BY SavedKeys
  <2> HIDE DEF g
  <2> QED
    BY <1>2, <2>1 DEF HasReplaced
<1> HIDE DEF g
<1>4. load(g, p) = [k \in Fields |-> SettledAt(p, k, Found(g, p, k))]
  BY <1>3, LoadByField
<1>5. \A k \in Fields : SettledAt(p, k, Found(g, p, k)) = SettledAt(p, k, c[k])
  BY <1>3, WrittenKept DEF Found
<1>6. load(g, p) = [k \in Fields |-> SettledAt(p, k, c[k])]
  BY <1>4, <1>5
<1>7. Settled(p, c) = [k \in Fields |-> SettledAt(p, k, c[k])]
  BY SettledByField DEF IsSetting
<1> QED
  BY <1>6, <1>7 DEF g

(* A save cut short leaves each setting at its old or its new value, the   *)
(* proxy's switch, which a host may turn on, included.                     *)
LEMMA LoadCut ==
    ASSUME NEW f, IsFile(f), NEW c, IsSetting(c), NEW p \in Places,
           NEW n \in 1 .. Len(SaveOrder), NEW k \in Fields
    PROVE  load(save(f, c, n), p)[k] \in {load(f, p)[k], Settled(p, c)[k]}
<1> DEFINE g == save(f, c, n)
<1>1. /\ g.exists = TRUE
      /\ \A j : Has(g, j) <=> j \in Done(n) \/ Has(f, j)
      /\ \A j \in Done(n) : g.keys[j] = Written(c, j)
      /\ \A j : j \notin Done(n) /\ Has(f, j) => g.keys[j] = f.keys[j]
  <2>1. HasReplaced(g, f, c, n)
    BY SavedKeys
  <2> HIDE DEF g
  <2> QED
    BY <2>1 DEF HasReplaced
<1> HIDE DEF g
<1>2. load(g, p) = [j \in Fields |-> SettledAt(p, j, Found(g, p, j))]
  BY <1>1, LoadByField
<1>3. load(g, p)[k] = SettledAt(p, k, Found(g, p, k))
  BY <1>2
<1>4. CASE k \in Done(n)
  <2>1. Found(g, p, k) = Written(c, k)
    BY <1>1, <1>4 DEF Found
  <2>2. Settled(p, c) = [j \in Fields |-> SettledAt(p, j, c[j])]
    BY SettledByField DEF IsSetting
  <2>3. Settled(p, c)[k] = SettledAt(p, k, c[k])
    BY <2>2
  <2> QED
    BY <1>3, <2>1, <2>3, WrittenKept DEF g
<1>5. CASE k \notin Done(n)
  <2>1. Found(g, p, k) = Found(f, p, k)
    <3>1. CASE Has(f, k)
      BY <1>1, <1>5, <3>1 DEF Found
    <3>2. CASE ~Has(f, k)
      <4>1. Found(g, p, k) = Fallback(g, k, defaults(p))
            /\ Found(f, p, k) = Fallback(f, k, defaults(p))
        BY <1>1, <1>5, <3>2 DEF Found
      <4>2. \A j \in OldKeys : j \notin Done(n)
        BY DoneKeys, FieldsAre DEF OldKeys
      <4>3. \A j \in OldKeys : Has(g, j) <=> Has(f, j)
        BY <1>1, <4>2
      <4>4. \A j \in OldKeys : Has(f, j) => g.keys[j] = f.keys[j]
        BY <1>1, <4>2
      <4>5. k = "proxyEnabled" => "proxyHost" \notin Done(n)
        BY <1>5, DoneKeys
      <4>6. k = "proxyEnabled" =>
              /\ Has(g, "proxyHost") <=> Has(f, "proxyHost")
              /\ Has(f, "proxyHost") => g.keys["proxyHost"] = f.keys["proxyHost"]
        BY <1>1, <4>5
      <4>7. Fallback(g, k, defaults(p)) = Fallback(f, k, defaults(p))
        <5>1. CASE k = "scanMail"
          BY <4>3, <4>4, <5>1 DEF Fallback, OldKeys
        <5>2. CASE k = "quarantinePath"
          BY <4>3, <4>4, <5>2 DEF Fallback, OldKeys
        <5>3. CASE k = "proxyEnabled"
          <6>1. (Has(g, "proxyHost") /\ g.keys["proxyHost"] # "") =
                (Has(f, "proxyHost") /\ f.keys["proxyHost"] # "")
            BY <4>6, <5>3
          <6> QED
            BY <5>3, <6>1 DEF Fallback
        <5>4. CASE k \notin {"scanMail", "quarantinePath", "proxyEnabled"}
          BY <5>4 DEF Fallback
        <5> QED
          BY <5>1, <5>2, <5>3, <5>4
      <4> QED
        BY <4>1, <4>7
    <3> QED
      BY <3>1, <3>2
  <2>2. CASE f.exists
    <3>1. load(f, p) = [j \in Fields |-> SettledAt(p, j, Found(f, p, j))]
      BY <2>2, LoadByField
    <3>2. load(f, p)[k] = SettledAt(p, k, Found(f, p, k))
      BY <3>1
    <3> QED
      BY <1>3, <2>1, <3>2 DEF g
  <2>3. CASE ~f.exists
    <3>1. load(f, p) = defaults(p)
      BY <2>3 DEF load
    <3>2. Found(f, p, k) = defaults(p)[k]
      <4>1. \A j : ~Has(f, j)
        BY <2>3 DEF Has
      <4>2. Found(f, p, k) = Fallback(f, k, defaults(p))
        BY <4>1 DEF Found
      <4>3. defaults(p)["proxyEnabled"] = FALSE
        BY DEF defaults
      <4>4. CASE k = "proxyEnabled"
        <5>1. Fallback(f, k, defaults(p)) = FALSE
          BY <4>1, <4>4 DEF Fallback
        <5> QED
          BY <4>2, <4>3, <4>4, <5>1
      <4>5. CASE k # "proxyEnabled"
        BY <4>1, <4>2, <4>5 DEF Fallback
      <4> QED
        BY <4>4, <4>5
    <3>3. Settled(p, defaults(p)) = defaults(p) /\ IsSetting(defaults(p))
      BY DefaultsTyped
    <3>4. Settled(p, defaults(p)) =
            [j \in Fields |-> SettledAt(p, j, defaults(p)[j])]
      BY <3>3, SettledByField DEF IsSetting
    <3>5. SettledAt(p, k, defaults(p)[k]) = defaults(p)[k]
      BY <3>3, <3>4
    <3> QED
      BY <1>3, <2>1, <3>1, <3>2, <3>5 DEF g
  <2> QED
    BY <2>2, <2>3
<1> QED
  BY <1>4, <1>5

-----------------------------------------------------------------------------
(* Which file a start uses.                                                *)
LEMMA PlaceIsOne ==
    ASSUME NEW d, NEW r, IsDisk(d, r)
    PROVE  LET p == resolveDefaultIniPathForLoad(d, r)
           IN  /\ p \in Places
               /\ isStandaloneTemplate(d) => p = "install"
               /\ p \in {"install", r, PreferredLegacy(d)}
BY DEF IsDisk, resolveDefaultIniPathForLoad, ProfileRoot, PreferredLegacy, Places

(* A start with these files uses place p, and has nothing to copy to it.   *)
UsedIn(d, r, p) ==
    /\ IsDisk(d, r)
    /\ resolveDefaultIniPathForLoad(d, r) = p
    /\ bootstrapLegacyProfile(d, p) = d

(* A start that copies the template finds the same place, and the copy, at *)
(* the next start.                                                         *)
LEMMA BootstrapKeepsPlace ==
    ASSUME NEW d, NEW r, IsDisk(d, r),
           NEW p, p = resolveDefaultIniPathForLoad(d, r),
           NEW g, g = bootstrapLegacyProfile(d, p)
    PROVE  UsedIn(g, r, p)
<1> USE DEF UsedIn
<1>1. CASE g = d
  BY <1>1
<1>2. CASE g # d
  <2>1. /\ d["install"].exists /\ ~isStandaloneTemplate(d) /\ ~d[p].exists
        /\ g = [d EXCEPT ![p] = d["install"]]
    BY <1>2 DEF bootstrapLegacyProfile
  <2>2. p \in Places
    BY PlaceIsOne
  <2>3. d = [q \in Places |-> d[q]] /\ r \in {"install", "appdata", "user"}
    BY DEF IsDisk
  <2>4. p = r /\ r # "install" /\ PreferredLegacy(d) = "none"
    BY <2>1, <2>3 DEF resolveDefaultIniPathForLoad, ProfileRoot, PreferredLegacy
  <2>5. /\ g = [q \in Places |-> g[q]]
        /\ g[p] = d["install"]
        /\ \A q \in Places : q # p => g[q] = d[q]
    BY <2>1, <2>2, <2>3
  <2>6. g["install"] = d["install"]
    BY <2>4, <2>5 DEF Places
  <2>7. ~isStandaloneTemplate(g)
    BY <2>1, <2>6 DEF isStandaloneTemplate
  <2>8. PreferredLegacy(g) \in {"none", r}
    BY <2>3, <2>4, <2>5 DEF PreferredLegacy, Places
  <2>9. IsDisk(g, r)
    <3>1. \A q \in Places : IsFile(g[q])
      BY <2>5, <2>6 DEF IsDisk, Places
    <3>2. InstallersTemplate(g, r)
      BY <2>1, <2>4, <2>6 DEF IsDisk, InstallersTemplate
    <3>3. Recognizable(g, r)
      BY <2>8 DEF Recognizable
    <3> QED
      BY <2>3, <2>5, <3>1, <3>2, <3>3 DEF IsDisk
  <2>10. resolveDefaultIniPathForLoad(g, r) = p
    BY <2>4, <2>7, <2>8 DEF resolveDefaultIniPathForLoad, ProfileRoot
  <2>11. bootstrapLegacyProfile(g, p) = g
    BY <2>1, <2>5 DEF bootstrapLegacyProfile
  <2> QED
    BY <2>9, <2>10, <2>11
<1> QED
  BY <1>1, <1>2

(* A save, whole or cut short, leaves the next start at the file saved.    *)
LEMMA SaveKeepsPlace ==
    ASSUME NEW d, NEW r, IsDisk(d, r),
           NEW p, p = resolveDefaultIniPathForLoad(d, r),
           NEW c, IsSetting(c), NEW n \in 1 .. Len(SaveOrder),
           NEW g, g = [d EXCEPT ![p] = save(@, c, n)]
    PROVE  UsedIn(g, r, p)
<1> USE DEF UsedIn
<1>1. /\ d = [q \in Places |-> d[q]]
      /\ r \in {"install", "appdata", "user"}
      /\ \A q \in Places : IsFile(d[q])
      /\ InstallersTemplate(d, r)
      /\ Recognizable(d, r)
  BY DEF IsDisk
<1>2. p \in Places
  BY PlaceIsOne
<1>3. /\ g = [q \in Places |-> g[q]]
      /\ g[p] = save(d[p], c, n)
      /\ \A q \in Places : q # p => g[q] = d[q]
  BY <1>1, <1>2
<1>4. HasReplaced(g[p], d[p], c, n)
  BY <1>3, SavedKeys
<1>5. g[p].exists
  BY <1>4 DEF HasReplaced
<1>6. \A k : k \notin Fields => (Has(g[p], k) <=> Has(d[p], k))
  BY <1>4, DoneKeys DEF HasReplaced
<1>7. \A k : Has(d[p], k) => Has(g[p], k)
  BY <1>4 DEF HasReplaced
<1>8. \A q \in Places : IsFile(g[q])
  <2>1. IsFile(g[p])
    BY <1>1, <1>2, <1>3, SavedTyped
  <2> QED
    BY <1>1, <1>3, <2>1
<1>9. "Standalone" \notin Fields /\ "ClamScan" \notin Fields
  BY FieldsAre
<1>10. isStandaloneTemplate(g) <=> isStandaloneTemplate(d)
  <2>1. CASE p = "install"
    BY <1>6, <1>9, <2>1 DEF isStandaloneTemplate
  <2>2. CASE p # "install"
    BY <1>3, <2>2 DEF isStandaloneTemplate, Places
  <2> QED
    BY <2>1, <2>2
<1>11. bootstrapLegacyProfile(g, p) = g
  BY <1>5 DEF bootstrapLegacyProfile
<1>12. CASE isStandaloneTemplate(d)
  <2>1. resolveDefaultIniPathForLoad(g, r) = p
    BY <1>10, <1>12 DEF resolveDefaultIniPathForLoad, ProfileRoot
  <2>2. InstallersTemplate(g, r) /\ Recognizable(g, r)
    BY <1>10, <1>12 DEF InstallersTemplate, Recognizable
  <2> QED
    BY <1>1, <1>3, <1>8, <1>11, <2>1, <2>2 DEF IsDisk
<1>13. CASE ~isStandaloneTemplate(d) /\ p # r
  <2>1. /\ p = PreferredLegacy(d) /\ p # "install"
        /\ ~d[r].exists \/ isPristineBootstrapCopy(d, r)
    BY <1>2, <1>13 DEF resolveDefaultIniPathForLoad, ProfileRoot, PreferredLegacy, Places
  <2>2. g["install"] = d["install"] /\ g[r] = d[r]
    BY <1>1, <1>3, <1>13, <2>1 DEF Places
  <2>3. PreferredLegacy(g) = p
    BY <1>3, <1>5, <2>1 DEF PreferredLegacy, Places
  <2>4. isPristineBootstrapCopy(g, r) <=> isPristineBootstrapCopy(d, r)
    BY <2>2 DEF isPristineBootstrapCopy
  <2>5. resolveDefaultIniPathForLoad(g, r) = p
    BY <1>2, <1>10, <1>13, <2>1, <2>2, <2>3, <2>4
       DEF resolveDefaultIniPathForLoad, ProfileRoot, Places
  <2>6. InstallersTemplate(g, r)
    BY <1>1, <1>10, <1>13, <2>2 DEF InstallersTemplate
  <2>7. Recognizable(g, r)
    BY <2>1, <2>2, <2>4 DEF Recognizable
  <2> QED
    BY <1>1, <1>3, <1>8, <1>11, <2>5, <2>6, <2>7 DEF IsDisk
<1>14. CASE ~isStandaloneTemplate(d) /\ p = r /\ r = "install"
  <2>1. resolveDefaultIniPathForLoad(g, r) = p
    BY <1>5, <1>10, <1>14
       DEF resolveDefaultIniPathForLoad, ProfileRoot, isPristineBootstrapCopy
  <2>2. InstallersTemplate(g, r) /\ Recognizable(g, r)
    BY <1>14 DEF InstallersTemplate, Recognizable
  <2> QED
    BY <1>1, <1>3, <1>8, <1>11, <2>1, <2>2 DEF IsDisk
<1>15. CASE ~isStandaloneTemplate(d) /\ p = r /\ r # "install"
  <2>1. g["install"] = d["install"]
    BY <1>3, <1>15 DEF Places
  <2>2. InstallersTemplate(g, r)
    BY <1>1, <1>10, <1>15, <2>1 DEF InstallersTemplate
  <2>3. CASE PreferredLegacy(d) \in {"none", r}
    <3>1. PreferredLegacy(g) \in {"none", r}
      BY <1>1, <1>3, <1>5, <1>15, <2>3 DEF PreferredLegacy, Places
    <3>2. resolveDefaultIniPathForLoad(g, r) = p
      BY <1>10, <1>15, <3>1 DEF resolveDefaultIniPathForLoad, ProfileRoot
    <3>3. Recognizable(g, r)
      BY <3>1 DEF Recognizable
    <3> QED
      BY <1>1, <1>3, <1>8, <1>11, <2>2, <3>2, <3>3 DEF IsDisk
  <2>4. CASE PreferredLegacy(d) \notin {"none", r}
    <3>1. d[r].exists /\ ~isPristineBootstrapCopy(d, r)
      BY <1>15, <2>4 DEF resolveDefaultIniPathForLoad, ProfileRoot
    <3>2. CASE ~d["install"].exists
      <4>1. ~isPristineBootstrapCopy(g, r)
        BY <2>1, <3>2 DEF isPristineBootstrapCopy
      <4>2. resolveDefaultIniPathForLoad(g, r) = p
        BY <1>5, <1>10, <1>15, <4>1 DEF resolveDefaultIniPathForLoad, ProfileRoot
      <4>3. Recognizable(g, r)
        BY <2>1, <3>2 DEF Recognizable
      <4> QED
        BY <1>1, <1>3, <1>8, <1>11, <2>2, <4>2, <4>3 DEF IsDisk
    <3>3. CASE d["install"].exists
      <4>1. ~HasAny(d["install"], UserKeys)
        BY <1>1, <1>15 DEF InstallersTemplate
      <4>2. HasAny(d["install"], SeedKeys) \/ HasAny(d[r], UserKeys)
        BY <1>1, <1>15, <2>4, <3>1, <3>3 DEF Recognizable
      <4>3. ~HasAny(d[r], SeedKeys) \/ HasAny(d[r], UserKeys)
        BY <1>15, <3>1, <3>3 DEF isPristineBootstrapCopy
      <4>4. HasAny(d[r], UserKeys) => HasAny(g[r], UserKeys)
        BY <1>7, <1>15 DEF HasAny
      <4>5. HasAny(d[r], SeedKeys) <=> HasAny(g[r], SeedKeys)
        BY <1>6, <1>9, <1>15 DEF HasAny, SeedKeys
      <4>6. g[r] # d["install"]
        BY <4>1, <4>2, <4>3, <4>4, <4>5
      <4>7. ~isPristineBootstrapCopy(g, r)
        BY <2>1, <4>3, <4>4, <4>5, <4>6 DEF isPristineBootstrapCopy
      <4>8. resolveDefaultIniPathForLoad(g, r) = p
        BY <1>5, <1>10, <1>15, <4>7 DEF resolveDefaultIniPathForLoad, ProfileRoot
      <4>9. Recognizable(g, r)
        BY <2>1, <4>2, <4>4 DEF Recognizable
      <4> QED
        BY <1>1, <1>3, <1>8, <1>11, <2>2, <4>8, <4>9 DEF IsDisk
    <3> QED
      BY <3>2, <3>3
  <2> QED
    BY <2>3, <2>4
<1> QED
  BY <1>12, <1>13, <1>14, <1>15

-----------------------------------------------------------------------------
(* What the controls of a dialog can show.                                 *)
PreferencesShown(c) ==
    /\ c = [f \in Controls |-> c[f]]
    /\ \A f \in Controls : c[f] \in ValuesOf(f)

ScheduleShown(c) ==
    /\ c = [f \in ScheduleControls |-> c[f]]
    /\ c["scanScheduled"] \in BOOLEAN
    /\ c["scanFrequency"] \in -1 .. 3
    /\ c["scanDay"] \in -1 .. 6

LEMMA ControlsAreFields == Controls \subseteq Fields /\ ScheduleControls \subseteq Fields
BY FieldsAre, ControlsAre DEF ScheduleControls

LEMMA PreferencesOpened ==
    ASSUME NEW c, IsSetting(c), NEW first
    PROVE  PreferencesShown(loadFromConfig(c, first))
<1> DEFINE s == loadFromConfig(c, first)
<1>1. s = [f \in Controls |-> s[f]]
  BY DEF loadFromConfig
<1>2. \A f \in Controls : s[f] \in ValuesOf(f)
  <2> SUFFICES ASSUME NEW f \in Controls
               PROVE  s[f] \in ValuesOf(f)
    OBVIOUS
  <2>1. c[f] \in ValuesOf(f)
    BY ControlsAreFields DEF IsSetting
  <2>2. CASE f = "updateFrequency"
    <3>1. s[f] = Selection(c[f], Len(UpdateFrequencies))
      BY <2>2 DEF loadFromConfig
    <3> QED
      BY <2>1, <2>2, <3>1 DEF Selection, ValuesOf
  <2>3. CASE f = "scanDay"
    <3>1. s[f] = Selection(c[f], Cardinality(Days))
      BY <2>3 DEF loadFromConfig
    <3> QED
      BY <2>1, <2>3, <3>1 DEF Selection, ValuesOf
  <2>4. CASE f = "excludePatterns"
    <3>1. s[f] = PatternList(c[f], first)
      BY <2>4 DEF loadFromConfig
    <3>2. c[f] \subseteq PatternSet
      BY <2>1, <2>4 DEF ValuesOf
    <3>3. \A q \in PatternSet : Shorter(q).lost <= 4 => Shorter(q) \in PatternSet
      BY DEF PatternSet, Shorter
    <3>4. PatternList(c[f], first) \subseteq PatternSet
      BY <3>2, <3>3 DEF PatternList
    <3> QED
      BY <2>4, <3>1, <3>4 DEF ValuesOf
  <2>5. CASE f = "priority"
    <3>1. s[f] \in {"l", "n"}
      BY <2>5 DEF loadFromConfig
    <3> QED
      BY <2>5, <3>1 DEF ValuesOf
  <2>6. CASE f \notin {"updateFrequency", "scanDay", "excludePatterns", "priority"}
    <3>1. s[f] = c[f]
      BY <2>6 DEF loadFromConfig
    <3> QED
      BY <2>1, <3>1
  <2> QED
    BY <2>2, <2>3, <2>4, <2>5, <2>6
<1> QED
  BY <1>1, <1>2 DEF PreferencesShown

LEMMA ScheduleOpened ==
    ASSUME NEW c, IsSetting(c)
    PROVE  ScheduleShown(loadSchedule(c))
<1> DEFINE s == loadSchedule(c)
<1>1. s = [f \in ScheduleControls |-> s[f]]
  BY DEF loadSchedule
<1>2. /\ c["scanScheduled"] \in BOOLEAN
      /\ c["scanFrequency"] \in 0 .. 3
      /\ c["scanDay"] \in -1 .. 6
  BY ControlsAreFields DEF IsSetting, ValuesOf, ScheduleControls
<1>3. /\ s["scanScheduled"] = c["scanScheduled"]
      /\ s["scanFrequency"] = Selection(c["scanFrequency"], Len(ScanFrequencies))
      /\ s["scanDay"] = Selection(c["scanDay"], Cardinality(Days))
  BY DEF loadSchedule, ScheduleControls
<1> HIDE DEF s
<1>4. s["scanFrequency"] \in -1 .. 3 /\ s["scanDay"] \in -1 .. 6
  BY <1>2, <1>3 DEF Selection
<1> QED
  BY <1>1, <1>2, <1>3, <1>4 DEF ScheduleShown, s

(* Every control belongs to one of the groups Save assigns.                *)
LEMMA GroupsAre ==
    /\ Len(Groups) = 9 /\ DOMAIN Groups = 1 .. 9
    /\ \A i \in 1 .. 9 : Groups[i] \subseteq Controls
    /\ UNION {Groups[i] : i \in 1 .. 9} = Controls
<1>1. Len(Groups) = 9 /\ DOMAIN Groups = 1 .. 9
  BY DEF Groups
<1>2. \A i \in 1 .. 9 : Groups[i] \subseteq Controls
  BY ControlsAre DEF Groups
<1>3. Controls \subseteq Groups[1] \cup Groups[2] \cup Groups[3] \cup Groups[4]
                 \cup Groups[5] \cup Groups[6] \cup Groups[7] \cup Groups[8] \cup Groups[9]
  BY ControlsAre DEF Groups
<1> QED
  BY <1>1, <1>2, <1>3

(* A refusal is of a control that can carry a mark.                        *)
LEMMA RefusedIsMarked ==
    ASSUME NEW c, NEW n, Refused(n, c) # "none"
    PROVE  Refused(n, c) \in Controls \ Toggles
<1> DEFINE marks == {"quarantinePath", "dbMirror", "updateFrequency", "scanDay",
                      "proxyHost", "proxyPort", "maxFileSizeMb", "maxScanSizeMb",
                      "databasePath", "scanLogFile", "maxLogSizeMb"}
<1>1. Refused(n, c) \in marks
  <2>1. CASE n = 6
    <3>1. Refused(n, c) = RefusedLimit(c)
      BY <2>1 DEF Refused
    <3> QED
      BY <3>1 DEF RefusedLimit
  <2>2. CASE n # 6
    BY <2>2 DEF Refused
  <2> QED
    BY <2>1, <2>2
<1>2. marks \subseteq Controls \ Toggles
  BY ControlsAre DEF Toggles
<1> QED
  BY <1>1, <1>2

LEMMA SmallestOfNine ==
    ASSUME NEW bad, bad \subseteq 1 .. 9, bad # {}
    PROVE  \E n \in bad : \A m \in bad : n <= m
<1>1. bad \subseteq {1, 2, 3, 4, 5, 6, 7, 8, 9}
  OBVIOUS
<1>2. CASE 1 \in bad /\ bad \cap {} = {}
  BY <1>1, <1>2
<1>3. CASE 2 \in bad /\ bad \cap {1} = {}
  BY <1>1, <1>3
<1>4. CASE 3 \in bad /\ bad \cap {1, 2} = {}
  BY <1>1, <1>4
<1>5. CASE 4 \in bad /\ bad \cap {1, 2, 3} = {}
  BY <1>1, <1>5
<1>6. CASE 5 \in bad /\ bad \cap {1, 2, 3, 4} = {}
  BY <1>1, <1>6
<1>7. CASE 6 \in bad /\ bad \cap {1, 2, 3, 4, 5} = {}
  BY <1>1, <1>7
<1>8. CASE 7 \in bad /\ bad \cap {1, 2, 3, 4, 5, 6} = {}
  BY <1>1, <1>8
<1>9. CASE 8 \in bad /\ bad \cap {1, 2, 3, 4, 5, 6, 7} = {}
  BY <1>1, <1>9
<1>10. CASE 9 \in bad /\ bad \cap {1, 2, 3, 4, 5, 6, 7, 8} = {}
  BY <1>1, <1>10
<1> QED
  BY <1>1, <1>2, <1>3, <1>4, <1>5, <1>6, <1>7, <1>8, <1>9, <1>10

LEMMA RefusedAtGroup ==
    ASSUME NEW c, RefusedAt(c) # 0
    PROVE  RefusedAt(c) \in 1 .. 9 /\ Refused(RefusedAt(c), c) # "none"
<1> DEFINE bad == {n \in 1 .. 9 : Refused(n, c) # "none"}
<1>1. RefusedAt(c) = IF bad = {} THEN 0 ELSE CHOOSE n \in bad : \A m \in bad : n <= m
  BY GroupsAre DEF RefusedAt
<1>2. bad \subseteq 1 .. 9 /\ bad # {}
  BY <1>1
<1> HIDE DEF bad
<1>3. \E n \in bad : \A m \in bad : n <= m
  BY <1>2, SmallestOfNine
<1>4. RefusedAt(c) \in bad
  BY <1>1, <1>2, <1>3
<1> QED
  BY <1>4 DEF bad

LEMMA AcceptedEverywhere ==
    ASSUME NEW c, RefusedAt(c) = 0, NEW n \in 1 .. 9
    PROVE  Refused(n, c) = "none"
<1> DEFINE bad == {m \in 1 .. 9 : Refused(m, c) # "none"}
<1>1. RefusedAt(c) = IF bad = {} THEN 0 ELSE CHOOSE m \in bad : \A k \in bad : m <= k
  BY GroupsAre DEF RefusedAt
<1>2. bad \subseteq 1 .. 9 /\ 0 \notin bad
  OBVIOUS
<1>3. bad = {}
  <2> HIDE DEF bad
  <2> SUFFICES ASSUME bad # {}
               PROVE  FALSE
    OBVIOUS
  <2>1. \E m \in bad : \A k \in bad : m <= k
    BY <1>2, SmallestOfNine
  <2>2. RefusedAt(c) \in bad
    BY <1>1, <2>1
  <2> QED
    BY <1>2, <2>2
<1> QED
  BY <1>3

LEMMA PreferencesAssigned ==
    ASSUME NEW c, IsSetting(c), NEW ctrl, PreferencesShown(ctrl), NEW n \in 0 .. 9
    PROVE  IsSetting(saveToConfig(c, ctrl, n))
<1> DEFINE done == UNION {Groups[i] : i \in 1 .. n}
           s == saveToConfig(c, ctrl, n)
<1>1. s = [f \in Fields |-> IF f \notin done THEN c[f]
                            ELSE IF f \in Limits THEN AtLeast0(ctrl[f]) ELSE ctrl[f]]
  BY DEF saveToConfig
<1>2. done \subseteq Controls
  BY GroupsAre
<1> HIDE DEF done, s
<1>3. \A f \in Fields : s[f] \in ValuesOf(f)
  <2> SUFFICES ASSUME NEW f \in Fields
               PROVE  s[f] \in ValuesOf(f)
    OBVIOUS
  <2>1. CASE f \notin done
    BY <1>1, <2>1 DEF IsSetting
  <2>2. CASE f \in done /\ f \in Limits
    <3>1. ctrl[f] \in ValuesOf(f) /\ s[f] = AtLeast0(ctrl[f])
      BY <1>1, <1>2, <2>2 DEF PreferencesShown
    <3>2. ValuesOf(f) = Int
      BY <2>2 DEF Limits, ValuesOf
    <3> QED
      BY <3>1, <3>2 DEF AtLeast0
  <2>3. CASE f \in done /\ f \notin Limits
    BY <1>1, <1>2, <2>3 DEF PreferencesShown
  <2> QED
    BY <2>1, <2>2, <2>3
<1>4. s = [f \in Fields |-> s[f]]
  BY <1>1
<1> QED
  BY <1>3, <1>4 DEF IsSetting, s

LEMMA ScheduleAssigned ==
    ASSUME NEW c, IsSetting(c), NEW ctrl, ScheduleShown(ctrl)
    PROVE  IsSetting(saveSchedule(c, ctrl))
<1> DEFINE s == saveSchedule(c, ctrl)
<1>1. s = [f \in Fields |->
            IF f \notin ScheduleControls THEN c[f]
            ELSE IF f = "scanScheduled" THEN ctrl[f] ELSE AtLeast0(ctrl[f])]
  BY DEF saveSchedule
<1> HIDE DEF s
<1>2. \A f \in Fields : s[f] \in ValuesOf(f)
  <2> SUFFICES ASSUME NEW f \in Fields
               PROVE  s[f] \in ValuesOf(f)
    OBVIOUS
  <2>1. CASE f \notin ScheduleControls
    BY <1>1, <2>1 DEF IsSetting
  <2>2. CASE f = "scanScheduled"
    <3>1. s[f] = ctrl["scanScheduled"]
      BY <1>1, <2>2 DEF ScheduleControls
    <3> QED
      BY <2>2, <3>1 DEF ScheduleShown, ValuesOf
  <2>3. CASE f = "scanFrequency"
    <3>1. s[f] = AtLeast0(ctrl["scanFrequency"])
      BY <1>1, <2>3 DEF ScheduleControls
    <3> QED
      BY <2>3, <3>1 DEF ScheduleShown, ValuesOf, AtLeast0
  <2>4. CASE f = "scanDay"
    <3>1. s[f] = AtLeast0(ctrl["scanDay"])
      BY <1>1, <2>4 DEF ScheduleControls
    <3> QED
      BY <2>4, <3>1 DEF ScheduleShown, ValuesOf, AtLeast0
  <2> QED
    BY <2>1, <2>2, <2>3, <2>4 DEF ScheduleControls
<1>3. s = [f \in Fields |-> s[f]]
  BY <1>1
<1> QED
  BY <1>2, <1>3 DEF IsSetting, s

-----------------------------------------------------------------------------
(* The program uses the file that the next start would use, and has made   *)
(* the copy of the template a start would make.                            *)
PlaceInv ==
    /\ ini \in Places
    /\ on => ini = NextPlace /\ bootstrapLegacyProfile(files, ini) = files

(* A dialog is open only while the program runs, and shows settings.       *)
DialogInv ==
    /\ dlg \in {"none", "prefs", "schedule"}
    /\ dlg # "none" => on
    /\ dlg = "none" => ctl = NoControls
    /\ dlg = "prefs" => PreferencesShown(ctl)
    /\ dlg = "schedule" => ScheduleShown(ctl)

MarkInv == page \in Pages /\ marked \subseteq Controls \ Toggles

(* freshclam.conf is that of the settings in use while no dialog edits     *)
(* them.                                                                   *)
SyncInv == conf = [p \in Places |-> conf[p]] /\ ConfInSync

IInv ==
    /\ IsDisk(files, root)
    /\ PlaceInv
    /\ IsSetting(cfg)
    /\ DialogInv
    /\ MarkInv
    /\ SyncInv

-----------------------------------------------------------------------------
LEMMA LastKey == Len(SaveOrder) \in 1 .. Len(SaveOrder)
BY DEF SaveOrder

LEMMA NextLoadTyped ==
    ASSUME IsDisk(files, root)
    PROVE  /\ NextPlace \in Places
           /\ IsSetting(NextLoad)
           /\ Settled(NextPlace, NextLoad) = NextLoad
<1> DEFINE g == bootstrapLegacyProfile(files, NextPlace)
<1>1. NextPlace \in Places
  BY PlaceIsOne DEF NextPlace
<1>2. IsDisk(g, root)
  BY BootstrapKeepsPlace DEF NextPlace, UsedIn
<1>3. IsFile(g[NextPlace])
  BY <1>1, <1>2 DEF IsDisk
<1>4. NextLoad = load(g[NextPlace], NextPlace)
  BY DEF NextLoad
<1> HIDE DEF g
<1> QED
  BY <1>1, <1>3, <1>4, LoadTyped

(* While the program runs, the next start loads the file in use.           *)
LEMMA NextLoadRunning ==
    ASSUME IsDisk(files, root), PlaceInv, on
    PROVE  NextLoad = load(files[ini], ini)
BY DEF PlaceInv, NextLoad

(* A save of the settings c, whole or cut short after n keys.              *)
LEMMA SaveStep ==
    ASSUME IInv, on, NEW c, IsSetting(c), NEW n \in 1 .. Len(SaveOrder),
           files' = [files EXCEPT ![ini] = save(@, c, n)],
           UNCHANGED <<root, ini>>
    PROVE  /\ IsDisk(files', root') /\ PlaceInv'
           /\ files'[ini] = save(files[ini], c, n)
           /\ NextLoad' = load(save(files[ini], c, n), ini)
<1>1. /\ IsDisk(files, root) /\ ini \in Places
      /\ ini = resolveDefaultIniPathForLoad(files, root)
  BY DEF IInv, PlaceInv, NextPlace
<1>2. /\ IsDisk(files', root)
      /\ resolveDefaultIniPathForLoad(files', root) = ini
      /\ bootstrapLegacyProfile(files', ini) = files'
  <2>1. UsedIn(files', root, ini)
    BY <1>1, SaveKeepsPlace
  <2> QED
    BY <2>1 DEF UsedIn
<1>3. files'[ini] = save(files[ini], c, n)
  BY <1>1 DEF IsDisk
<1>4. NextPlace' = ini
  BY <1>2 DEF NextPlace
<1>5. NextLoad' = load(files'[ini], ini)
  BY <1>2, <1>4 DEF NextLoad
<1> QED
  BY <1>1, <1>2, <1>3, <1>4, <1>5 DEF PlaceInv

LEMMA SavedStep ==
    ASSUME IInv, on, IsSetting(cfg'), Saved(cfg'), UNCHANGED <<root, ini>>
    PROVE  /\ IsDisk(files', root') /\ PlaceInv' /\ SyncInv'
           /\ NextLoad' = Settled(ini', cfg')
<1>1. files' = [files EXCEPT ![ini] = save(@, cfg', Len(SaveOrder))]
  BY DEF Saved, SavePlace
<1>2. /\ IsDisk(files', root') /\ PlaceInv'
      /\ NextLoad' = load(save(files[ini], cfg', Len(SaveOrder)), ini)
  BY <1>1, LastKey, SaveStep
<1>3. IsFile(files[ini]) /\ ini \in Places
  BY DEF IInv, PlaceInv, IsDisk
<1>4. NextLoad' = Settled(ini, cfg')
  BY <1>2, <1>3, LoadSaved
<1>5. conf' = [conf EXCEPT ![ini] = FreshclamConf(cfg')]
  BY DEF Saved, SavePlace
<1>6. conf' = [p \in Places |-> conf'[p]] /\ conf'[ini] = FreshclamConf(cfg')
  BY <1>3, <1>5 DEF IInv, SyncInv
<1>7. SyncInv'
  BY <1>6 DEF SyncInv, ConfInSync
<1> QED
  BY <1>2, <1>4, <1>7

(* Everything a save may be writing is settings.                           *)
LEMMA BeingSavedTyped ==
    ASSUME IInv, NEW c \in BeingSaved
    PROVE  IsSetting(c)
<1>1. IsSetting(cfg) /\ DialogInv
  BY DEF IInv
<1>2. IsSetting([cfg EXCEPT !.scanLastRunTime = @ + 1])
  <2> DEFINE s == [cfg EXCEPT !.scanLastRunTime = @ + 1]
  <2>1. "scanLastRunTime" \in Fields /\ cfg["scanLastRunTime"] \in Nat
    BY <1>1, FieldsAre DEF IsSetting, ValuesOf
  <2>2. s = [k \in Fields |-> s[k]]
    BY <1>1 DEF IsSetting
  <2>3. \A k \in Fields : s[k] = IF k = "scanLastRunTime" THEN cfg[k] + 1 ELSE cfg[k]
    BY <1>1 DEF IsSetting
  <2> HIDE DEF s
  <2>4. \A k \in Fields : s[k] \in ValuesOf(k)
    <3>1. s["scanLastRunTime"] \in ValuesOf("scanLastRunTime")
      BY <2>1, <2>3 DEF ValuesOf
    <3> QED
      BY <1>1, <2>3, <3>1 DEF IsSetting
  <2> QED
    BY <2>2, <2>4 DEF IsSetting, s
<1>3. dlg = "prefs" => IsSetting(saveToConfig(cfg, ctl, Len(Groups)))
  BY <1>1, GroupsAre, PreferencesAssigned DEF DialogInv
<1>4. dlg = "schedule" => IsSetting(saveSchedule(cfg, ctl))
  BY <1>1, ScheduleAssigned DEF DialogInv
<1> QED
  BY <1>1, <1>2, <1>3, <1>4 DEF BeingSaved

-----------------------------------------------------------------------------
LEMMA Start_IInv == Init => IInv
<1> SUFFICES ASSUME Init
             PROVE  IInv
  OBVIOUS
<1>1. IsDisk(files, root)
  BY SettingsAssumption DEF Init
<1>2. NextPlace \in Places /\ IsSetting(NextLoad)
  BY <1>1, NextLoadTyped
<1>3. PlaceInv /\ IsSetting(cfg)
  BY <1>2 DEF Init, PlaceInv
<1>4. DialogInv
  BY DEF Init, DialogInv
<1>5. MarkInv
  BY DEF Init, MarkInv, Pages, Page
<1>6. SyncInv
  BY DEF Init, SyncInv, ConfInSync
<1> QED
  BY <1>1, <1>3, <1>4, <1>5, <1>6 DEF IInv

(* Closing a dialog.                                                       *)
LEMMA ClosedStep ==
    ASSUME Closed
    PROVE  DialogInv' /\ MarkInv'
<1>1. DialogInv'
  BY DEF Closed, DialogInv
<1>2. MarkInv'
  BY DEF Closed, MarkInv, Pages, Page
<1> QED
  BY <1>1, <1>2

LEMMA StartStep ==
    ASSUME IInv, Start
    PROVE  IInv' /\ NextLoad' = NextLoad /\ cfg' = NextLoad
           /\ Settled(ini', cfg') = NextLoad
<1>1. IsDisk(files, root)
  BY DEF IInv
<1>2. NextPlace \in Places /\ IsSetting(NextLoad)
      /\ Settled(NextPlace, NextLoad) = NextLoad
  BY <1>1, NextLoadTyped
<1>3. UsedIn(files', root', NextPlace)
  <2>1. UsedIn(files', root, NextPlace)
    BY <1>1, BootstrapKeepsPlace DEF Start, NextPlace
  <2> QED
    BY <2>1 DEF Start
<1>4. /\ ini' = NextPlace /\ cfg' = NextLoad
      /\ files' = bootstrapLegacyProfile(files, NextPlace)
      /\ conf' = [conf EXCEPT ![NextPlace] = FreshclamConf(NextLoad)]
      /\ UNCHANGED dialog
  BY DEF Start
<1>5. NextPlace' = NextPlace
  BY <1>3 DEF UsedIn, NextPlace
<1>6. NextLoad' = NextLoad
  <2>1. NextLoad' = load(files'[NextPlace], NextPlace)
    BY <1>3, <1>5 DEF NextLoad, UsedIn
  <2> QED
    BY <1>4, <2>1 DEF NextLoad
<1>7. IsDisk(files', root') /\ PlaceInv' /\ IsSetting(cfg')
  BY <1>2, <1>3, <1>4, <1>5 DEF PlaceInv, UsedIn
<1>8. DialogInv' /\ MarkInv'
  BY <1>4 DEF IInv, DialogInv, MarkInv, dialog, Start
<1>9. SyncInv'
  <2>1. conf' = [p \in Places |-> conf'[p]] /\ conf'[ini'] = FreshclamConf(cfg')
    BY <1>2, <1>4 DEF IInv, SyncInv
  <2> QED
    BY <2>1 DEF SyncInv, ConfInSync
<1> QED
  BY <1>2, <1>4, <1>6, <1>7, <1>8, <1>9 DEF IInv

LEMMA ReloadStep ==
    ASSUME IInv, Reload
    PROVE  IInv' /\ NextLoad' = NextLoad /\ cfg' = NextLoad
           /\ Settled(ini', cfg') = NextLoad
<1>1. IsDisk(files, root) /\ PlaceInv /\ on
  BY DEF IInv, Reload
<1>2. cfg' = NextLoad
  BY <1>1, NextLoadRunning DEF Reload
<1>3. /\ UNCHANGED <<root, files, on, ini, dlg, ctl, page, marked>>
      /\ conf' = [conf EXCEPT ![ini] = FreshclamConf(cfg')]
  BY DEF Reload, dialog
<1>4. NextLoad' = NextLoad /\ NextPlace' = NextPlace
  BY <1>3 DEF NextLoad, NextPlace
<1>5. ini = NextPlace /\ ini \in Places
  BY <1>1 DEF PlaceInv
<1>6. IsSetting(NextLoad) /\ Settled(NextPlace, NextLoad) = NextLoad
  BY <1>1, NextLoadTyped
<1>7. PlaceInv'
  BY <1>1, <1>3, <1>4 DEF PlaceInv
<1>8. DialogInv' /\ MarkInv'
  BY <1>3 DEF IInv, DialogInv, MarkInv
<1>9. SyncInv'
  <2>1. conf' = [p \in Places |-> conf'[p]] /\ conf'[ini'] = FreshclamConf(cfg')
    BY <1>3, <1>5 DEF IInv, SyncInv
  <2> QED
    BY <2>1 DEF SyncInv, ConfInSync
<1>10. IsDisk(files', root')
  BY <1>1, <1>3
<1> QED
  BY <1>2, <1>3, <1>4, <1>5, <1>6, <1>7, <1>8, <1>9, <1>10 DEF IInv

(* The steps that leave the disk, the place and the program as they are.   *)
LEMMA QuietStep ==
    ASSUME IInv, UNCHANGED <<root, files, conf, on, ini>>
    PROVE  /\ IsDisk(files', root') /\ PlaceInv'
           /\ NextLoad' = NextLoad
<1>1. NextLoad' = NextLoad /\ NextPlace' = NextPlace
  BY DEF NextLoad, NextPlace
<1>2. IsDisk(files', root')
  BY DEF IInv
<1> QED
  BY <1>1, <1>2 DEF IInv, PlaceInv

LEMMA EndStep ==
    ASSUME IInv, End
    PROVE  IInv' /\ NextLoad' = NextLoad
<1>1. UNCHANGED <<root, files, conf, ini, cfg>> /\ ~on'
  BY DEF End, disks
<1>2. NextLoad' = NextLoad
  BY <1>1 DEF NextLoad, NextPlace
<1>3. PlaceInv' /\ SyncInv'
  BY <1>1 DEF IInv, PlaceInv, SyncInv, ConfInSync
<1>4. DialogInv' /\ MarkInv'
  BY ClosedStep DEF End
<1> QED
  BY <1>1, <1>2, <1>3, <1>4 DEF IInv

LEMMA ScheduledRunStep ==
    ASSUME IInv, ScheduledRun
    PROVE  IInv' /\ NextLoad' = Settled(ini', cfg')
<1>1. cfg' \in BeingSaved
  BY DEF ScheduledRun, BeingSaved
<1>2. IsSetting(cfg')
  BY <1>1, BeingSavedTyped
<1>3. Saved(cfg') /\ UNCHANGED <<root, ini>> /\ on /\ UNCHANGED <<on, dlg, ctl, page, marked>>
  BY DEF ScheduledRun, dialog
<1>4. /\ IsDisk(files', root') /\ PlaceInv' /\ SyncInv'
      /\ NextLoad' = Settled(ini', cfg')
  BY <1>2, <1>3, SavedStep
<1>5. DialogInv' /\ MarkInv'
  BY <1>3 DEF IInv, DialogInv, MarkInv
<1> QED
  BY <1>2, <1>4, <1>5 DEF IInv

(* Opening a dialog, entering something, and a refusal change the controls *)
(* or the settings in use, not the disk.                                   *)
LEMMA OpenPreferencesStep ==
    ASSUME IInv, OpenPreferences
    PROVE  IInv' /\ NextLoad' = NextLoad
<1>1. /\ on /\ dlg' = "prefs" /\ page' = "General" /\ marked' = {}
      /\ UNCHANGED <<root, files, conf, on, ini, cfg>>
  BY DEF OpenPreferences, disks
<1>2. \E first : ctl' = loadFromConfig(cfg, first)
  BY DEF OpenPreferences
<1>3. PreferencesShown(ctl')
  BY <1>2, PreferencesOpened DEF IInv
<1>4. DialogInv'
  BY <1>1, <1>3 DEF DialogInv
<1>5. MarkInv'
  BY <1>1 DEF MarkInv, Pages, Page
<1>6. SyncInv'
  BY <1>1 DEF IInv, SyncInv, ConfInSync
<1>7. IsDisk(files', root') /\ PlaceInv' /\ NextLoad' = NextLoad
  BY <1>1, QuietStep
<1> QED
  BY <1>1, <1>4, <1>5, <1>6, <1>7 DEF IInv

LEMMA OpenScheduleStep ==
    ASSUME IInv, OpenSchedule
    PROVE  IInv' /\ NextLoad' = NextLoad
<1>1. /\ on /\ dlg' = "schedule" /\ ctl' = loadSchedule(cfg)
      /\ UNCHANGED <<root, files, conf, on, ini, cfg, page, marked>>
  BY DEF OpenSchedule, disks
<1>2. ScheduleShown(ctl')
  BY <1>1, ScheduleOpened DEF IInv
<1>3. DialogInv' /\ MarkInv'
  BY <1>1, <1>2 DEF IInv, DialogInv, MarkInv
<1>4. SyncInv'
  BY <1>1 DEF IInv, SyncInv, ConfInSync
<1>5. IsDisk(files', root') /\ PlaceInv' /\ NextLoad' = NextLoad
  BY <1>1, QuietStep
<1> QED
  BY <1>1, <1>3, <1>4, <1>5 DEF IInv

LEMMA EnterStep ==
    ASSUME IInv, NEW e \in Edits, Enter(e[1], e[2])
    PROVE  IInv' /\ NextLoad' = NextLoad /\ on /\ on'
<1> DEFINE f == e[1]
           v == e[2]
           w == IF f # "excludePatterns" THEN v
                ELSE IF v \in ctl[f] THEN ctl[f] \ {v} ELSE ctl[f] \cup {v}
<1>1. /\ f \in DOMAIN ctl
      /\ ctl' = [ctl EXCEPT ![f] = w]
      /\ marked' = marked \ {f}
      /\ UNCHANGED <<root, files, conf, on, ini, cfg, dlg>>
      /\ dlg = "prefs" => page' = PageOf(f)
      /\ dlg = "schedule" => page' = page
  BY DEF Enter, disks
<1>2. IsEntry(f, v)
  BY SettingsAssumption
<1>3. DialogInv
  BY DEF IInv
<1>4. dlg \in {"prefs", "schedule"} /\ on
  <2>1. DOMAIN NoControls = {}
    BY DEF NoControls
  <2> QED
    BY <1>1, <1>3, <2>1 DEF DialogInv
<1> HIDE DEF w, f, v
<1>5. CASE dlg = "prefs"
  <2>1. PreferencesShown(ctl) /\ f \in Controls
    BY <1>1, <1>3, <1>5 DEF DialogInv, PreferencesShown
  <2>2. w \in ValuesOf(f)
    <3>1. CASE f = "excludePatterns"
      <4>1. ctl[f] \subseteq PatternSet /\ v \in PatternSet
        BY <1>2, <2>1, <3>1 DEF PreferencesShown, ValuesOf, IsEntry
      <4>2. w \subseteq PatternSet
        BY <3>1, <4>1 DEF w
      <4> QED
        BY <3>1, <4>2 DEF ValuesOf
    <3>2. CASE f # "excludePatterns"
      BY <1>2, <3>2 DEF IsEntry, w
    <3> QED
      BY <3>1, <3>2
  <2>3. PreferencesShown(ctl')
    BY <1>1, <2>1, <2>2 DEF PreferencesShown
  <2>4. DialogInv'
    BY <1>1, <1>4, <1>5, <2>3 DEF DialogInv
  <2>5. MarkInv'
    BY <1>1, <1>5, <2>1, PageShows DEF IInv, MarkInv
  <2> QED
    BY <1>1, <1>4, <2>4, <2>5, QuietStep DEF IInv, SyncInv, ConfInSync
<1>6. CASE dlg = "schedule"
  <2>1. ScheduleShown(ctl) /\ f \in ScheduleControls
    BY <1>1, <1>3, <1>6 DEF DialogInv, ScheduleShown
  <2>2. v \in ValuesOf(f) /\ w = v
    BY <1>2, <2>1 DEF IsEntry, ScheduleControls, w
  <2>3. /\ f = "scanScheduled" => v \in BOOLEAN
        /\ f = "scanFrequency" => v \in -1 .. 3
        /\ f = "scanDay" => v \in -1 .. 6
    <3>1. f = "scanScheduled" => v \in BOOLEAN
      BY <2>2 DEF ValuesOf
    <3>2. f = "scanFrequency" => v \in 0 .. 3
      BY <2>2 DEF ValuesOf
    <3>3. f = "scanDay" => v \in -1 .. 6
      BY <2>2 DEF ValuesOf
    <3> QED
      BY <3>1, <3>2, <3>3
  <2>4. /\ ctl' = [g \in ScheduleControls |-> ctl'[g]]
        /\ \A g \in ScheduleControls : ctl'[g] = IF g = f THEN v ELSE ctl[g]
    BY <1>1, <2>1, <2>2 DEF ScheduleShown
  <2>5. ScheduleShown(ctl')
    BY <2>1, <2>3, <2>4 DEF ScheduleShown, ScheduleControls
  <2>6. DialogInv' /\ MarkInv'
    BY <1>1, <1>4, <1>6, <2>5 DEF IInv, DialogInv, MarkInv
  <2> QED
    BY <1>1, <1>4, <2>6, QuietStep DEF IInv, SyncInv, ConfInSync
<1> QED
  BY <1>4, <1>5, <1>6

LEMMA PreferencesRefusedStep ==
    ASSUME IInv, PreferencesRefused
    PROVE  IInv' /\ NextLoad' = NextLoad /\ on /\ on'
<1> DEFINE n == RefusedAt(ctl)
<1>1. /\ dlg = "prefs" /\ n # 0
      /\ cfg' = saveToConfig(cfg, ctl, n)
      /\ page' = PageOf(Refused(n, ctl))
      /\ marked' = marked \cup {Refused(n, ctl)}
      /\ UNCHANGED <<root, files, conf, on, ini, dlg, ctl>>
  BY DEF PreferencesRefused, disks
<1>2. n \in 1 .. 9 /\ Refused(n, ctl) # "none"
  BY <1>1, RefusedAtGroup
<1> HIDE DEF n
<1>3. Refused(n, ctl) \in Controls \ Toggles
  BY <1>2, RefusedIsMarked
<1>4. PreferencesShown(ctl) /\ on
  BY <1>1 DEF IInv, DialogInv
<1>5. IsSetting(cfg')
  <2>1. n \in 0 .. 9 /\ IsSetting(cfg)
    BY <1>2 DEF IInv
  <2> QED
    BY <1>1, <1>4, <2>1, PreferencesAssigned
<1>6. DialogInv'
  BY <1>1 DEF IInv, DialogInv
<1>7. MarkInv'
  BY <1>1, <1>3, PageShows DEF IInv, MarkInv
<1>8. SyncInv'
  BY <1>1 DEF IInv, SyncInv, ConfInSync
<1>9. IsDisk(files', root') /\ PlaceInv' /\ NextLoad' = NextLoad
  BY <1>1, QuietStep
<1> QED
  BY <1>1, <1>4, <1>5, <1>6, <1>7, <1>8, <1>9 DEF IInv

(* Steps that close a dialog and save.                                     *)
LEMMA CloseAndSaveStep ==
    ASSUME IInv, on, on' = on, IsSetting(cfg'), Saved(cfg'), Closed,
           UNCHANGED <<root, ini>>
    PROVE  IInv' /\ NextLoad' = Settled(ini', cfg')
<1>1. /\ IsDisk(files', root') /\ PlaceInv' /\ SyncInv'
      /\ NextLoad' = Settled(ini', cfg')
  BY SavedStep
<1> QED
  BY <1>1, ClosedStep DEF IInv

LEMMA ClosingStep ==
    ASSUME IInv,
           \/ PreferencesSaved \/ PreferencesCancelled
           \/ ScheduleSaved \/ ScheduleCancelled
    PROVE  IInv' /\ NextLoad' = Settled(ini', cfg') /\ on /\ on'
<1>1. IsSetting(cfg) /\ DialogInv
  BY DEF IInv
<1>2. CASE PreferencesSaved
  <2>1. dlg = "prefs" /\ cfg' = saveToConfig(cfg, ctl, Len(Groups))
    BY <1>2 DEF PreferencesSaved
  <2>2. on /\ IsSetting(cfg')
    BY <1>1, <2>1, GroupsAre, PreferencesAssigned DEF DialogInv
  <2>3. Saved(cfg') /\ Closed /\ UNCHANGED <<root, ini>> /\ on' = on
    BY <1>2 DEF PreferencesSaved
  <2> QED
    BY <2>2, <2>3, CloseAndSaveStep
<1>3. CASE PreferencesCancelled
  <2>1. on /\ cfg' = cfg /\ on' = on
    BY <1>1, <1>3 DEF PreferencesCancelled, DialogInv
  <2>2. Saved(cfg') /\ Closed /\ UNCHANGED <<root, ini>>
    BY <1>3 DEF PreferencesCancelled
  <2> QED
    BY <1>1, <2>1, <2>2, CloseAndSaveStep
<1>4. CASE ScheduleSaved
  <2>1. dlg = "schedule" /\ cfg' = saveSchedule(cfg, ctl)
    BY <1>4 DEF ScheduleSaved
  <2>2. on /\ IsSetting(cfg')
    BY <1>1, <2>1, ScheduleAssigned DEF DialogInv
  <2>3. Saved(cfg') /\ Closed /\ UNCHANGED <<root, ini>> /\ on' = on
    BY <1>4 DEF ScheduleSaved
  <2> QED
    BY <2>2, <2>3, CloseAndSaveStep
<1>5. CASE ScheduleCancelled
  <2>1. on /\ cfg' = cfg /\ on' = on
    BY <1>1, <1>5 DEF ScheduleCancelled, DialogInv
  <2>2. Saved(cfg') /\ Closed /\ UNCHANGED <<root, ini>>
    BY <1>5 DEF ScheduleCancelled
  <2> QED
    BY <1>1, <2>1, <2>2, CloseAndSaveStep
<1> QED
  BY <1>2, <1>3, <1>4, <1>5

(* The program is ended inside a save: each setting the next start loads   *)
(* is as before or as the save had it.                                     *)
LEMMA EndInSaveStep ==
    ASSUME IInv, EndInSave
    PROVE  /\ IInv' /\ on /\ ~on'
           /\ \A f \in Fields : NextLoad'[f] \in {NextLoad[f], Settled(ini', cfg')[f]}
<1>1. /\ on /\ cfg' \in BeingSaved /\ ~on' /\ Closed
      /\ UNCHANGED <<root, conf, ini>>
  BY DEF EndInSave
<1>2. PICK n \in CutPoints : files' = [files EXCEPT ![ini] = save(@, cfg', n)]
  BY DEF EndInSave
<1>3. n \in 1 .. Len(SaveOrder)
  BY SettingsAssumption
<1>4. IsSetting(cfg')
  BY <1>1, BeingSavedTyped
<1>5. /\ IsDisk(files', root') /\ PlaceInv'
      /\ NextLoad' = load(save(files[ini], cfg', n), ini)
  BY <1>1, <1>2, <1>3, <1>4, SaveStep
<1>6. IsFile(files[ini]) /\ ini \in Places
  BY DEF IInv, PlaceInv, IsDisk
<1>7. NextLoad = load(files[ini], ini)
  BY <1>1, NextLoadRunning DEF IInv
<1>8. \A f \in Fields : NextLoad'[f] \in {NextLoad[f], Settled(ini', cfg')[f]}
  BY <1>1, <1>3, <1>4, <1>5, <1>6, <1>7, LoadCut
<1>9. SyncInv'
  BY <1>1 DEF IInv, SyncInv, ConfInSync
<1> QED
  BY <1>1, <1>4, <1>5, <1>8, <1>9, ClosedStep DEF IInv

LEMMA StutterStep ==
    ASSUME IInv, UNCHANGED vars
    PROVE  IInv' /\ NextLoad' = NextLoad
<1>1. UNCHANGED <<root, files, conf, on, ini, cfg, dlg, ctl, page, marked>>
  BY DEF vars, dialog, disks
<1>2. IsDisk(files', root') /\ PlaceInv' /\ NextLoad' = NextLoad
  BY <1>1, QuietStep
<1>3. DialogInv' /\ MarkInv' /\ SyncInv'
  BY <1>1 DEF IInv, DialogInv, MarkInv, SyncInv, ConfInSync
<1> QED
  BY <1>1, <1>2, <1>3 DEF IInv

LEMMA Next_IInv == IInv /\ [Next]_vars => IInv'
<1> SUFFICES ASSUME IInv, [Next]_vars
             PROVE  IInv'
  OBVIOUS
<1>1. CASE Start
  BY <1>1, StartStep
<1>2. CASE Reload
  BY <1>2, ReloadStep
<1>3. CASE End
  BY <1>3, EndStep
<1>4. CASE EndInSave
  BY <1>4, EndInSaveStep
<1>5. CASE ScheduledRun
  BY <1>5, ScheduledRunStep
<1>6. CASE OpenPreferences
  BY <1>6, OpenPreferencesStep
<1>7. CASE OpenSchedule
  BY <1>7, OpenScheduleStep
<1>8. CASE \E e \in Edits : Enter(e[1], e[2])
  BY <1>8, EnterStep
<1>9. CASE PreferencesRefused
  BY <1>9, PreferencesRefusedStep
<1>10. CASE PreferencesSaved \/ PreferencesCancelled \/ ScheduleSaved \/ ScheduleCancelled
  BY <1>10, ClosingStep
<1>11. CASE UNCHANGED vars
  BY <1>11, StutterStep
<1> QED
  BY <1>1, <1>2, <1>3, <1>4, <1>5, <1>6, <1>7, <1>8, <1>9, <1>10, <1>11 DEF Next

(* The invariant the theorems below rest on.                               *)
THEOREM Invariance == Spec => []IInv
<1>1. Init => IInv
  BY Start_IInv
<1>2. IInv /\ [Next]_vars => IInv'
  BY Next_IInv
<1> QED
  BY <1>1, <1>2, PTL DEF Spec

-----------------------------------------------------------------------------
(* Whatever files the program was started with, and whatever save was cut  *)
(* short, the settings in use are in the ranges the rest of the program    *)
(* reads them in, and freshclam.conf says what they say.                   *)
THEOREM SettingsSafe == Spec => []SettingsInv
<1>1. IInv => SettingsInv
  <2> SUFFICES ASSUME IInv
               PROVE  SettingsInv
    OBVIOUS
  <2>1. IsSetting(NextLoad)
    BY NextLoadTyped DEF IInv
  <2>2. root \in {"install", "appdata", "user"}
    BY DEF IInv, IsDisk
  <2> QED
    BY <2>1, <2>2 DEF IInv, SettingsInv, TypeOK, PlaceInv, MarkInv, SyncInv
<1> QED
  BY <1>1, Invariance, PTL

(* load() and save() over four places, the copied template, the files of   *)
(* older programs and saves cut short are one store: a start finds what    *)
(* was last saved, each setting at its old or its new value when the save  *)
(* did not end.                                                            *)
THEOREM StoreImplemented == Spec => ImplementsStore
<1>1. Init => Store!Init
  <2> SUFFICES ASSUME Init
               PROVE  ~on /\ Settled(ini, cfg) = NextLoad
    BY DEF Store!Init
  <2>1. IsDisk(files, root)
    BY Start_IInv DEF IInv
  <2> QED
    BY <2>1, NextLoadTyped DEF Init
<1>2. IInv /\ [Next]_vars => [Store!Next]_<<on, Settled(ini, cfg), NextLoad>>
  <2> SUFFICES ASSUME IInv, [Next]_vars
               PROVE  [Store!Next]_<<on, Settled(ini, cfg), NextLoad>>
    OBVIOUS
  <2> USE DEF Store!Next
  <2>1. CASE Start
    <3>1. on'
      BY <2>1 DEF Start
    <3>2. Store!Load
      BY <2>1, <3>1, StartStep DEF Store!Load
    <3> QED
      BY <3>2
  <2>2. CASE Reload
    <3>1. on'
      BY <2>2 DEF Reload
    <3>2. Store!Load
      BY <2>2, <3>1, ReloadStep DEF Store!Load
    <3> QED
      BY <3>2
  <2>3. CASE End
    <3>1. ~on' /\ ini' = ini /\ cfg' = cfg
      BY <2>3 DEF End
    <3>2. Settled(ini, cfg)' = Settled(ini, cfg)
      BY <3>1
    <3>3. Store!End
      BY <2>3, <3>1, <3>2, EndStep DEF Store!End
    <3> QED
      BY <3>3
  <2>4. CASE EndInSave
    <3>1. on /\ ~on'
      BY <2>4, EndInSaveStep
    <3>2. \A f \in Fields : NextLoad'[f] \in {NextLoad[f], Settled(ini', cfg')[f]}
      BY <2>4, EndInSaveStep
    <3>3. Store!CutShort
      BY <3>1, <3>2 DEF Store!CutShort
    <3> QED
      BY <3>3
  <2>5. CASE ScheduledRun
    <3>1. on /\ on'
      BY <2>5 DEF ScheduledRun
    <3>2. Store!Save
      BY <2>5, <3>1, ScheduledRunStep DEF Store!Save
    <3> QED
      BY <3>2
  <2>6. CASE OpenPreferences
    <3>1. on /\ on'
      BY <2>6 DEF OpenPreferences
    <3>2. Store!Change
      BY <2>6, <3>1, OpenPreferencesStep DEF Store!Change
    <3> QED
      BY <3>2
  <2>7. CASE OpenSchedule
    <3>1. on /\ on'
      BY <2>7 DEF OpenSchedule
    <3>2. Store!Change
      BY <2>7, <3>1, OpenScheduleStep DEF Store!Change
    <3> QED
      BY <3>2
  <2>8. CASE \E e \in Edits : Enter(e[1], e[2])
    <3>1. Store!Change
      BY <2>8, EnterStep DEF Store!Change
    <3> QED
      BY <3>1
  <2>9. CASE PreferencesRefused
    <3>1. Store!Change
      BY <2>9, PreferencesRefusedStep DEF Store!Change
    <3> QED
      BY <3>1
  <2>10. CASE PreferencesSaved \/ PreferencesCancelled \/ ScheduleSaved \/ ScheduleCancelled
    <3>1. Store!Save
      BY <2>10, ClosingStep DEF Store!Save
    <3> QED
      BY <3>1
  <2>11. CASE UNCHANGED vars
    <3>1. on' = on /\ ini' = ini /\ cfg' = cfg
      BY <2>11 DEF vars
    <3>2. Settled(ini, cfg)' = Settled(ini, cfg)
      BY <3>1
    <3> QED
      BY <2>11, <3>1, <3>2, StutterStep
  <2> QED
    BY <2>1, <2>2, <2>3, <2>4, <2>5, <2>6, <2>7, <2>8, <2>9, <2>10, <2>11 DEF Next
<1> QED
  BY <1>1, <1>2, Invariance, PTL DEF Spec, ImplementsStore, Store!Spec

-----------------------------------------------------------------------------
LEMMA RefusedIsUsable ==
    ASSUME NEW c, NEW n \in 1 .. 9, NEW f, f = Refused(n, c), f # "none"
    PROVE  \/ Usable(c, f)
           \/ f \in {"updateFrequency", "scanDay"} /\ ~c.updateScheduled
<1>1. CASE n = 1
  <2>0. n # 2 /\ n # 3 /\ n # 4 /\ n # 5 /\ n # 6 /\ n # 7 /\ n # 8
    BY <1>1
  <2>1. f = "quarantinePath" /\ c.infectedAction = 2
    BY <1>1, <2>0, Zenon DEF Refused
  <2> QED
    BY <2>1 DEF Usable
<1>2. CASE n = 2
  <2>0. n # 1 /\ n # 3 /\ n # 4 /\ n # 5 /\ n # 6 /\ n # 7 /\ n # 8
    BY <1>2
  <2>1. f = "dbMirror" /\ c.updateScheduled
    BY <1>2, <2>0, Zenon DEF Refused
  <2> QED
    BY <2>1 DEF Usable
<1>3. CASE n = 3
  <2>0. n # 1 /\ n # 2 /\ n # 4 /\ n # 5 /\ n # 6 /\ n # 7 /\ n # 8
    BY <1>3
  <2>1. f = "updateFrequency"
    BY <1>3, <2>0, Zenon DEF Refused
  <2> QED
    BY <2>1 DEF Usable
<1>4. CASE n = 4
  <2>0. n # 1 /\ n # 2 /\ n # 3 /\ n # 5 /\ n # 6 /\ n # 7 /\ n # 8
    BY <1>4
  <2>1. f = "scanDay" /\ c.updateFrequency = 1
    BY <1>4, <2>0, Zenon DEF Refused
  <2> QED
    BY <2>1 DEF Usable
<1>5. CASE n = 5
  <2>0. n # 1 /\ n # 2 /\ n # 3 /\ n # 4 /\ n # 6 /\ n # 7 /\ n # 8
    BY <1>5
  <2>1. (f = "proxyHost" \/ f = "proxyPort") /\ c.proxyEnabled
    BY <1>5, <2>0, Zenon DEF Refused
  <2> QED
    BY <2>1 DEF Usable
<1>6. CASE n = 6
  <2>0. n # 1 /\ n # 2 /\ n # 3 /\ n # 4 /\ n # 5 /\ n # 7 /\ n # 8
    BY <1>6
  <2>1. f = RefusedLimit(c)
    BY <1>6, <2>0, Zenon DEF Refused
  <2>2. f = "maxFileSizeMb" \/ (f = "maxScanSizeMb" /\ c.scanArchives)
    BY <2>1 DEF RefusedLimit
  <2> QED
    BY <2>2 DEF Usable
<1>7. CASE n = 7
  <2>0. n # 1 /\ n # 2 /\ n # 3 /\ n # 4 /\ n # 5 /\ n # 6 /\ n # 8
    BY <1>7
  <2>1. f = "databasePath" \/ f = "scanLogFile"
    BY <1>7, <2>0, Zenon DEF Refused
  <2> QED
    BY <2>1 DEF Usable
<1>8. CASE n = 8
  <2>0. n # 1 /\ n # 2 /\ n # 3 /\ n # 4 /\ n # 5 /\ n # 6 /\ n # 7
    BY <1>8
  <2>1. f = "maxLogSizeMb"
    BY <1>8, <2>0, Zenon DEF Refused
  <2> QED
    BY <2>1 DEF Usable
<1>9. CASE n = 9
  <2>0. n # 1 /\ n # 2 /\ n # 3 /\ n # 4 /\ n # 5 /\ n # 6 /\ n # 7 /\ n # 8
    BY <1>9
  <2> QED
    BY <2>0, Zenon DEF Refused
<1> QED
  BY <1>1, <1>2, <1>3, <1>4, <1>5, <1>6, <1>7, <1>8, <1>9

(* saveToConfig() shows the page of the control it refuses, and the        *)
(* control is enabled, unless it belongs to updates that are off.          *)
THEOREM RefusalFixable == Spec => RefusalCanBeFixed
<1>1. [Next]_vars => [PreferencesRefused =>
         LET f == Refused(RefusedAt(ctl), ctl)
         IN  /\ f \in Page[page']
             /\ \/ Usable(ctl, f)
                \/ f \in {"updateFrequency", "scanDay"} /\ ~ctl.updateScheduled]_vars
  <2> SUFFICES ASSUME PreferencesRefused
               PROVE  LET f == Refused(RefusedAt(ctl), ctl)
                      IN  /\ f \in Page[page']
                          /\ \/ Usable(ctl, f)
                             \/ f \in {"updateFrequency", "scanDay"} /\ ~ctl.updateScheduled
    OBVIOUS
  <2> DEFINE n == RefusedAt(ctl)
  <2>1. n # 0 /\ page' = PageOf(Refused(n, ctl))
    BY DEF PreferencesRefused
  <2>2. n \in 1 .. 9 /\ Refused(n, ctl) # "none"
    BY <2>1, RefusedAtGroup
  <2> HIDE DEF n
  <2>3. Refused(n, ctl) \in Page[page']
    BY <2>1, <2>2, RefusedIsMarked, PageShows
  <2>4. \/ Usable(ctl, Refused(n, ctl))
        \/ Refused(n, ctl) \in {"updateFrequency", "scanDay"} /\ ~ctl.updateScheduled
    BY <2>2, RefusedIsUsable
  <2> QED
    BY <2>3, <2>4 DEF n
<1> QED
  BY <1>1, PTL DEF Spec, RefusalCanBeFixed

(* saveToConfig(), save() and load() together: what an accepted Save shows *)
(* is what the next start has, control for control.                        *)
THEOREM ShownIsSaved == Spec => SavedAsShown
<1> DEFINE Kept(f) ==
      /\ NextLoad'[f] = Settled(ini, saveToConfig(cfg, ctl, Len(Groups)))[f]
      /\ f \notin {"databasePath", "quarantinePath", "scanLogFile", "excludePatterns"}
           => NextLoad'[f] = IF f \in Limits THEN AtLeast0(ctl[f]) ELSE ctl[f]
<1>1. IInv /\ [Next]_vars => [PreferencesSaved =>
         \A f \in Controls :
            NextLoad'[f] = Settled(ini, saveToConfig(cfg, ctl, Len(Groups)))[f]
            /\ (f \notin {"databasePath", "quarantinePath", "scanLogFile",
                          "excludePatterns"}
                => NextLoad'[f] = IF f \in Limits THEN AtLeast0(ctl[f]) ELSE ctl[f])]_vars
  <2> SUFFICES ASSUME IInv, PreferencesSaved, NEW f \in Controls
               PROVE  Kept(f)
    OBVIOUS
  <2> DEFINE s == saveToConfig(cfg, ctl, Len(Groups))
  <2>1. /\ dlg = "prefs" /\ RefusedAt(ctl) = 0 /\ cfg' = s
        /\ ini' = ini
    BY DEF PreferencesSaved
  <2>2. PreferencesShown(ctl) /\ f \in Fields
    BY <2>1, ControlsAreFields DEF IInv, DialogInv
  <2>3. NextLoad' = Settled(ini, s)
    BY <2>1, ClosingStep
  <2>4. f \in UNION {Groups[i] : i \in 1 .. Len(Groups)}
    BY GroupsAre
  <2>5. /\ s = [g \in Fields |-> s[g]]
        /\ s[f] = IF f \in Limits THEN AtLeast0(ctl[f]) ELSE ctl[f]
    BY <2>2, <2>4 DEF saveToConfig
  <2> HIDE DEF s
  <2>6. Settled(ini, s) = [g \in Fields |-> SettledAt(ini, g, s[g])]
    BY <2>5, SettledByField
  <2>7. Settled(ini, s)[f] = SettledAt(ini, f, s[f])
    BY <2>2, <2>6
  <2>8. f \notin {"databasePath", "quarantinePath", "scanLogFile", "excludePatterns"}
          => SettledAt(ini, f, s[f]) = s[f]
    <3>1. CASE f = "maxLogSizeMb"
      <4>1. Refused(8, ctl) = "none"
        BY <2>1, AcceptedEverywhere
      <4>2. ctl.maxLogSizeMb \in 1 .. MaxMb
        BY <4>1 DEF Refused
      <4>3. s[f] >= 1 /\ s[f] \in Int
        BY <2>5, <3>1, <4>2, ConfigAssumption DEF Limits
      <4> QED
        BY <3>1, <4>3 DEF SettledAt
    <3>2. CASE f = "priority"
      <4>1. s[f] \in {"l", "n"}
        BY <2>2, <2>5, <3>2 DEF Limits, PreferencesShown, ValuesOf
      <4> QED
        BY <3>2, <4>1 DEF SettledAt
    <3>3. CASE f \notin {"maxLogSizeMb", "priority"}
      BY <3>3 DEF SettledAt
    <3> QED
      BY <3>1, <3>2, <3>3
  <2> QED
    BY <2>3, <2>5, <2>7, <2>8 DEF s
<1> QED
  BY <1>1, Invariance, PTL DEF Spec, SavedAsShown

=============================================================================
