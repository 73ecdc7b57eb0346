---------------------------- MODULE DesktopProofs ----------------------------
(* Proofs about Desktop: any number of launches, dialogs and messages, any *)
(* versions, folders, periods and command lines.                           *)
EXTENDS Desktop, FiniteSetTheorems, TLAPS

(* A message of the hidden window; a version that it announces is newer.   *)
Posted ==
    {Message(k) : k \in Commands \cup {"finished"}}
    \cup {<<"version", t>> : t \in {u \in Tags : isNewerVersion(u)}}

Dialogs == {"update", "prefs"} \X (Results \cup {"open"})
CommandLines == {{}} \cup UNION {w.lines : w \in Worlds}
Info == [main : BOOLEAN, daily : Stamps]
Places == {"idle", "cli", "create", "find", "post", "start", "loop", "close"}
Staying == {"start", "loop"}

LaunchOK ==
    /\ at \in [Launches -> Places] /\ args \in [Launches -> CommandLines]
    /\ target \in [Launches -> Launches \cup {Nobody}] /\ mutex \subseteq Launches

LoopOK ==
    /\ queue \in Seq(Posted) /\ dialogs \in Seq(Dialogs)
    /\ bg \in {"none", "running"} \cup Results /\ checking \in BOOLEAN

WindowOK ==
    /\ dash \in {"none", "shown", "hidden"} /\ room \in 0 .. 2 /\ adjusted \in BOOLEAN
    /\ banner \in Tags \cup {NoVersion} /\ info \in Info

DataOK ==
    /\ world \in Worlds /\ tip \in {"ok", "warn", "error"} /\ folder \in Folders
    /\ disk \in [Folders -> Folder] /\ now \in 0 .. Periods
    /\ unseen \subseteq {"dashboard", "tip"}

(* Who stays has the name, and nobody else stays.                          *)
MutexInv ==
    /\ \A l \in Launches : at[l] \in Staying => l \in mutex
    /\ \A l, k \in Launches : at[l] \in Staying /\ at[k] \in Staying => l = k

(* The dashboard is made higher for a banner once: when it is created, or  *)
(* when the version is announced.                                          *)
BannerInv ==
    /\ BannerHasRoom
    /\ adjusted => dash # "none" /\ banner # NoVersion
    /\ ~adjusted => room <= 1
    /\ banner # NoVersion => isNewerVersion(banner)

(* No database comes from the future.                                      *)
DiskInv == \A f \in Folders : disk[f].cld <= now /\ disk[f].cvd <= now

IInv ==
    /\ LaunchOK /\ LoopOK /\ WindowOK /\ DataOK
    /\ MutexInv /\ BannerInv /\ DiskInv /\ OwnUpdatesShown /\ TipWasTrue

-----------------------------------------------------------------------------
(* Messages.                                                               *)
LEMMA PostedKinds ==
    /\ \A k \in Commands \cup {"finished"} : Message(k) \in Posted
    /\ \A t \in Tags : isNewerVersion(t) => <<"version", t>> \in Posted
    /\ \A m \in Posted : m[1] = "version" => m[2] \in Tags /\ isNewerVersion(m[2])
    /\ Posted \subseteq Messages
  BY DEF Posted, Message, Messages, Commands

LEMMA PostTyped ==
    ASSUME queue \in Seq(Posted), NEW m \in Posted, Post(m)
    PROVE  queue' \in Seq(Posted)
  BY DEF Post

LEMMA TakeTyped ==
    ASSUME queue \in Seq(Posted), NEW kind, Take(kind)
    PROVE  queue' \in Seq(Posted) /\ Head(queue) \in Posted /\ Head(queue)[1] = kind
  BY DEF Take

(* What the program tells of a folder.                                     *)
LEMMA StatusTyped ==
    ASSUME NEW files \in Folder, NEW time \in 0 .. Periods
    PROVE  /\ GetDBInfo(files) \in Info
           /\ GetProtectionStatus(files, time) \in {"ok", "warn", "error"}
           /\ files.cld <= time /\ files.cvd <= time => GetDBInfo(files).daily <= time
  BY DEF Folder, Info, GetDBInfo, GetProtectionStatus

LEMMA NoFilesTyped == NoFiles \in Folder /\ GetDBInfo(NoFiles) \in Info
  BY DEF NoFiles, Folder, Stamps, None, GetDBInfo, Info

LEMMA Moved ==
    ASSUME at \in [Launches -> Places], NEW l \in Launches, NEW from, NEW to \in Places,
           Move(l, from, to)
    PROVE  /\ at' \in [Launches -> Places] /\ at[l] = from /\ at'[l] = to
           /\ \A k \in Launches : k # l => at'[k] = at[k]
  BY DEF Move

(* A newer version has the greater number.                                 *)
LEMMA NewerIsGreater ==
    ASSUME NEW t \in Tags, isNewerVersion(t) PROVE Value(t) > Value(Local)
<1>1. Base \in Nat \ {0} /\ t \in Seq(0 .. Base - 1) /\ Local \in Seq(0 .. Base - 1)
  BY DesktopAssumption
<1>2. \A n \in 1 .. 3 : Part(t, n) \in 0 .. Base - 1 /\ Part(Local, n) \in 0 .. Base - 1
  BY <1>1 DEF Part
<1> DEFINE a1 == Part(t, 1)   a2 == Part(t, 2)   a3 == Part(t, 3)
           b1 == Part(Local, 1)   b2 == Part(Local, 2)   b3 == Part(Local, 3)
           a == Base * a1 + a2   b == Base * b1 + b2
<1>3. /\ a1 \in Nat /\ a2 \in Nat /\ a3 \in Nat /\ b1 \in Nat /\ b2 \in Nat /\ b3 \in Nat
      /\ a2 < Base /\ a3 < Base /\ b2 < Base /\ b3 < Base
  BY <1>1, <1>2
<1>4. \/ a1 > b1
      \/ a1 = b1 /\ a2 > b2
      \/ a1 = b1 /\ a2 = b2 /\ a3 > b3
  <2>1. PICK n \in 1 .. 3 : /\ Part(t, n) > Part(Local, n)
                            /\ \A k \in 1 .. n - 1 : Part(t, k) = Part(Local, k)
    BY DEF isNewerVersion
  <2>2. n = 1 \/ n = 2 \/ n = 3
    OBVIOUS
  <2>3. QED
    BY <2>1, <2>2
<1>5. Value(t) = Base * a + a3 /\ Value(Local) = Base * b + b3
  BY DEF Value
<1> HIDE DEF a1, a2, a3, b1, b2, b3
<1>6. \A x, y \in Nat : x > y => Base * x \in Nat /\ Base * y \in Nat /\ Base * x >= Base * y + Base
  <2>1. ASSUME NEW x \in Nat, NEW y \in Nat, x > y PROVE Base * x >= Base * y + Base
    <3>1. x - y - 1 \in Nat /\ x = y + 1 + (x - y - 1)
      BY <2>1
    <3>2. Base * x = Base * y + Base + Base * (x - y - 1)
      BY <1>1, <3>1, Z3
    <3>3. Base * (x - y - 1) \in Nat /\ Base * y \in Nat
      BY <1>1, <3>1
    <3>4. QED
      BY <1>1, <3>2, <3>3
  <2>2. QED
    BY <1>1, <2>1
<1> DEFINE p1 == Base * a1   q1 == Base * b1   p == Base * a   q == Base * b
<1>7. a \in Nat /\ b \in Nat /\ (a > b \/ (a = b /\ a3 > b3))
  <2>1. p1 \in Nat /\ q1 \in Nat /\ a = p1 + a2 /\ b = q1 + b2
    BY <1>1, <1>3
  <2>2. a1 > b1 => p1 >= q1 + Base
    BY <1>3, <1>6
  <2>3. a1 = b1 => p1 = q1
    OBVIOUS
  <2> HIDE DEF p1, q1, a, b
  <2>4. QED
    BY <1>1, <1>3, <1>4, <2>1, <2>2, <2>3
<1> HIDE DEF a, b
<1>8. p \in Nat /\ q \in Nat /\ (a > b => p >= q + Base) /\ (a = b => p = q)
  <2>1. p \in Nat /\ q \in Nat
    BY <1>1, <1>7
  <2>2. a > b => p >= q + Base
    BY <1>6, <1>7
  <2>3. QED
    BY <2>1, <2>2
<1>9. Value(t) = p + a3 /\ Value(Local) = q + b3
  BY <1>5
<1> HIDE DEF p, q
<1>10. QED
  BY <1>1, <1>3, <1>7, <1>8, <1>9

-----------------------------------------------------------------------------
(* One instance.                                                           *)
LEMMA LaunchStep == ASSUME IInv, Next PROVE LaunchOK' /\ MutexInv'
<1>0. /\ at \in [Launches -> Places] /\ args \in [Launches -> CommandLines]
      /\ target \in [Launches -> Launches \cup {Nobody}] /\ mutex \subseteq Launches
      /\ world \in Worlds /\ {} \in CommandLines
  BY DEF IInv, LaunchOK, DataOK, CommandLines
<1>1. ASSUME NEW l \in Launches, NEW from, NEW to \in Places, Move(l, from, to),
             args' \in [Launches -> CommandLines],
             target' \in [Launches -> Launches \cup {Nobody}],
             \/ to \notin Staying /\ mutex \subseteq mutex' /\ mutex' \subseteq Launches
             \/ to \in Staying /\ from \in Staying /\ mutex' = mutex
             \/ to \in Staying /\ mutex = {} /\ mutex' = {l}
             \/ to \notin Staying /\ mutex' = mutex \ {l}
      PROVE  LaunchOK' /\ MutexInv'
  <2>1. /\ at' \in [Launches -> Places] /\ at[l] = from /\ at'[l] = to
        /\ \A k \in Launches : k # l => at'[k] = at[k]
    BY <1>0, <1>1, Moved
  <2>2. LaunchOK'
    BY <1>0, <1>1, <2>1 DEF LaunchOK
  <2>3. MutexInv'
    BY <1>1, <2>1 DEF IInv, MutexInv
  <2>4. QED
    BY <2>2, <2>3
<1>2. ASSUME NEW l \in Launches, Process(l) PROVE LaunchOK' /\ MutexInv'
  <2>1. CASE Launch(l)
    <3>1. PICK a \in world.lines :
            /\ args' = [args EXCEPT ![l] = a]
            /\ Move(l, "idle", IF a \cap CliModes # {} THEN "cli" ELSE "create")
      BY <2>1 DEF Launch
    <3>2. a \in CommandLines /\ UNCHANGED <<target, mutex>>
      BY <1>0, <2>1 DEF CommandLines, Launch
    <3>3. args' \in [Launches -> CommandLines]
      BY <1>0, <3>1, <3>2
    <3>4. (IF a \cap CliModes # {} THEN "cli" ELSE "create") \in Places \ Staying
      BY DEF Places, Staying
    <3>5. QED
      BY <1>0, <1>1, <3>1, <3>2, <3>3, <3>4
  <2>2. CASE CliEnds(l)
    BY <1>0, <1>1, <2>2 DEF CliEnds, Places, Staying
  <2>3. CASE CreateMutex(l)
    <3>1. CASE AlreadyExists
      <4>1. Move(l, "create", "find") /\ mutex' = mutex \cup {l} /\ UNCHANGED <<args, target>>
        BY <2>3, <3>1 DEF CreateMutex
      <4>2. QED
        BY <1>0, <1>1, <4>1 DEF Places, Staying
    <3>2. CASE ~AlreadyExists
      <4>1. /\ Move(l, "create", "start") /\ mutex = {} /\ mutex' = {l}
            /\ UNCHANGED <<args, target>>
        BY <2>3, <3>2 DEF CreateMutex, AlreadyExists
      <4>2. QED
        BY <1>0, <1>1, <4>1 DEF Places, Staying
    <3>3. QED
      BY <3>1, <3>2
  <2>4. CASE FindWindow(l)
    <3>1. PICK to \in {"post", "close"} : Move(l, "find", to)
      BY <2>4 DEF FindWindow
    <3>2. target' \in [Launches -> Launches \cup {Nobody}] /\ UNCHANGED <<args, mutex>>
      BY <1>0, <2>4 DEF FindWindow
    <3>3. QED
      BY <1>0, <1>1, <3>1, <3>2 DEF Places, Staying
  <2>5. CASE PostRequest(l)
    BY <1>0, <1>1, <2>5 DEF PostRequest, Places, Staying
  <2>6. CASE CloseHandle(l)
    <3>1. /\ Move(l, "close", "idle") /\ mutex' = mutex \ {l}
          /\ args' \in [Launches -> CommandLines]
          /\ target' \in [Launches -> Launches \cup {Nobody}]
      BY <1>0, <2>6 DEF CloseHandle
    <3>2. QED
      BY <1>1, <3>1 DEF Places, Staying
  <2>7. CASE Start(l)
    <3>1. Move(l, "start", "loop") /\ UNCHANGED <<args, target, mutex>>
      BY <2>7 DEF Start
    <3>2. QED
      BY <1>0, <1>1, <3>1 DEF Places, Staying
  <2>8. CASE StartFailed(l)
    BY <1>0, <1>1, <2>8 DEF StartFailed, Places, Staying
  <2>9. QED
    BY <1>2, <2>1, <2>2, <2>3, <2>4, <2>5, <2>6, <2>7, <2>8 DEF Process
<1>3. CASE OnExit
  <2>1. /\ at' = [l \in Launches |-> IF at[l] = "loop" THEN "close" ELSE at[l]]
        /\ UNCHANGED <<args, target, mutex>>
    BY <1>3 DEF OnExit
  <2>2. LaunchOK'
    BY <1>0, <2>1 DEF LaunchOK, Places
  <2>3. \A l \in Launches : at'[l] \in Staying => at[l] \in Staying
    BY <2>1 DEF Staying
  <2>4. MutexInv'
    BY <2>1, <2>3 DEF IInv, MutexInv
  <2>5. QED
    BY <2>2, <2>4
<1>4. CASE UNCHANGED launch
  BY <1>4 DEF IInv, LaunchOK, MutexInv, launch
<1>5. UserInterface => OnExit \/ UNCHANGED launch
  BY DEF UserInterface, doOpenDashboard, Hide, OpenDialog, Return, doScheduledUpdate,
         onBgTaskFinished, CheckVersion, setUpdateAvailable
<1>6. Next => \/ \E l \in Launches : Process(l)
              \/ UserInterface
              \/ UNCHANGED launch
  BY DEF Next, EndDialog, Command, BgEnds, CheckEnds, FreshclamStep, TimePasses
<1>7. QED
  BY <1>2, <1>3, <1>4, <1>5, <1>6

-----------------------------------------------------------------------------
(* Messages and dialogs.                                                   *)
LEMMA QueueStep == ASSUME IInv, Next PROVE queue' \in Seq(Posted)
<1>0. queue \in Seq(Posted) /\ world \in Worlds
  BY DEF IInv, LoopOK, DataOK
<1>1. ASSUME NEW m \in Posted, Post(m) PROVE queue' \in Seq(Posted)
  BY <1>0, <1>1, PostTyped
<1>2. ASSUME NEW kind, Take(kind) PROVE queue' \in Seq(Posted)
  BY <1>0, <1>2, TakeTyped
<1>3. Open \in Posted /\ Update \in Posted /\ Check \in Posted
  BY PostedKinds DEF Open, Update, Check, Commands
<1>4. ASSUME NEW l \in Launches, Process(l) PROVE queue' \in Seq(Posted)
  <2>1. CASE PostRequest(l)
    <3>1. Request(args[l]) \in Posted
      BY <1>3 DEF Request
    <3>2. QED
      BY <1>0, <1>1, <2>1, <3>1 DEF PostRequest
  <2>2. CASE Start(l)
    <3> DEFINE q1 == IF "open" \in args[l] THEN <<Open>> ELSE <<>>
               q2 == IF "download" \in args[l] THEN <<Update>> ELSE <<>>
               q3 == IF "check" \in args[l] THEN <<Check>> ELSE <<>>
    <3>1. PICK q4 \in {<<>>, <<Update>>} : queue' = q1 \o q2 \o q3 \o q4
      BY <2>2 DEF Start
    <3>2. q1 \in Seq(Posted) /\ q2 \in Seq(Posted) /\ q3 \in Seq(Posted)
          /\ q4 \in Seq(Posted)
      <4>1. <<>> \in Seq(Posted) /\ \A m \in Posted : <<m>> \in Seq(Posted)
        OBVIOUS
      <4>2. QED
        BY <1>3, <4>1
    <3> HIDE DEF q1, q2, q3
    <3>3. QED
      BY <3>1, <3>2
  <2>3. CASE UNCHANGED queue
    BY <1>0, <2>3
  <2>4. QED
    BY <1>4, <2>1, <2>2, <2>3
       DEF Process, Launch, CliEnds, CreateMutex, FindWindow, CloseHandle, StartFailed,
           loop
<1>5. ASSUME UserInterface PROVE queue' \in Seq(Posted)
  <2>1. \/ \E kind : Take(kind)
        \/ UNCHANGED queue
        \/ OnExit
    BY <1>5 DEF UserInterface, doOpenDashboard, Hide, OpenDialog, Return, loop,
                doScheduledUpdate, onBgTaskFinished, CheckVersion, setUpdateAvailable
  <2>2. QED
    <3>1. CASE OnExit
      <4>1. queue' = <<>>
        BY <3>1 DEF OnExit
      <4>2. QED
        BY <1>3, <4>1
    <3>2. QED
      BY <1>0, <1>2, <2>1, <3>1
<1>6. ASSUME NEW k \in world.commands, Command(k) PROVE queue' \in Seq(Posted)
  <2>1. k \in Commands
    BY <1>0, DesktopAssumption
  <2>2. QED
    BY <1>1, <1>6, <2>1, PostedKinds DEF Command
<1>7. CASE BgEnds
  <2>1. Message("finished") \in Posted
    BY PostedKinds
  <2>2. QED
    BY <1>1, <1>7, <2>1 DEF BgEnds
<1>8. CASE CheckEnds
  <2>1. ASSUME NEW t \in world.tags, isNewerVersion(t) PROVE <<"version", t>> \in Posted
    BY <1>0, <2>1, PostedKinds DEF Tags
  <2>2. QED
    BY <1>0, <1>1, <1>8, <2>1 DEF CheckEnds
<1>9. CASE (\E i \in DOMAIN dialogs : EndDialog(i)) \/ FreshclamStep \/ TimePasses
  BY <1>0, <1>9 DEF EndDialog, FreshclamStep, TimePasses, loop
<1>10. QED
  BY <1>4, <1>5, <1>6, <1>7, <1>8, <1>9 DEF Next

(* The dialogs, and what of them is an update of this instance.            *)
Updates(ds) == \E i \in DOMAIN ds : ds[i][1] = "update"

LEMMA DialogOpens ==
    ASSUME NEW ds \in Seq(Dialogs), NEW d \in Dialogs
    PROVE  Append(ds, d) \in Seq(Dialogs) /\ (Updates(ds) => Updates(Append(ds, d)))
  BY DEF Updates

LEMMA DialogEnds ==
    ASSUME NEW ds \in Seq(Dialogs), NEW i \in DOMAIN ds, NEW r \in Results
    PROVE  /\ [ds EXCEPT ![i] = <<@[1], r>>] \in Seq(Dialogs)
           /\ Updates([ds EXCEPT ![i] = <<@[1], r>>]) <=> Updates(ds)
<1> DEFINE d == <<ds[i][1], r>>
           qs == [ds EXCEPT ![i] = d]
<1>1. ds[i] \in Dialogs /\ ds[i][1] \in {"update", "prefs"}
  BY DEF Dialogs
<1>2. d \in Dialogs /\ d[1] = ds[i][1]
  BY <1>1 DEF Dialogs
<1> HIDE DEF d
<1>3. qs \in Seq(Dialogs) /\ DOMAIN qs = DOMAIN ds
  BY <1>2
<1>4. \A j \in DOMAIN ds : qs[j][1] = ds[j][1]
  BY <1>2
<1>5. Updates(qs) <=> Updates(ds)
  BY <1>3, <1>4 DEF Updates
<1>6. QED
  BY <1>3, <1>5 DEF d

LEMMA DialogReturns ==
    ASSUME NEW ds \in Seq(Dialogs), ds # <<>>
    PROVE  /\ ds[Len(ds)] \in Dialogs
           /\ SubSeq(ds, 1, Len(ds) - 1) \in Seq(Dialogs)
           /\ Updates(ds) => ds[Len(ds)][1] = "update" \/ Updates(SubSeq(ds, 1, Len(ds) - 1))
<1>1. Len(ds) \in Nat \ {0} /\ DOMAIN ds = 1 .. Len(ds)
  OBVIOUS
<1>2. ds[Len(ds)] \in Dialogs
  BY <1>1
<1> DEFINE qs == SubSeq(ds, 1, Len(ds) - 1)
<1>3. qs = [i \in 1 .. Len(ds) - 1 |-> ds[i]]
  BY <1>1 DEF SubSeq
<1>4. \A i \in 1 .. Len(ds) - 1 : ds[i] \in Dialogs
  BY <1>1
<1>5. Len(ds) - 1 \in Nat
  BY <1>1
<1>6. qs \in Seq(Dialogs) /\ DOMAIN qs = 1 .. Len(ds) - 1
  BY <1>3, <1>4, <1>5
<1>7. ASSUME NEW i \in DOMAIN ds, ds[i][1] = "update", ds[Len(ds)][1] # "update"
      PROVE  i \in DOMAIN qs /\ qs[i][1] = "update"
  BY <1>1, <1>3, <1>6, <1>7
<1>8. QED
  BY <1>2, <1>6, <1>7 DEF Updates

(* What a step does to the dialogs and to the background update: what was  *)
(* an update goes on, but for one that returns or has finished.            *)
LEMMA LoopStep ==
    ASSUME IInv, Next
    PROVE  /\ LoopOK'
           /\ \/ Updates(dialogs) => Updates(dialogs')
              \/ Return /\ dialogs[Len(dialogs)][1] = "update"
              \/ OnExit
           /\ bg # "none" => bg' # "none" \/ onBgTaskFinished \/ OnExit
<1>0. /\ queue' \in Seq(Posted) /\ dialogs \in Seq(Dialogs)
      /\ bg \in {"none", "running"} \cup Results /\ checking \in BOOLEAN
  BY QueueStep DEF IInv, LoopOK
<1>1. CASE \E k \in {"update", "prefs"} : OpenDialog(k)
  <2>1. PICK k \in {"update", "prefs"} : OpenDialog(k)
    BY <1>1
  <2>2. <<k, "open">> \in Dialogs /\ dialogs' = Append(dialogs, <<k, "open">>)
        /\ UNCHANGED <<bg, checking>>
    BY <2>1 DEF OpenDialog, Dialogs
  <2>3. QED
    BY <1>0, <2>2, DialogOpens DEF LoopOK
<1>2. CASE \E i \in DOMAIN dialogs : EndDialog(i)
  <2>1. PICK i \in DOMAIN dialogs : EndDialog(i)
    BY <1>2
  <2>2. PICK r \in Results : dialogs' = [dialogs EXCEPT ![i] = <<@[1], r>>]
    BY <2>1 DEF EndDialog
  <2>3. UNCHANGED <<bg, checking>>
    BY <2>1 DEF EndDialog
  <2>4. QED
    BY <1>0, <2>2, <2>3, DialogEnds DEF LoopOK
<1>3. CASE Return
  <2>1. /\ dialogs # <<>> /\ dialogs' = SubSeq(dialogs, 1, Len(dialogs) - 1)
        /\ UNCHANGED <<bg, checking>>
    BY <1>3 DEF Return
  <2>2. QED
    BY <1>0, <1>3, <2>1, DialogReturns DEF LoopOK
<1>4. CASE OnExit
  <2>1. dialogs' = <<>> /\ bg' = "none" /\ checking' = FALSE
    BY <1>4 DEF OnExit
  <2>2. dialogs' \in Seq(Dialogs)
    BY <2>1
  <2>3. checking' \in BOOLEAN
    BY <2>1
  <2>4. QED
    BY <1>0, <1>4, <2>1, <2>2, <2>3 DEF LoopOK
<1>5. CASE doScheduledUpdate \/ onBgTaskFinished \/ CheckVersion \/ BgEnds \/ CheckEnds
  <2>1. UNCHANGED dialogs
    BY <1>5 DEF doScheduledUpdate, onBgTaskFinished, CheckVersion, BgEnds, CheckEnds
  <2>2. bg' \in {"none", "running"} \cup Results
        /\ (bg # "none" => bg' # "none" \/ onBgTaskFinished)
    BY <1>0, <1>5
       DEF doScheduledUpdate, onBgTaskFinished, CheckVersion, BgEnds, CheckEnds, Results
  <2>3. checking' = checking \/ checking' = TRUE \/ checking' = FALSE
    BY <1>5 DEF doScheduledUpdate, onBgTaskFinished, CheckVersion, BgEnds, CheckEnds
  <2>4. checking' \in BOOLEAN
    BY <1>0, <2>3
  <2>5. QED
    BY <1>0, <2>1, <2>2, <2>4 DEF LoopOK
<1>6. CASE UNCHANGED <<dialogs, bg, checking>>
  BY <1>0, <1>6 DEF LoopOK
<1>7. UserInterface =>
        \/ \E k \in {"update", "prefs"} : OpenDialog(k)
        \/ Return \/ OnExit \/ doScheduledUpdate \/ onBgTaskFinished \/ CheckVersion
        \/ UNCHANGED <<dialogs, bg, checking>>
  BY DEF UserInterface, doOpenDashboard, Hide, setUpdateAvailable, loop
<1>8. (\E l \in Launches : Process(l)) => UNCHANGED <<dialogs, bg, checking>>
  BY DEF Process, Launch, CliEnds, CreateMutex, FindWindow, PostRequest, CloseHandle,
         Start, StartFailed, loop
<1>9. (\E k : Command(k)) \/ FreshclamStep \/ TimePasses =>
        UNCHANGED <<dialogs, bg, checking>>
  BY DEF Command, FreshclamStep, TimePasses, loop
<1>10. QED
  BY <1>1, <1>2, <1>3, <1>4, <1>5, <1>6, <1>7, <1>8, <1>9 DEF Next

-----------------------------------------------------------------------------
(* The dashboard's window and its banner.                                  *)
LEMMA WindowStep == ASSUME IInv, Next PROVE WindowOK' /\ BannerInv'
<1>0. /\ dash \in {"none", "shown", "hidden"} /\ room \in 0 .. 2 /\ adjusted \in BOOLEAN
      /\ banner \in Tags \cup {NoVersion} /\ info \in Info
      /\ queue \in Seq(Posted) /\ NoVersion \notin Tags
      /\ disk[folder] \in Folder /\ now \in 0 .. Periods
  BY DesktopAssumption DEF IInv, WindowOK, LoopOK, DataOK
<1>1. GetDBInfo(disk[folder]) \in Info
  BY <1>0, StatusTyped
<1>2. CASE doOpenDashboard
  <2>1. CASE dash = "none"
    <3>1. /\ info' = GetDBInfo(disk[folder])
          /\ UNCHANGED <<adjusted, banner>>
          /\ \/ dash' = "shown" /\ room' = InitialRoom
             \/ UNCHANGED <<dash, room>>
      BY <1>2, <2>1 DEF doOpenDashboard, OpenWindow, refreshStatus
    <3>2. ~adjusted
      BY <2>1 DEF IInv, BannerInv
    <3>3. CASE dash' = "shown" /\ room' = InitialRoom
      BY <1>0, <1>1, <3>1, <3>2, <3>3
         DEF IInv, WindowOK, BannerInv, BannerHasRoom, InitialRoom
    <3>4. CASE UNCHANGED <<dash, room>>
      BY <1>0, <1>1, <2>1, <3>1, <3>2, <3>4
         DEF IInv, WindowOK, BannerInv, BannerHasRoom
    <3>5. QED
      BY <3>1, <3>3, <3>4
  <2>2. CASE dash # "none"
    <3>1. dash' = "shown" /\ UNCHANGED <<room, info, adjusted, banner>>
      BY <1>2, <2>2 DEF doOpenDashboard
    <3>2. QED
      BY <1>0, <2>2, <3>1 DEF IInv, WindowOK, BannerInv, BannerHasRoom
  <2>3. QED
    BY <2>1, <2>2
<1>3. CASE Hide
  <2>1. /\ dash # "none" /\ dash' = "hidden" /\ UNCHANGED <<room, info, adjusted, banner>>
    BY <1>3 DEF Hide
  <2>2. QED
    BY <1>0, <2>1 DEF IInv, WindowOK, BannerInv, BannerHasRoom
<1>4. CASE UNCHANGED <<dash, room, adjusted, banner>> /\ info' \in Info
  BY <1>0, <1>4 DEF IInv, WindowOK, BannerInv, BannerHasRoom
<1>5. CASE setUpdateAvailable
  <2>1. /\ banner' = Head(queue)[2] /\ UNCHANGED <<dash, info>>
        /\ adjusted' = (adjusted \/ dash # "none")
        /\ room' = IF dash # "none" /\ ~adjusted THEN room + 1 ELSE room
        /\ Take("version")
    BY <1>5 DEF setUpdateAvailable
  <2>2. banner' \in Tags /\ isNewerVersion(banner') /\ banner' # NoVersion
    BY <1>0, <2>1, TakeTyped, PostedKinds
  <2>3. adjusted' \in BOOLEAN /\ (adjusted' <=> adjusted \/ dash # "none")
    BY <2>1
  <2>4. CASE dash # "none" /\ ~adjusted
    <3>1. room' = room + 1 /\ room <= 1 /\ room \in Nat
      BY <1>0, <2>1, <2>4 DEF IInv, BannerInv
    <3>2. QED
      BY <1>0, <2>1, <2>2, <2>3, <2>4, <3>1 DEF WindowOK, BannerInv, BannerHasRoom
  <2>5. CASE dash = "none"
    BY <1>0, <2>1, <2>2, <2>3, <2>5 DEF IInv, WindowOK, BannerInv, BannerHasRoom
  <2>6. CASE dash # "none" /\ adjusted
    <3>1. room' = room /\ room > 0
      BY <2>1, <2>6 DEF IInv, BannerInv, BannerHasRoom
    <3>2. QED
      BY <1>0, <2>1, <2>2, <2>3, <2>6, <3>1 DEF WindowOK, BannerInv, BannerHasRoom
  <2>7. QED
    BY <2>4, <2>5, <2>6
<1>6. CASE OnExit
  <2>1. /\ dash' = "none" /\ room' = 0 /\ adjusted' = FALSE /\ banner' = NoVersion
        /\ info' \in Info
    BY <1>6, NoFilesTyped DEF OnExit
  <2>2. adjusted' \in BOOLEAN /\ ~adjusted'
    BY <2>1
  <2>3. QED
    BY <2>1, <2>2 DEF WindowOK, BannerInv, BannerHasRoom
<1>7. UserInterface =>
        \/ doOpenDashboard \/ Hide \/ setUpdateAvailable \/ OnExit
        \/ UNCHANGED <<dash, room, adjusted, banner>> /\ info' \in Info
  <2>1. (\E k : OpenDialog(k)) \/ doScheduledUpdate \/ CheckVersion =>
          UNCHANGED <<dash, room, adjusted, banner>> /\ info' \in Info
    BY <1>0 DEF OpenDialog, doScheduledUpdate, CheckVersion, window
  <2>2. Return \/ onBgTaskFinished =>
          UNCHANGED <<dash, room, adjusted, banner>> /\ info' \in Info
    BY <1>0, <1>1 DEF Return, onBgTaskFinished, AfterUpdate, refreshStatus
  <2>3. QED
    BY <2>1, <2>2 DEF UserInterface
<1>8. (\E l \in Launches : Process(l)) =>
        UNCHANGED <<dash, room, adjusted, banner>> /\ info' \in Info
  BY <1>0 DEF Process, Launch, CliEnds, CreateMutex, FindWindow, PostRequest, CloseHandle,
              Start, StartFailed, window
<1>9. \/ \E i \in DOMAIN dialogs : EndDialog(i)
      \/ \E k : Command(k)
      \/ BgEnds \/ CheckEnds \/ FreshclamStep \/ TimePasses
      => UNCHANGED <<dash, room, adjusted, banner>> /\ info' \in Info
  BY <1>0 DEF EndDialog, Command, BgEnds, CheckEnds, FreshclamStep, TimePasses, window
<1>10. QED
  BY <1>2, <1>3, <1>4, <1>5, <1>6, <1>7, <1>8, <1>9 DEF Next

-----------------------------------------------------------------------------
(* The databases: they are written at some time until now.                 *)
LEMMA FilesStay ==
    ASSUME DataOK, DiskInv, FreshclamStep
    PROVE  disk' \in [Folders -> Folder] /\ DiskInv'
<1>1. /\ disk \in [Folders -> Folder] /\ folder \in Folders /\ now \in 0 .. Periods
      /\ now \in Stamps /\ None \in Stamps /\ None <= now /\ now' = now
  BY DEF DataOK, Stamps, None, FreshclamStep
<1>2. PICK new \in Replaced(disk[folder]) : disk' = [disk EXCEPT ![folder] = new]
  BY DEF FreshclamStep
<1>3. /\ disk[folder] \in Folder
      /\ disk[folder].cld <= now /\ disk[folder].cvd <= now
  BY <1>1 DEF DiskInv
<1>4. new \in Folder /\ new.cld <= now /\ new.cvd <= now
  <2> DEFINE old == disk[folder]
  <2>1. old \in Folder /\ old.cld <= now /\ old.cvd <= now
    BY <1>3
  <2>2. \/ new = [old EXCEPT !.main = TRUE]
        \/ new = [old EXCEPT !.cld = now] \/ new = [old EXCEPT !.cvd = now]
        \/ new = [old EXCEPT !.cld = None] \/ new = [old EXCEPT !.cvd = None]
    BY <1>2 DEF Replaced
  <2> HIDE DEF old
  <2>3. CASE new = [old EXCEPT !.main = TRUE]
    <3>1. new.main \in BOOLEAN /\ new.cld = old.cld /\ new.cvd = old.cvd
      BY <2>1, <2>3 DEF Folder
    <3>2. new = [main |-> new.main, cld |-> old.cld, cvd |-> old.cvd]
      BY <2>1, <2>3 DEF Folder
    <3>3. old.cld \in Stamps /\ old.cvd \in Stamps
      BY <2>1 DEF Folder
    <3>4. QED
      BY <2>1, <3>1, <3>2, <3>3 DEF Folder
  <2>4. ASSUME NEW s \in Stamps, s <= now,
               new = [old EXCEPT !.cld = s] \/ new = [old EXCEPT !.cvd = s]
        PROVE  new \in Folder /\ new.cld <= now /\ new.cvd <= now
    BY <2>1, <2>4 DEF Folder
  <2>5. QED
    BY <1>1, <2>2, <2>3, <2>4
<1>5. QED
  BY <1>1, <1>2, <1>4 DEF DiskInv

LEMMA DataStep == ASSUME IInv, Next PROVE DataOK' /\ DiskInv'
<1>0. /\ world \in Worlds /\ tip \in {"ok", "warn", "error"} /\ folder \in Folders
      /\ disk \in [Folders -> Folder] /\ now \in 0 .. Periods
      /\ unseen \subseteq {"dashboard", "tip"} /\ disk[folder] \in Folder
      /\ Status \in {"ok", "warn", "error"}
  BY StatusTyped DEF IInv, DataOK, Status
<1>1. ASSUME tip' \in {"ok", "warn", "error"}, unseen' \subseteq {"dashboard", "tip"},
             UNCHANGED <<folder, disk, now, world>>
      PROVE  DataOK' /\ DiskInv'
  BY <1>0, <1>1 DEF IInv, DataOK, DiskInv
<1>2. CASE \E i \in DOMAIN dialogs : EndDialog(i)
  <2>1. PICK i \in DOMAIN dialogs : EndDialog(i)
    BY <1>2
  <2>2. /\ folder' = folder \/ folder' \in world.folders
        /\ unseen' = unseen \/ unseen' = {"dashboard", "tip"}
        /\ UNCHANGED <<tip, disk, now, world>>
    BY <2>1 DEF EndDialog, data
  <2>3. folder' \in Folders
    BY <1>0, <2>2, DesktopAssumption
  <2>4. QED
    BY <1>0, <2>2, <2>3 DEF IInv, DataOK, DiskInv
<1>3. CASE FreshclamStep
  <2>1. UNCHANGED <<tip, folder, world, now>> /\ unseen' \subseteq {"dashboard", "tip"}
    BY <1>0, <1>3 DEF FreshclamStep
  <2>2. disk' \in [Folders -> Folder] /\ DiskInv'
    BY <1>3, FilesStay DEF IInv
  <2>3. QED
    BY <1>0, <2>1, <2>2 DEF DataOK
<1>4. CASE TimePasses
  <2>1. UNCHANGED <<tip, folder, world, disk, unseen>> /\ now' = now + 1
        /\ now < world.until /\ world.until \in 0 .. Periods
    BY <1>0, <1>4, DesktopAssumption DEF TimePasses
  <2>2. Periods \in Nat /\ now' \in 0 .. Periods
    BY <1>0, <2>1, ProtectionAssumption
  <2>3. DiskInv'
    <3>1. ASSUME NEW f \in Folders PROVE disk'[f].cld <= now' /\ disk'[f].cvd <= now'
      <4>1. disk[f] \in Folder /\ disk[f].cld <= now /\ disk[f].cvd <= now
        BY <1>0 DEF IInv, DiskInv
      <4>2. disk[f].cld \in Int /\ disk[f].cvd \in Int
        BY <4>1 DEF Folder, Stamps, None
      <4>3. QED
        BY <1>0, <2>1, <4>1, <4>2
    <3>2. QED
      BY <3>1 DEF DiskInv
  <2>4. QED
    BY <1>0, <2>1, <2>2, <2>3 DEF DataOK
<1>5. CASE UserInterface
  <2>1. UNCHANGED <<folder, disk, now, world>>
    BY <1>5 DEF UserInterface, doOpenDashboard, OpenWindow, Hide, OpenDialog, Return, doScheduledUpdate,
                onBgTaskFinished, CheckVersion, setUpdateAvailable, OnExit, data
  <2>2. tip' = tip \/ tip' = Status \/ tip' = "error"
    BY <1>5 DEF UserInterface, doOpenDashboard, OpenWindow, Hide, OpenDialog, Return, doScheduledUpdate,
                onBgTaskFinished, CheckVersion, setUpdateAvailable, OnExit, AfterUpdate,
                updateTrayTip
  <2>3. \/ unseen' \subseteq unseen
        \/ unseen' = (unseen \cup {"dashboard"}) \ {"tip"}
    BY <1>5 DEF UserInterface, doOpenDashboard, OpenWindow, Hide, OpenDialog, Return, doScheduledUpdate,
                onBgTaskFinished, CheckVersion, setUpdateAvailable, OnExit, AfterUpdate,
                updateTrayTip
  <2>4. tip' \in {"ok", "warn", "error"} /\ unseen' \subseteq {"dashboard", "tip"}
    BY <1>0, <2>2, <2>3
  <2>5. QED
    BY <1>1, <2>1, <2>4
<1>6. CASE \E l \in Launches : Process(l)
  <2>1. UNCHANGED <<folder, disk, now, world, unseen>> /\ (tip' = tip \/ tip' = Status)
    BY <1>6 DEF Process, Launch, CliEnds, CreateMutex, FindWindow, PostRequest,
                CloseHandle, Start, StartFailed, data
  <2>2. QED
    BY <1>0, <1>1, <2>1
<1>7. CASE (\E k : Command(k)) \/ BgEnds \/ CheckEnds
  <2>1. UNCHANGED <<folder, disk, now, world, unseen, tip>>
    BY <1>7 DEF Command, BgEnds, CheckEnds, data
  <2>2. QED
    BY <1>0, <1>1, <2>1
<1>8. QED
  BY <1>2, <1>3, <1>4, <1>5, <1>6, <1>7 DEF Next

-----------------------------------------------------------------------------
(* What dashboard and tip say.  An update of this instance stays one until *)
(* its dialog returns or its end is handled, and both tell what it did.    *)
LEMMA OwnUpdateIs == OwnUpdate <=> bg # "none" \/ Updates(dialogs)
  BY DEF OwnUpdate, Updates

LEMMA OwnUpdateStep ==
    ASSUME IInv, Next
    PROVE  OwnUpdate => \/ OwnUpdate'
                        \/ Return /\ dialogs[Len(dialogs)][1] = "update"
                        \/ onBgTaskFinished \/ OnExit
<1>1. OwnUpdate' <=> bg' # "none" \/ Updates(dialogs')
  BY DEF OwnUpdate, Updates
<1>2. QED
  BY <1>1, OwnUpdateIs, LoopStep

LEMMA FreshclamIsOwn == ASSUME IInv, OwnFreshclam PROVE OwnUpdate
  BY DEF OwnFreshclam, OwnUpdate

(* Steps that change neither the databases nor what is said of them.       *)
LEMMA Untold ==
    ASSUME IInv, Next, UNCHANGED <<info, tip, folder, disk, now>>, unseen \subseteq unseen',
           ~Return, ~onBgTaskFinished, ~OnExit,
           dash' # "none" => dash # "none", Up' => Up
    PROVE  OwnUpdatesShown' /\ TipWasTrue'
<1>1. OwnUpdate => OwnUpdate'
  BY OwnUpdateStep
<1>2. OwnUpdatesShown'
  BY <1>1 DEF IInv, OwnUpdatesShown
<1>3. TipWasTrue'
  BY <1>1 DEF IInv, TipWasTrue
<1>4. QED
  BY <1>2, <1>3

(* The tip that has just been set is true.                                 *)
LEMMA TipIsTrue ==
    ASSUME IInv, tip' = Status, UNCHANGED <<folder, disk, now>> PROVE TipWasTrue'
<1>1. /\ now \in 0 .. Periods /\ folder \in Folders /\ disk[folder] \in Folder
      /\ disk[folder].cld <= now /\ disk[folder].cvd <= now
  BY DEF IInv, DataOK, DiskInv
<1>2. GetDBInfo(disk[folder]).daily <= now
  BY <1>1, StatusTyped
<1>3. GetDBInfo(disk[folder]).daily \in Int
  BY <1>1, StatusTyped DEF Info, Stamps, None
<1>4. now \in 0 .. now /\ now >= GetDBInfo(disk[folder]).daily
  BY <1>1, <1>2, <1>3
<1>5. QED
  BY <1>4 DEF TipWasTrue, Status

LEMMA StatusStep == ASSUME IInv, Next PROVE OwnUpdatesShown' /\ TipWasTrue'
<1>1. CASE doOpenDashboard
  <2>1. /\ UNCHANGED <<tip, folder, disk, now, at, dialogs, bg>>
        /\ unseen \ {"dashboard"} \subseteq unseen'
    BY <1>1 DEF doOpenDashboard, OpenWindow, launch, data
  <2>2. OwnUpdate' <=> OwnUpdate
    BY <2>1 DEF OwnUpdate
  <2>3. TipWasTrue'
    BY <2>1, <2>2 DEF IInv, TipWasTrue, Up
  <2>4. OwnUpdatesShown'
    BY <1>1, <2>1, <2>2 DEF IInv, OwnUpdatesShown, doOpenDashboard, OpenWindow, refreshStatus
  <2>5. QED
    BY <2>3, <2>4
<1>2. CASE Return
  <2>1. /\ UNCHANGED <<folder, disk, now, dash>> /\ tip' = Status
        /\ ~onBgTaskFinished \/ bg = bg'
    BY <1>2 DEF Return, AfterUpdate, updateTrayTip, data
  <2>2. TipWasTrue'
    BY <2>1, TipIsTrue
  <2>3. ASSUME info' = GetDBInfo(disk[folder]) PROVE OwnUpdatesShown'
    BY <2>1, <2>3 DEF OwnUpdatesShown
  <2>4. ASSUME "dashboard" \in unseen' PROVE OwnUpdatesShown'
    BY <2>4 DEF OwnUpdatesShown
  <2>5. ASSUME dialogs[Len(dialogs)][1] # "update" PROVE OwnUpdatesShown'
    <3>1. info' = info /\ unseen' = unseen \ {"tip"} /\ bg' = bg
      BY <1>2, <2>5 DEF Return, updateTrayTip
    <3>2. OwnUpdate => OwnUpdate'
      <4>1. dialogs \in Seq(Dialogs) /\ dialogs # <<>>
            /\ dialogs' = SubSeq(dialogs, 1, Len(dialogs) - 1)
        BY <1>2 DEF IInv, LoopOK, Return
      <4>2. Updates(dialogs) => Updates(dialogs')
        BY <2>5, <4>1, DialogReturns
      <4>3. OwnUpdate' <=> bg' # "none" \/ Updates(dialogs')
        BY DEF OwnUpdate, Updates
      <4>4. QED
        BY <3>1, <4>2, <4>3, OwnUpdateIs
    <3>3. QED
      BY <2>1, <3>1, <3>2 DEF IInv, OwnUpdatesShown
  <2>6. OwnUpdatesShown'
    BY <1>2, <2>3, <2>4, <2>5 DEF Return, AfterUpdate, refreshStatus
  <2>7. QED
    BY <2>2, <2>6
<1>3. CASE onBgTaskFinished
  <2>1. UNCHANGED <<folder, disk, now, dash>> /\ tip' = Status
    BY <1>3 DEF onBgTaskFinished, AfterUpdate, data
  <2>2. info' = GetDBInfo(disk[folder]) \/ "dashboard" \in unseen'
    BY <1>3 DEF onBgTaskFinished, AfterUpdate, refreshStatus
  <2>3. QED
    BY <2>1, <2>2, TipIsTrue DEF OwnUpdatesShown
<1>4. CASE OnExit
  <2>1. dash' = "none"
    BY <1>4 DEF OnExit
  <2>2. \A l \in Launches : at'[l] # "loop"
    BY <1>4 DEF OnExit
  <2>3. QED
    BY <2>1, <2>2 DEF OwnUpdatesShown, TipWasTrue, Up
<1>5. CASE \E i \in DOMAIN dialogs : EndDialog(i)
  <2>1. PICK i \in DOMAIN dialogs : EndDialog(i)
    BY <1>5
  <2>2. CASE unseen' = {"dashboard", "tip"}
    BY <2>2 DEF OwnUpdatesShown, TipWasTrue
  <2>3. CASE UNCHANGED <<folder, unseen>>
    <3>1. /\ UNCHANGED <<info, tip, disk, now, bg, dash, at>>
      BY <2>1 DEF EndDialog, launch, window, data
    <3>2. PICK r \in Results : dialogs' = [dialogs EXCEPT ![i] = <<@[1], r>>]
      BY <2>1 DEF EndDialog
    <3>3. Updates(dialogs') <=> Updates(dialogs)
      BY <3>2, DialogEnds DEF IInv, LoopOK
    <3>4. OwnUpdate' <=> OwnUpdate
      BY <3>1, <3>3, OwnUpdateIs DEF OwnUpdate, Updates
    <3>5. QED
      BY <2>3, <3>1, <3>4 DEF IInv, OwnUpdatesShown, TipWasTrue, Up
  <2>4. QED
    BY <2>1, <2>2, <2>3 DEF EndDialog
<1>6. CASE FreshclamStep
  <2>1. UNCHANGED <<at, info, tip, folder, now, bg, dialogs, dash>>
    BY <1>6 DEF FreshclamStep, launch, loop, window
  <2>2. OwnUpdate' <=> OwnUpdate
    BY <2>1 DEF OwnUpdate
  <2>3. OwnUpdate \/ unseen' = {"dashboard", "tip"}
    BY <1>6, FreshclamIsOwn DEF FreshclamStep
  <2>4. QED
    BY <2>2, <2>3 DEF OwnUpdatesShown, TipWasTrue
<1>7. CASE TimePasses
  <2>1. /\ UNCHANGED <<at, info, tip, folder, disk, bg, dialogs, dash, unseen>>
        /\ now' = now + 1 /\ now \in Nat
    BY <1>7 DEF TimePasses, launch, loop, window, IInv, DataOK
  <2>2. OwnUpdate' <=> OwnUpdate
    BY <2>1 DEF OwnUpdate
  <2>3. 0 .. now \subseteq 0 .. now'
    BY <2>1
  <2>4. QED
    BY <2>1, <2>2, <2>3 DEF IInv, OwnUpdatesShown, TipWasTrue, Up
<1>8. CASE \E l \in Launches : Process(l)
  <2>1. PICK l \in Launches : Process(l)
    BY <1>8
  <2>2. UNCHANGED <<dash, info, folder, disk, now, dialogs, bg, unseen>>
    BY <2>1 DEF Process, Launch, CliEnds, CreateMutex, FindWindow, PostRequest,
                CloseHandle, Start, StartFailed, data, loop, window
  <2>3. OwnUpdate' <=> OwnUpdate
    BY <2>2 DEF OwnUpdate
  <2>4. OwnUpdatesShown'
    BY <2>2, <2>3 DEF IInv, OwnUpdatesShown
  <2>5. CASE Start(l)
    <3>1. tip' = Status
      BY <2>5 DEF Start
    <3>2. QED
      BY <2>2, <2>4, <3>1, TipIsTrue
  <2>6. CASE ~Start(l)
    <3>1. tip' = tip
      BY <2>1, <2>6 DEF Process, Launch, CliEnds, CreateMutex, FindWindow, PostRequest,
                        CloseHandle, StartFailed
    <3>2. \E from : \E to \in Places \ {"loop"} : Move(l, from, to)
      BY <2>1, <2>6 DEF Process, Launch, CliEnds, CreateMutex, FindWindow, PostRequest,
                        CloseHandle, StartFailed, Places
    <3>3. Up' => Up
      <4>1. \A k \in Launches : at'[k] = "loop" => at[k] = "loop"
        BY <3>2, Moved DEF IInv, LaunchOK
      <4>2. QED
        BY <4>1 DEF Up
    <3>4. QED
      BY <2>2, <2>3, <2>4, <3>1, <3>3 DEF IInv, TipWasTrue
  <2>7. QED
    BY <2>5, <2>6
<1>9. CASE \/ Hide \/ (\E k : OpenDialog(k)) \/ doScheduledUpdate \/ CheckVersion
           \/ setUpdateAvailable
           \/ (\E k : Command(k)) \/ BgEnds \/ CheckEnds
  <2>1. /\ UNCHANGED <<at, info, tip, folder, disk, now, unseen>>
        /\ dash' # "none" => dash # "none"
    BY <1>9 DEF Hide, OpenDialog, doScheduledUpdate, CheckVersion, setUpdateAvailable,
                Command, BgEnds, CheckEnds, launch, window, data
  <2>2. Up' => Up
    BY <2>1 DEF Up
  <2>3. QED
    BY <1>2, <1>3, <1>4, <2>1, <2>2, Untold
<1>10. QED
  BY <1>1, <1>2, <1>3, <1>4, <1>5, <1>6, <1>7, <1>8, <1>9 DEF Next, UserInterface

-----------------------------------------------------------------------------
LEMMA InvInit == Init => IInv
<1> SUFFICES ASSUME Init PROVE IInv
  OBVIOUS
<1>1. LaunchOK /\ MutexInv
  BY DEF Init, LaunchOK, MutexInv, Places, Staying, CommandLines
<1>2. LoopOK
  <2>1. queue \in Seq(Posted) /\ dialogs \in Seq(Dialogs)
    BY DEF Init
  <2>2. checking \in BOOLEAN
    BY DEF Init
  <2>3. QED
    BY <2>1, <2>2 DEF Init, LoopOK
<1>3. WindowOK /\ BannerInv
  <2>1. adjusted \in BOOLEAN /\ ~adjusted
    BY DEF Init
  <2>2. QED
    BY <2>1, NoFilesTyped DEF Init, WindowOK, BannerInv, BannerHasRoom
<1>4. DataOK /\ DiskInv
  <2>1. Periods \in Nat
    BY ProtectionAssumption
  <2>2. /\ NoFiles \in Folder /\ NoFiles.cld <= 0 /\ NoFiles.cvd <= 0
        /\ Installed \in Folder /\ Installed.cld <= 0 /\ Installed.cvd <= 0
    BY <2>1 DEF NoFiles, Installed, Folder, Stamps, None
  <2>3. folder \in Folders
    BY DesktopAssumption DEF Init
  <2>4. QED
    <3>1. /\ world \in Worlds /\ tip = "error" /\ now = 0 /\ unseen = {}
          /\ disk \in [Folders -> {NoFiles, Installed}]
      BY DEF Init
    <3>2. \A f \in Folders : disk[f] \in {NoFiles, Installed}
      BY <3>1
    <3>3. disk \in [Folders -> Folder]
      BY <2>2, <3>1
    <3>4. DiskInv
      BY <2>2, <3>1, <3>2 DEF DiskInv
    <3>5. QED
      BY <2>1, <2>3, <3>1, <3>3, <3>4 DEF DataOK
<1>5. OwnUpdatesShown /\ TipWasTrue
  BY DEF Init, OwnUpdatesShown, TipWasTrue, Up
<1>6. QED
  BY <1>1, <1>2, <1>3, <1>4, <1>5 DEF IInv

LEMMA InvStep == IInv /\ [Next]_vars => IInv'
<1> SUFFICES ASSUME IInv, [Next]_vars PROVE IInv'
  OBVIOUS
<1>1. CASE Next
  <2>1. LaunchOK' /\ MutexInv'
    BY <1>1, LaunchStep
  <2>2. LoopOK'
    BY <1>1, LoopStep
  <2>3. WindowOK' /\ BannerInv'
    BY <1>1, WindowStep
  <2>4. DataOK' /\ DiskInv'
    BY <1>1, DataStep
  <2>5. OwnUpdatesShown' /\ TipWasTrue'
    BY <1>1, StatusStep
  <2>6. QED
    BY <2>1, <2>2, <2>3, <2>4, <2>5 DEF IInv
<1>2. CASE UNCHANGED vars
  <2>1. LaunchOK' /\ LoopOK' /\ WindowOK' /\ DataOK'
    BY <1>2 DEF IInv, vars, LaunchOK, LoopOK, WindowOK, DataOK
  <2>2. MutexInv' /\ BannerInv' /\ DiskInv'
    BY <1>2 DEF IInv, vars, MutexInv, BannerInv, BannerHasRoom, DiskInv
  <2>3. OwnUpdatesShown' /\ TipWasTrue'
    BY <1>2 DEF IInv, vars, OwnUpdatesShown, TipWasTrue, OwnUpdate, Up
  <2>4. QED
    BY <2>1, <2>2, <2>3 DEF IInv
<1>3. QED
  BY <1>1, <1>2

(* IInv holds in every state: who has the mutex, what was announced, how   *)
(* often the dashboard grew, and what was told of the databases.           *)
THEOREM Invariance == Spec => []IInv
  BY InvInit, InvStep, PTL DEF Spec

LEMMA Typed == IInv => TypeOK
<1> SUFFICES ASSUME IInv PROVE TypeOK
  OBVIOUS
<1>1. queue \in Seq(Messages)
  BY PostedKinds DEF IInv, LoopOK
<1>2. QED
  BY <1>1 DEF IInv, LaunchOK, LoopOK, WindowOK, DataOK, TypeOK, Places, CommandLines, Info,
              Dialogs

LEMMA OneStays == IInv => OneInstance
<1> SUFFICES ASSUME IInv PROVE OneInstance
  OBVIOUS
<1> DEFINE S == {l \in Launches : at[l] \in {"start", "loop"}}
<1>1. \A l, k \in S : l = k
  BY DEF IInv, MutexInv, Staying
<1>2. CASE S = {}
  <2>1. Cardinality(S) = 0
    BY <1>2, FS_EmptySet
  <2>2. QED
    BY <2>1 DEF OneInstance
<1>3. CASE S # {}
  <2>1. PICK l : S = {l}
    BY <1>1, <1>3
  <2>2. Cardinality(S) = 1
    BY <2>1, FS_Singleton
  <2>3. QED
    BY <2>2 DEF OneInstance
<1>4. QED
  BY <1>2, <1>3

LEMMA BannerHolds == IInv => BannerHasRoom /\ BannerIsNewer
  BY NewerIsGreater DEF IInv, BannerInv, BannerIsNewer, WindowOK

LEMMA InvariantsHold == IInv => DesktopInv /\ StatusTrue
  BY Typed, OneStays, BannerHolds DEF IInv, DesktopInv, StatusTrue

(* However many processes are launched, by whatever command lines, in the  *)
(* middle of each other's starts and ends (run in cw_application.cpp): one *)
(* at most stays; its dashboard has room for the update banner exactly     *)
(* when it shows one, and the banner never offers an older version.        *)
THEOREM DesktopSafe == Spec => []DesktopInv
  BY Invariance, InvariantsHold, PTL

(* When no update of the instance's own goes on, its dashboard shows the   *)
(* databases as they are and its tip what was true of them since they were *)
(* written, unless nobody has told it of the last change: however dialogs  *)
(* nest (doUpdate, doPreferences) and background updates end.              *)
THEOREM StatusSafe == Spec => []StatusTrue
  BY Invariance, InvariantsHold, PTL

=============================================================================
