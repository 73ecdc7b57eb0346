------------------------------ MODULE Desktop -------------------------------
(***************************************************************************)
(* Launches of the program and the one that stays: the command line        *)
(* (cw_cli_args.cpp), the single-instance check and the hidden window's    *)
(* messages (cw_application.cpp), the dashboard (cw_dashboard.cpp) and the *)
(* status of the databases that it and the tray icon's tip show.           *)
(*                                                                         *)
(* Modal dialogs run message loops of their own, so that commands are      *)
(* dispatched while a dialog is open: dialogs nest, and a handler goes on  *)
(* only when every dialog that was opened after its own has ended.         *)
(***************************************************************************)
EXTENDS Protection, FiniteSets

CONSTANTS Launches,    \* processes
          Worlds,      \* bound: what goes on together: which processes run, with
                       \* which switches, which commands are given, which
                       \* versions are announced, which folders are chosen,
                       \* whether databases change, whether the dashboard's
                       \* window may not be created, until when time passes,
                       \* how many messages and dialogs may be pending
          Nobody,      \* no process
          NoVersion,   \* no newer version is known
          Base,        \* bound: numbers of a version are less
          Folders      \* database folders the user may choose

Tags == UNION {w.tags : w \in Worlds}
Commands == {"open", "update", "prefs", "check", "scheduled", "exit"}

ASSUME DesktopAssumption ==
    /\ Nobody \notin Launches /\ NoVersion \notin Tags
    /\ Base \in Nat \ {0} /\ {Local} \cup Tags \subseteq Seq(0 .. Base - 1)
    /\ \A w \in Worlds : /\ w.commands \subseteq Commands
                         /\ w.folders \subseteq Folders
                         /\ w.until \in 0 .. Periods

VARIABLES
    world,     \* one of Worlds
    at,        \* where run() of a process is
    args,      \* its command line
    target,    \* the window that a later process has found
    mutex,     \* processes with a handle of ClamWinMutex
    queue,     \* messages of the hidden window
    dialogs,   \* modal dialogs, the innermost last
    bg,        \* m_bgUpdate
    checking,  \* a version check is in flight
    dash,      \* the dashboard's window
    room,      \* how often it was made higher for the update banner
    adjusted,  \* m_updateLayoutAdjusted
    banner,    \* m_newVersion, NoVersion unless m_updateAvailable
    info,      \* m_dbInfo
    tip,       \* what the tray icon says
    folder,    \* m_config.databasePath
    disk,      \* the database folders
    now,       \* the time in periods
    unseen     \* history: changes nobody told the "dashboard" or the "tip"

launch == <<at, args, target, mutex>>
loop == <<queue, dialogs, bg, checking>>
window == <<dash, room, adjusted, banner, info>>
data == <<world, disk, now>>
vars == <<world, at, args, target, mutex, queue, dialogs, bg, checking, dash, room,
          adjusted, banner, info, tip, folder, disk, now,
          unseen>>

Message(kind) == <<kind, NoVersion>>
Open == Message("open")
Update == Message("update")
Check == Message("check")
Messages == {Message(k) : k \in Commands \cup {"finished"}}
            \cup ({"version"} \X Tags)

(* An update succeeds, or finds no changes; or it fails, or is cancelled.  *)
Results == {"done", "failed"}

(* room counts one growth too many when a version is announced before the  *)
(* dashboard is opened first and again after.                              *)
TypeOK ==
    /\ world \in Worlds
    /\ at \in [Launches -> {"idle", "cli", "create", "find", "post", "start",
                            "loop", "close"}]
    /\ args \in [Launches -> {{}} \cup UNION {w.lines : w \in Worlds}]
    /\ target \in [Launches -> Launches \cup {Nobody}]
    /\ mutex \subseteq Launches
    /\ queue \in Seq(Messages)
    /\ dialogs \in Seq({"update", "prefs"} \X (Results \cup {"open"}))
    /\ bg \in {"none", "running"} \cup Results
    /\ checking \in BOOLEAN
    /\ dash \in {"none", "shown", "hidden"}
    /\ room \in 0 .. 2
    /\ adjusted \in BOOLEAN
    /\ banner \in Tags \cup {NoVersion}
    /\ info \in [main : BOOLEAN, daily : Stamps]
    /\ tip \in {"ok", "warn", "error"}
    /\ folder \in Folders
    /\ disk \in [Folders -> Folder]
    /\ now \in 0 .. Periods
    /\ unseen \subseteq {"dashboard", "tip"}

Installed == [main |-> TRUE, cld |-> None, cvd |-> 0]

Init ==
    /\ world \in Worlds
    /\ at = [l \in Launches |-> "idle"]
    /\ args = [l \in Launches |-> {}]
    /\ target = [l \in Launches |-> Nobody]
    /\ mutex = {}
    /\ queue = <<>>
    /\ dialogs = <<>>
    /\ bg = "none"
    /\ checking = FALSE
    /\ dash = "none"
    /\ room = 0
    /\ adjusted = FALSE
    /\ banner = NoVersion
    /\ info = GetDBInfo(NoFiles)
    /\ tip = "error"
    /\ folder \in world.folders
    /\ disk \in [Folders -> {NoFiles, Installed}]
    /\ now = 0
    /\ unseen = {}

-----------------------------------------------------------------------------
Pending == Len(queue) + Len(dialogs)
Post(m) == Pending < world.pending /\ queue' = Append(queue, m)
Up == \E l \in Launches : at[l] = "loop"
Move(l, from, to) == at[l] = from /\ at' = [at EXCEPT ![l] = to]

(* A mode in which a process handles one dialog by itself, without looking *)
(* for the instance that stays.                                            *)
CliModes == {"mode=scanner", "mode=update", "mode=viewlog"}

Launch(l) ==
    /\ l \in world.slots
    /\ \E a \in world.lines :
         /\ args' = [args EXCEPT ![l] = a]
         /\ Move(l, "idle", IF a \cap CliModes # {} THEN "cli" ELSE "create")
    /\ UNCHANGED <<target, mutex, loop, window, tip, folder, data, unseen>>

CliEnds(l) ==
    /\ Move(l, "cli", "idle")
    /\ args' = [args EXCEPT ![l] = {}]
    /\ UNCHANGED <<target, mutex, loop, window, tip, folder, data, unseen>>

(* Fault: the instance is recognised by its window.                        *)
WindowExists == Up

(* GetLastError() == ERROR_ALREADY_EXISTS: any handle keeps the mutex.     *)
AlreadyExists == mutex # {}

CreateMutex(l) ==
    /\ Move(l, "create", IF AlreadyExists THEN "find" ELSE "start")
    /\ mutex' = mutex \cup {l}
    /\ UNCHANGED <<args, target, loop, window, tip, folder, data, unseen>>

(* FindWindow; without a window the request is dropped.                    *)
FindWindow(l) ==
    /\ \/ /\ Up
          /\ Move(l, "find", "post")
          /\ \E o \in Launches :
               at[o] = "loop" /\ target' = [target EXCEPT ![l] = o]
       \/ ~Up /\ Move(l, "find", "close") /\ UNCHANGED target
    /\ UNCHANGED <<args, mutex, loop, window, tip, folder, data, unseen>>

(* A later launch has one request, a version check before an update.       *)
Request(a) ==
    IF "check" \in a THEN Check ELSE IF "download" \in a THEN Update ELSE Open

(* PostMessage fails when the window has gone.                             *)
PostRequest(l) ==
    /\ Move(l, "post", "close")
    /\ IF at[target[l]] = "loop" THEN Post(Request(args[l])) ELSE UNCHANGED queue
    /\ UNCHANGED <<args, target, mutex, dialogs, bg, checking, window, tip,
                   folder, data, unseen>>

CloseHandle(l) ==
    /\ Move(l, "close", "idle")
    /\ mutex' = mutex \ {l}
    /\ args' = [args EXCEPT ![l] = {}]
    /\ target' = [target EXCEPT ![l] = Nobody]
    /\ UNCHANGED <<loop, window, tip, folder, data, unseen>>

Status == GetProtectionStatus(disk[folder], now)

(* The hidden window, the icon and the requests of the command line and of *)
(* updateOnStartup, which may ask for an update twice.                     *)
Start(l) ==
    /\ Move(l, "start", "loop")
    /\ \E onStartup \in {<<>>, <<Update>>} :
         queue' = (IF "open" \in args[l] THEN <<Open>> ELSE <<>>)
                  \o (IF "download" \in args[l] THEN <<Update>> ELSE <<>>)
                  \o (IF "check" \in args[l] THEN <<Check>> ELSE <<>>)
                  \o onStartup
    /\ tip' = Status
    /\ UNCHANGED <<args, target, mutex, dialogs, bg, checking, window, folder,
                   data, unseen>>

StartFailed(l) ==
    /\ Move(l, "start", "close")
    /\ UNCHANGED <<args, target, mutex, loop, window, tip, folder, data, unseen>>

Process(l) ==
    \/ Launch(l) \/ CliEnds(l) \/ CreateMutex(l) \/ FindWindow(l)
    \/ PostRequest(l) \/ CloseHandle(l) \/ Start(l) \/ StartFailed(l)

-----------------------------------------------------------------------------
(* The instance's thread: its own message loop or that of a modal dialog.  *)
Take(kind) ==
    /\ Up
    /\ queue # <<>>
    /\ Head(queue)[1] = kind
    /\ queue' = Tail(queue)

updateTrayTip == tip' = Status /\ unseen' = unseen \ {"tip"}

(* Fault: a hidden dashboard is not refreshed.                             *)
RefreshIfShown == info' = IF dash # "hidden" THEN GetDBInfo(disk[folder]) ELSE info

refreshStatus == info' = GetDBInfo(disk[folder])

InitialRoom == IF banner # NoVersion THEN 1 ELSE 0

(* open(): the status is read before the window is created, which may fail.*)
OpenWindow ==
    /\ refreshStatus
    /\ unseen' = unseen \ {"dashboard"}
    /\ \/ dash' = "shown" /\ room' = InitialRoom
       \/ world.fails /\ UNCHANGED <<dash, room>>

(* Fault: a dashboard that exists is not shown again.                      *)
OpenOnce ==
    /\ Take("open")
    /\ \/ dash = "none" /\ OpenWindow
       \/ dash # "none" /\ UNCHANGED <<dash, room, info, unseen>>
    /\ UNCHANGED <<launch, dialogs, bg, checking, adjusted, banner, tip, folder,
                   data>>

doOpenDashboard ==
    /\ Take("open")
    /\ \/ dash = "none" /\ OpenWindow
       \/ dash # "none" /\ dash' = "shown" /\ UNCHANGED <<room, info, unseen>>
    /\ UNCHANGED <<launch, dialogs, bg, checking, adjusted, banner, tip, folder,
                   data>>

(* WM_CLOSE of the dashboard.                                              *)
Hide ==
    /\ dash = "shown"
    /\ dash' = "hidden"
    /\ UNCHANGED <<launch, loop, room, adjusted, banner, info, tip, folder,
                   data, unseen>>

(* doUpdate, doScan and doPreferences up to their dialog.                  *)
OpenDialog(kind) ==
    /\ Take(kind)
    /\ dialogs' = Append(dialogs, <<kind, "open">>)
    /\ UNCHANGED <<launch, bg, checking, window, tip, folder, data, unseen>>

(* The dialog ends, by itself or by the user; the loop it runs in comes    *)
(* back when it is the innermost.                                          *)
EndDialog(i) ==
    /\ dialogs[i][2] = "open"
    /\ \E r \in Results : dialogs' = [dialogs EXCEPT ![i] = <<@[1], r>>]
    /\ \/ UNCHANGED <<folder, unseen>>
       \/ /\ dialogs[i][1] = "prefs"
          /\ folder' \in world.folders \ {folder}
          /\ unseen' = {"dashboard", "tip"}
    /\ UNCHANGED <<launch, queue, bg, checking, window, tip, data>>

(* What doUpdate and onBgTaskFinished do with a result.                    *)
AfterUpdate(r) ==
    /\ tip' = Status
    /\ \/ r = "done" /\ refreshStatus /\ unseen' = {}
       \/ /\ r = "failed"
          /\ unseen' = (unseen \cup {"dashboard"}) \ {"tip"}
          /\ UNCHANGED info

Return ==
    /\ dialogs # <<>>
    /\ LET d == dialogs[Len(dialogs)]
       IN  /\ d[2] # "open"
           /\ \/ d[1] = "update" /\ AfterUpdate(d[2])
              \/ d[1] # "update" /\ updateTrayTip /\ UNCHANGED info
    /\ dialogs' = SubSeq(dialogs, 1, Len(dialogs) - 1)
    /\ UNCHANGED <<launch, queue, bg, checking, dash, room, adjusted, banner,
                   folder, data>>

doScheduledUpdate ==
    /\ Take("scheduled")
    /\ bg' = IF bg = "none" THEN "running" ELSE bg
    /\ UNCHANGED <<launch, dialogs, checking, window, tip, folder, data, unseen>>

onBgTaskFinished ==
    /\ Take("finished")
    /\ AfterUpdate(bg)
    /\ bg' = "none"
    /\ UNCHANGED <<launch, dialogs, checking, dash, room, adjusted, banner,
                   folder, data>>

CheckVersion ==
    /\ Take("check")
    /\ checking' = TRUE
    /\ UNCHANGED <<launch, dialogs, bg, window, tip, folder, data, unseen>>

(* onVersionCheckResult with setUpdateAvailable.                           *)
setUpdateAvailable ==
    /\ Take("version")
    /\ banner' = Head(queue)[2]
    /\ adjusted' = (adjusted \/ dash # "none")
    /\ room' = IF dash # "none" /\ ~adjusted THEN room + 1 ELSE room
    /\ UNCHANGED <<launch, dialogs, bg, checking, dash, info, tip, folder, data,
                   unseen>>

(* Fault: Exit is ignored while a dialog is open.                          *)
ExitWhenIdle ==
    /\ Take("exit")
    /\ at' = [l \in Launches |->
                IF at[l] = "loop" /\ dialogs = <<>> THEN "close" ELSE at[l]]
    /\ UNCHANGED <<args, target, mutex, dialogs, bg, checking, window, tip,
                   folder, data, unseen>>

(* IDM_TRAY_EXIT: the windows go, the loops end, the process' memory with  *)
(* them; run() closes the mutex last.                                      *)
OnExit ==
    /\ Up /\ queue # <<>> /\ Head(queue) = Message("exit")
    /\ queue' = <<>>
    /\ at' = [l \in Launches |-> IF at[l] = "loop" THEN "close" ELSE at[l]]
    /\ dialogs' = <<>>
    /\ bg' = "none"
    /\ checking' = FALSE
    /\ dash' = "none"
    /\ room' = 0
    /\ adjusted' = FALSE
    /\ banner' = NoVersion
    /\ info' = GetDBInfo(NoFiles)
    /\ tip' = "error"
    /\ unseen' = {}
    /\ UNCHANGED <<args, target, mutex, folder, data>>

UserInterface ==
    \/ doOpenDashboard \/ Hide \/ \E k \in {"update", "prefs"} : OpenDialog(k)
    \/ Return \/ doScheduledUpdate \/ onBgTaskFinished \/ CheckVersion
    \/ setUpdateAvailable \/ OnExit

-----------------------------------------------------------------------------
(* Cards of the dashboard and the tray menu; the scheduler's thread.       *)
Command(kind) ==
    /\ Up
    /\ Post(Message(kind))
    /\ UNCHANGED <<launch, dialogs, bg, checking, window, tip, folder, data,
                   unseen>>

(* The reader thread of a background update posts its end.                 *)
BgEnds ==
    /\ bg = "running"
    /\ bg' \in Results
    /\ Post(Message("finished"))
    /\ UNCHANGED <<launch, dialogs, checking, window, tip, folder, data, unseen>>

(* doCheck: a result without a newer version changes nothing.              *)
CheckEnds ==
    /\ checking
    /\ checking' = FALSE
    /\ \/ \E t \in world.tags : isNewerVersion(t) /\ Post(<<"version", t>>)
       \/ UNCHANGED queue
    /\ UNCHANGED <<launch, dialogs, bg, window, tip, folder, data, unseen>>

(* A freshclam of this instance, or one that another process runs.         *)
OwnUpdate ==
    bg # "none" \/ \E i \in DOMAIN dialogs : dialogs[i][1] = "update"

OwnFreshclam ==
    bg = "running" \/ \E i \in DOMAIN dialogs : dialogs[i] = <<"update", "open">>

OtherFreshclam ==
    \E l \in Launches : at[l] = "cli" /\ "mode=update" \in args[l]

(* It puts a new file in place before it removes the old form of it, and   *)
(* may be stopped anywhere.                                                *)
Replaced(old) ==
    {[old EXCEPT !.main = TRUE], [old EXCEPT !.cld = now], [old EXCEPT !.cvd = now]}
    \cup {[old EXCEPT !.cld = None] : x \in {old.cvd} \ {None}}
    \cup {[old EXCEPT !.cvd = None] : x \in {old.cld} \ {None}}

FreshclamStep ==
    /\ world.writes
    /\ \/ OwnFreshclam /\ UNCHANGED unseen
       \/ OtherFreshclam /\ unseen' = {"dashboard", "tip"}
    /\ disk' \in {[disk EXCEPT ![folder] = new] : new \in Replaced(disk[folder])}
    /\ UNCHANGED <<launch, loop, window, tip, folder, world, now>>

TimePasses ==
    /\ now < world.until
    /\ now' = now + 1
    /\ UNCHANGED <<launch, loop, window, tip, folder, world, disk, unseen>>

Next ==
    \/ \E l \in Launches : Process(l)
    \/ UserInterface
    \/ \E i \in DOMAIN dialogs : EndDialog(i)
    \/ \E k \in world.commands : Command(k)
    \/ BgEnds \/ CheckEnds \/ FreshclamStep \/ TimePasses

Spec == Init /\ [][Next]_vars

(* The instance's thread takes messages; every process goes on.            *)
FairSpec ==
    /\ Spec
    /\ WF_vars(UserInterface /\ ~Hide)
    /\ \A l \in Launches : WF_vars(PostRequest(l)) /\ WF_vars(CloseHandle(l))

-----------------------------------------------------------------------------
(* However the launches interleave with the start and the end of the one   *)
(* that stays, no two of them stay: CreateMutex decides (cw_application,   *)
(* run).                                                                   *)
OneInstance == Cardinality({l \in Launches : at[l] \in {"start", "loop"}}) <= 1

(* When no update of its own is going on, the dashboard shows the          *)
(* databases as they are, unless the last change was that of a failed or   *)
(* cancelled update, of another process, or of the folder.                 *)
OwnUpdatesShown ==
    dash # "none" /\ ~OwnUpdate /\ "dashboard" \notin unseen
        => info = GetDBInfo(disk[folder])

(* Under the same conditions, and after failed updates too, the tip says   *)
(* what was true of the databases at a time since they were written.       *)
TipWasTrue ==
    Up /\ ~OwnUpdate /\ "tip" \notin unseen
        => \E d \in 0 .. now :
             /\ d >= GetDBInfo(disk[folder]).daily
             /\ tip = GetProtectionStatus(disk[folder], d)

(* What dashboard and icon say is true, whatever updates and dialogs ended *)
(* in which order.                                                         *)
StatusTrue == OwnUpdatesShown /\ TipWasTrue

(* The dashboard has been made higher when it shows the update banner,     *)
(* whichever came first, and only then.                                    *)
BannerHasRoom == dash # "none" => (room > 0 <=> banner # NoVersion)

(* The update banner never offers the version that runs or an older one.   *)
Value(tag) == Base * (Base * Part(tag, 1) + Part(tag, 2)) + Part(tag, 3)
BannerIsNewer == banner # NoVersion => Value(banner) > Value(Local)

(* However launches, dialogs and announcements interleave, one instance    *)
(* has one dashboard, whose banner is right and fits.                      *)
DesktopInv == TypeOK /\ OneInstance /\ BannerHasRoom /\ BannerIsNewer

(* Where windows can be created, a request to open the dashboard, by a     *)
(* later launch too, ends with the dashboard on the screen while the       *)
(* instance lasts, although dialogs may be open and never end.             *)
OpenShows ==
    (~world.fails /\ \E i \in DOMAIN queue : queue[i] = Open)
        ~> (dash = "shown" \/ ~Up)

(* After Exit the name is free for the next launch.                        *)
ExitFreesName ==
    \A l \in Launches :
        (at[l] = "loop" /\ \E i \in DOMAIN queue : queue[i] = Message("exit"))
            ~> l \notin mutex
=============================================================================
