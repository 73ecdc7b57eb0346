# ClamWin in TLA+

Specifications, model-checking configurations and machine-checked proofs for
the concurrent and stateful parts of ClamWin, the Windows front end of clamscan
and freshclam (`src/cw_*.cpp`). `PROJECT.json` maps every definition to the
lines it stands for.

Run a configuration with `tlc -config X.cfg M`, the proofs with
`tlapm MProofs.tla`.

## 1. The system

ClamWin is one Windows process. A hidden window owns the message queue of the
**user-interface thread**; nearly everything happens in handlers on that
thread. Other threads are:

- one **reader thread** per child process (`CWProcess`), which reads the
  child's pipes and calls the owner back;
- one **worker thread** per progress dialog (`CWScanDialog`), which counts the
  files of a scan and then starts the child;
- one **checking thread** per version check (`CWUpdateChecker`).

Threads talk to the user-interface thread by `PostMessage`, never by a lock:
no lock protects shared state, so the order of
messages and the lifetime of what their parameters point to is what keeps it
correct. Modal dialogs run a nested message loop on the same thread.

| component | state | operations | hard parts | correct when |
|---|---|---|---|---|
| `CWProcess` (cw_process) | context `m_ctx` (process and pipe handles, callbacks, line buffers, `stopping`), `m_hThread` | `start`, `stop`, destructor, reader thread | three actors, two bounded pipes, handle values that are reused, inherited handles | the reader never outlives its context; the exit code comes last and is the own child's; no child is lost; `stop` returns |
| background tasks (cw_bg_task, cw_application) | slots `m_bgScan`, `m_bgUpdate`; a task with `CWProcess`, exit code | scheduled scan and update, finished message, destructor | the message carries the task's raw address | an address in the queue names the task in its slot; a slot is never stuck; nothing left at exit |
| scheduler (cw_scheduler) | timer, last-run times in the configuration | `start`, `stop`, `check`, `isDue` | hour, day and week boundaries, restarts, reloads, missed runs | every planned moment answered, once, in time |
| progress dialog (cw_scan_dialog) | `m_finished`, `m_cancelled`, `m_exitCode`, `m_hWorker`, a `CWProcess` | open, output, finished, stop, close, Escape, destructor | object on the stack shared by three threads; user acts at any time | all output before the end, result true of the child, no use after free, closes |
| auto-close (cw_auto_close) | policy | `ShouldAutoClose`, policy constructors | exit codes with several meanings | the dialog closes exactly when asked to |
| application (cw_application, cw_main) | hidden window, timers, libcurl, dialogs' owner | start, message handlers, shutdown | order of shutdown against running threads | nothing is used after it is released; exit ends |
| tray icon (cw_tray) | `m_created` | create, destroy, balloon, tooltip | the shell may start late or restart | the icon is there while the shell is |
| version check (cw_update_checker) | `m_hThread`, a result on the heap | `startCheck`, `waitForThread`, thread | result handed over through a message | one check at a time, one owner per result |
| configuration (cw_config) | settings, last-run times; ClamWin.conf, freshclam.conf | `load`, `save` | four places for the file, files of older programs, two files written key by key, several writers, unchecked writes | what is saved is what the next start finds; freshclam.conf agrees |
| preferences, schedule (cw_prefs_dialog, cw_prefs_validation, cw_schedule_dialog) | controls over the live settings | open, enter, Save, Cancel | Save assigns one by one and may refuse half-way; the settings may be reloaded underneath | a refusal can be fixed; Save saves what is shown; Cancel discards |
| output logic (cw_scan_logic) and its users (cw_scan_dialog, cw_bg_task) | `ScanOutputState`, the report, the bar | filters, command lines, line classification, reworked report, verdict, balloon | two pipes in any order, restarted downloads, two matchers for one filter, exit codes against flags | the numbers are those of the scan; a full bar means done; the verdict is true |
| log files (cw_log_utils) | two log files, temporary files | append, trim | trimming while others append; sharing modes; crashes | newest text is kept and in order, bounded size |
| log viewer (cw_logview_dialog) | a copy of a log, scroll position | open, read, scroll | reads what others write; own scroll bar arithmetic | the view is whole; all of it can be reached |
| command line, single instance (cw_cli_args, cw_application) | mutex, hidden window | parse, create, find, post, exit | start and shutdown races | one instance; a request that finds it is carried out |
| dashboard, status (cw_dashboard, cw_utils) | window, database information, banner | open, hide, refresh, announce | nested dialogs finish innermost first; announcements before and after opening | what is shown is true of the databases |
| theme, framework, about, shell extension, text conversion | controls | drawing, conversions | - | presentation |

Interactions: the scheduler posts a scheduled run to the hidden window; the
handler creates a background task; the task's `CWProcess` calls it back on the
reader thread; the task posts its address; the handler deletes it and refreshes
dashboard and tip. The menu and later launches of the program open dialogs on
the user-interface thread, which nest. Preferences, schedule dialog and version
check save, reload or restart the scheduler under all of this. Runs append to
the logs and trim them from several threads and processes. Hazards are listed at
their lines in `PROJECT.json`.

## 2. Modules

| module | models | based on |
|---|---|---|
| `Job` | abstract: what a `CWProcess` promises its owner | - |
| `Process` | `cw_process.cpp` step by step, several objects | implements `Job` |
| `Background` | slots, tasks and messages | uses the actions of `Job` |
| `Scheduler` | `isDue`, `check`, start, stop, settings, saved state | - |
| `AutoClose` | `cw_auto_close` as operators | - |
| `ScanDialog` | one progress dialog with its threads | extends `AutoClose` |
| `Application` | life cycle, tray icon, version check | - |
| `Config` | ClamWin.conf as a function: places, migration, `load`, `save`, freshclam.conf | operators |
| `Preferences` | the controls of the two dialogs over the settings | extends `Config` |
| `SettingsStore` | abstract: what users of the configuration rely on | - |
| `Settings` | starts, ends, saves cut short, dialogs, reloads, scheduled runs | extends `Preferences`, implements `SettingsStore` |
| `Globs` | filter patterns, their two matchers | operators |
| `ScanOutput` | `ScanOutputState` and what one line does to it | operators |
| `ScanReport` | tool, two pipes, dialog or background task, verdict, balloon | extends `Globs`, `ScanOutput` |
| `LogFile` | runs that append to a log and trim it, with sharing modes | - |
| `LogViewer` | the viewer over such a log, and its scroll bar | extends `LogFile` |
| `Protection` | status of databases, comparison of versions | operators |
| `Desktop` | launches, single instance, nested dialogs, dashboard, tip | extends `Protection` |
| `MCProcess`, `MCScheduler`, `MCScanDialog`, `MCSettings`, `MCScanReport`, `MCLogViewer`, `MCDesktop` | symmetry, inputs and settings for TLC | |
| `ProcessProofs`, `SchedulerProofs` (also about `Background`), `ApplicationProofs`, `ScanDialogProofs`, `ReportProofs`, `LogProofs`, `SettingsProofs`, `DesktopProofs` | theorems | |

**Process.** `call` says where the owner is inside `start()` or `stop()`,
`reader` where the reader thread is in its loop: one action per system call
that others can see. `table` is the process's handle table: a closed value is
handed out again, so `TerminateProcess` acts on whatever a stale value means
now. `holders` is the set of children that received an object's write ends:
`CreateProcess` inherits every inheritable handle, so a child created on
another thread between `CreatePipe` and `CloseHandle` receives them as well and
`ReadFile` sees the end of the pipe only when the last of them ends. A pipe
holds `Cap` fragments; a child blocks on a full one. Text is abstracted to
fragments and to whether an unterminated line is kept.

**Job and Background.** `Job` has three statuses per object and one callback
per successful start. `Process` maps to it by `ctx` and `told`
(`ImplementsJob`). `Background` is written over `Job`'s actions, so that what
it relies on is what `Process` is shown to do. The destructor's `stop()` waits
for the reader, so `Free` is enabled only when the job has reported: until then
the thread is in the call and takes no message.

**Scheduler.** One task, scan or update; the two meet only in `save()`. Time
is in minutes, a day has `HoursPerDay` hours of `MinutesPerHour` minutes.
`RanThisInterval`, `EligibleDay`, `TimeToRun` and `CatchUp` are the four parts of
`isDue` in its order. `runs`, `settled` and `since` are history variables that
only properties read.

**ScanDialog.** Here `start()` runs on the worker thread while `stop()` runs on
the user-interface thread, so the stores to `m_ctx` and `m_hThread` are actions
of their own; the parts of `CWProcess` that cannot interleave with the dialog
are merged. The end of the dialog calls `stop()` twice, in `~CWScanDialog` and,
after the wait for the worker thread, in `~CWProcess` (`ui` is "member"). Waits for the worker thread last two seconds at most, which the
model takes as "may end at any time". A use of freed memory may end the
application (`Crash`) or have no effect. `hasty` is a history variable: the user
acted, or such a wait ended, before the worker thread had ended.

**Application.** `run()`, the message loop and the shutdown in its order
(window, checking thread, tray icon, libcurl), with the shell as an actor that
starts late or restarts and the server as one that answers or times out. A
second launch of the program is a source of messages.

**Config, Preferences, Settings.** A file is a function from the keys it holds to
values. One setting of each treatment stands for those treated alike.
`resolveDefaultIniPathForLoad` and `bootstrapLegacyProfile` choose and copy the
file as a start does; `load` applies defaults, old keys and repairs; `save`
takes the number of keys written, so that a crash can cut it short
(`EndInSave`). `Preferences` has the controls of each page, when they can be
used, and `saveToConfig`, which takes the number of groups of assignments that
were made before a refusal. `NextLoad` is what a start at this moment would
find; `SettingsStore` is refined with it as the disk.

**Globs, ScanOutput, ScanReport.** A filter is matched once by the dialog, which
counts files beforehand, and once by clamscan, through the regular expression
`globToClamscanRegex` makes of it. Both are here as functions over the pattern,
from its end: the set of places of the text from which the rest matches. Files are
counted as positions in a list, since two may be equal. A line of
output is a record of a kind, a name and numbers; `ScanOutput` gives for each
kind the new state and the effects, and `ScanReport` runs the tool with two
pipes into the dialog or the background task to the balloon. The tools are
external and described by what they print.

**LogFile, LogViewer.** A text is a number; a log is the sequence of those it
holds. Every open handle has an access and a sharing mode, and `CanOpen` is
Windows' rule for them. `TrimLogFile` is four actions: open, copy, move, delete.
A write or a copy may fail. `exposed`, `disturbed` and `crashed` are history
variables that state the conditions of the properties. The viewer's arithmetic is that of the code, on integers.

**Protection, Desktop.** `at` says where `run()` of a process is: creating the
mutex, looking for the window, posting, starting, in the loop, closing its
handle. Dialogs are a stack; a handler goes on only when everything above its
own dialog has ended, which is how nested modal loops order results. `room`
counts how often the window was made higher. In a world that `fails`,
windows may not be created, which `doOpenDashboard` does not notice. `unseen` is a history variable: a
change that no code path tells the dashboard or the tip about.

Definitions that begin with "Fault:" in their comment are not part of any
`Next`. Each is a plausible defect of one definition and is used to test the
properties: with it in place the property named for it in `PROJECT.json` fails.

## 3. Runs

| run | bounds | what it shows |
|---|---|---|
| `process_two` | 2 objects, 2 handle values, pipes of 1, 1 fragment per stream | the safety of `Process`, when a stale handle value can end another child, and that it implements `Job` |
| `process_one` | 1 object, 2 handle values, pipes of 1, 2 fragments | liveness of one object |
| `background` | 3 addresses for 2 slots, 4 queued messages | safety and liveness of slots, messages and exit |
| `scheduler` | hours of 3 minutes, days of 2 hours, Friday to Monday, 10 settings, check every 1 or 2 minutes | runs are planned, once, in time, caught up the same day |
| `dialog` | 3 modes, 4 policies, exit codes 0 to 2, 2 unread lines | output, result, footers, termination |
| `dialog_close` | scans | **fails**: close while counting files |
| `application` | 3 checks, 1 shell restart, 3 queued messages | checks, result ownership, shutdown, icon |
| `settings` | 72 profiles found by the first start, 26 entries, at most 2 of them; 2 starts, 1 scheduled run, saves cut after 1, 2 or 20 keys | settings survive everything; dialogs save and discard what they say |
| `settings_filters` | one profile, entries of filters | **fails**: patterns lose characters |
| `output` | three files, 6 filters and none on each side, 2 databases of 2 rows, 2 tries, exit codes 2 and 11, pipes of 1 | counts, progress, report, verdict, balloon |
| `logs` | 2 runs in one process, 2 ticks, limit of 2 texts, track of 4, page of 2 | order, loss, limit and temporary files of logs; the viewer |
| `desktop` | 2 processes at a time, 6 worlds (see below), 2 pending messages and dialogs, 3 periods of 8 days | one instance, requests, what dashboard and tip show, the banner |

A run's property is often a conjunction of named parts that share one evaluation:

| property | parts |
|---|---|
| `DialogInv` | `TypeOK`, `OutputHandled`, `ResultIsTrue`, `OneFooter` |
| `EndHandled` | `EndShown`, `AutoCloses` |
| `PatientIsSafe` | a dialog closed without haste has stopped its child, and a reader its context |
| `SettingsInv` | `TypeOK`, `ConfInSync` |
| `ReportInv` | `TypeOK`, `CountsTrue`, `ChosenIsScanned` |
| `ToldTrue` | `ReportComplete`, `VerdictTrue`, `BalloonTrue` |
| `TextKept` | `InOrder`, `NewestKept` |
| `TrimmedInTheEnd` | `NoTempLeft`, `LimitKept` |
| `ViewerInv` | `ViewTypeOK`, `ViewIsWhole`, `ThumbInTrack`, `DragReachesEnds` |
| `DesktopInv` | `TypeOK`, `OneInstance`, `BannerHasRoom`, `BannerIsNewer` |
| `StatusTrue` | `OwnUpdatesShown`, `TipWasTrue` |

What is proved for every value of the constants and adds nothing to a run's
question is left to the proofs: `TypeOK` of `Process`,
`Scheduler` and `Application`, `BgTypeOK` of `Background`, `OwnHandle`, `NoOrphan`, `NoLeak`,
`DeletesOnlyReported`, `NothingLeftBehind`, `OneCheck`, `RetryWhileMissing`.

Why the bounds are enough:

- *Process*: what objects share, a handle value or a write end, is shared by
  two at a time; two values make "reused" and "different" both possible. One
  fragment against a capacity of one makes a blocked writer, with two in
  `process_one` the writer blocks in mid-output. Objects restart without limit.
- *Background*: three addresses are one more than the slots, so a new task can
  take a deleted one's address or a fresh one. Four messages hold a scheduled
  run of each kind, Exit and one more ahead of finished messages.
- *Scheduler*: first and last minute of an hour, first and last hour of a day,
  the weekend inside the horizon, gap at most two of three minutes. The 36 hour
  catch-up limit is 9 minutes here and is passed. Longer limits (workdays,
  weekly) are not reached, but the catch-up block decides nothing at any length
  (`CatchUpNeverDecides`).
- *ScanDialog*: one dialog has one child; the four kinds of lines are those
  that change a result.
- *Application*: a third check can be asked for while one is in flight and one
  is in the queue.
- *Settings*: every mixture of the files a start can find, each absent, plain,
  an installer's, an old program's or used, and one edited by hand, with a day
  and a limit that no dialog saves. Keys are written in the code's
  order, so a cut after 1, 2 and 20 of them is before, inside and at the end of
  what a save changes. Two starts are needed for what the first one migrates.
- *ScanReport*: files that are clean, infected, empty and locked, in a folder
  and below it; patterns with each kind of element; every order of lines that
  two pipes of one line allow. Filters and file kinds do not interact beyond
  that. A download can fail, start again and succeed.
- *LogFile*: two runs in one process is the case in which temporary names can
  be equal; two ticks make them equal or different. A limit of two with texts
  of one gives logs below, at and above it. The sharing rules do not know which
  process a handle is of.
- *Desktop*: a launch that has ended can be launched again, so two processes
  are an unlimited sequence with two alive. `Worlds` says what goes on together,
  since all of it at once is too much: launches against each other; own updates
  in dialogs and in the background; an update by another process; a change of
  folder; announcements of versions; windows that cannot be created. Periods of
  8 days make databases fresh, more than 5 and more than 14 days old.

Deadlock is checked only for `Process` (an owner can always call). The others
stop when the application or the dialog has ended, when the runs are over, or
when a bound or the horizon is reached.

### Fairness

Always weak, and per thread: a thread that can go on does. The user, the
scheduler's posts, the shell and the launch of anything have none; nor has a
child, which may run for ever. In `Background` a task that is being deleted
ends because its child is terminated (`StopReturns` and `EndReported` of
`process_one`); that the application exits holds on that ground. In
`Application` a request ends by libcurl's timeout (30 seconds,
cw_update_checker.cpp). In `ScanDialog` the file count ends. In `Desktop` the instance's thread takes
messages, with the exception of hiding the dashboard, which only the user does,
and other processes go on with what `run()` does next; dialogs need never end.

`StopReturns` and `EndReported` are stated for one object. With two they do
not hold without further assumptions: another object's child that has received
the write ends (see `holders`) keeps the drain of stdout blocked for as long as
it runs, and `stop()` with it, on the user-interface thread.

### What the failing runs show

They state what a comment or a test of the source says.

- `dialog_close`: the destructor waits two seconds for a worker that may count
  files for longer; it goes on with a freed object and starts clamscan.
- `settings_filters`: Preferences skips 14 characters for a separator of 13
  (cw_prefs_dialog.cpp:478), so a pattern loses its first character each time it
  is shown and saved. The default masks are repaired by the next load
  (`normalizeFilterPatterns`), others are not.

### Seen while modelling, without a run of its own

Processes and dialogs

- The reader closes the process handle, the context keeps its value, and
  `stop()` terminates whatever has it now (cw_process.cpp:207). This happens
  only after the own child has ended and been reported (`StrayKillAfterReport`).
- `m_ctx` is published before `m_hThread` (cw_process.cpp:187): a Stop in
  between frees the context without a join.
- `CWProcess::start` says "Close write ends -- child has them" (:158), but
  another thread's child may have them too (see Fairness).
- Escape returns -1 for a scan that has finished (cw_scan_dialog.cpp:1277),
  where cw_scan_dialog.h promises the exit code.
- `onScanFinished` appends "Completed" after "Failed" when the child could not
  be started (cw_scan_dialog.cpp:1724, :1104).
- `CWTray::create()` returns early while `m_created` is set (cw_tray.cpp:696), so
  `TaskbarCreated` does not bring the icon back after the shell has restarted,
  as the comment at cw_application.cpp:1304 wants.

Scheduler and settings

- A task missed on an earlier day is not caught up: `isDue` returns for another
  day and for the time of day before it comes to cw_scheduler.cpp:134 (theorem
  `CatchUpNeverDecides`). The tooltip at cw_schedule_dialog.cpp:113 promises it: a
  weekly task missed on Saturday is not run on Sunday.
- `CWConfig::save` does not check its writes (cw_config.cpp:873, :900). With
  `SaveCanFail = TRUE` `AtMostOnce` fails: the next start, or the reload for a
  version check, restores an old last-run time. The `scheduler` run and
  `AtMostOnceSafe` hold for `SaveCanFail = FALSE`.
- A refused Save leaves in `m_config` what was assigned before the refusal
  (cw_prefs_dialog.cpp:1350); a following Cancel ends the dialog with IDCANCEL,
  which `doPreferences` takes for a yes (cw_application.cpp:1004), and saves it,
  a limit that was just refused included.
- The list of update frequencies is in another order than the scheduler's
  numbers: "Weekly" runs on workdays and "Workdays" weekly. A stored hourly
  frequency selects nothing, and Save is refused for it even while updates are
  off and the box cannot be used. The box for the day of an update reads and
  writes the day of the scan.
- A refused Save shows the page of the control but does not move the selection
  in the sidebar.

Output

- The number of errors is not carried into the classifier and is reset with
  every line (cw_scan_dialog.cpp:1408, :1455).
- A pattern without a separator that does not begin with a star is not anchored
  for clamscan: "notes.txt" excludes "mynotes.txt" too, and the count beforehand
  disagrees. The two matchers also differ for a star before a separator and for
  `[^..]`, and for one at the end of more than stars, such as `*c*`:
  `globMatchNoCase` is tried on the whole path too, where its last star takes
  separators (cw_scan_dialog.cpp:139, :347), while the expression
  `[^\\/]*c[^\\/]*$` has to reach the end of the name. An include list of regular
  expressions alone counts no files, and the count ignores that subfolders are not
  scanned. With `--infected` the bar stands still. `CountReached` and
  `FullBarIsDone` therefore speak of masks.
- A warning that a server failed makes the verdict "failed" although a later
  mirror succeeded. A refused update that ends with 0 is called blocked in the
  dialog and updated in the balloon. A freshclam that fails with exit code 2 is
  returned as `CW_UPDATE_RC_NO_CHANGES` (cw_gui_shared.h:157).

Logs

- cw_log_utils.h says "Thread-safe" (:5) and that a trim leaves the newest bytes
  (:17): what is appended while another run's trim is between reading and
  replacing is lost (`TextKept` excepts it, `exposed`). What is appended while the
  viewer reads is given up without a word, and a write that fails or is cut short
  goes to the debugger's output only.
- Two trims of one process in the same tick share a temporary name; the log may
  stay above its limit. Worse, if the copy of one is complete and that of the
  other then fails (cw_log_utils.cpp:135, :142), the first moves the partial copy,
  which may be empty, over the log (:154), and the log is gone. `TextKept` excepts
  this too. A crash leaves the temporary file for good. A trimmed log
  keeps FILE_ATTRIBUTE_TEMPORARY. The scheduler's debug log has no limit.

Launches, dashboard, status

- A later launch posts one request only: the check for versions hides
  `--download-db`, and without switches it is Open. Its request is lost when the
  holder of the mutex has no window, because it is starting, ending or itself
  only a later launch.
- Whether the dashboard's window could be created is not looked at
  (cw_application.cpp:850), so a request to open it may do nothing; the next one
  tries again. `OpenShows` speaks of worlds in which windows can be created.
- `--download-db` together with updating on start-up (cw_application.cpp:706,
  :713) opens two update dialogs, one inside the other; dialog, background task and
  another process may update at the same time.
- The comment at cw_application.cpp:985 says that a successful update refreshes
  the dashboard immediately; it waits for dialogs opened meanwhile. It is not
  refreshed after a change of folder, after failed or cancelled updates, by
  updates of other processes or as days pass.
- A version that is announced before the dashboard is first opened, and again
  afterwards, makes it higher twice (cw_dashboard.cpp:108). `BannerHasRoom` asks
  that there is room, not that there is no more.
- "Virus definitions not found" is also said of databases older than 14 days;
  "up to date" of a folder without a daily database. A suffix of a version is
  ignored.

## 4. Proofs

TLC checks the instances above; the theorems hold for every value of the
constants that the modules' named assumptions allow. Each module proves an
inductive invariant `IInv` (`TaskInv` for `Background`; `Told` for `ScanReport`;
`CountedInvariance`, `PlanInvariance` and `TimeInvariance` for the scheduler) with one lemma or step per action, and the
theorems from it; where that was new, TLC checked `IInv` on the run first.

The assumptions are: finite or nonempty sets and positive bounds; names that
differ where the program's do (`WhoAssumption`: a run, its child and the viewer;
`Nobody`, `NoVersion`); numbers of a version below `Base`, an arbitrary bound
(`DesktopAssumption`); for `ScanReport` the shape of tasks, at least one database
and, for a single file as the target, that file (`ReportAssumption`); and, for
`Settings`, what may be on the disk
(`SettingsAssumption`, see below). `AtMostOnceSafe`, `OnTimeSafe` and
`CaughtUpSafe` assume `~SaveCanFail` in their statements, so that a reader sees it
there.

**ProcessProofs**, for any number of objects, handle values and any capacity.
`IInv` in `Process.tla` is the inductive invariant. `CallInv` ties the point of
the owner's call to the context and the write ends; `HandleInv` says that the
value in `hproc` is the own child's until the reader closes it, which is where
the handle table stops protecting it; `PipeInv` that whoever holds a write end
is running and that past the end of a pipe nobody holds one and nothing is left
in it; `ToldInv` that the callback is the last step. `ReaderHasContext` is
inductive only with `CallInv`; `StrayKillAfterReport` needs `ChildInv` too (who has
a context has had a child): a handle value that names another object's child is
not covered by `HandleInv`, so the own reader has gone, having reported.
`DrainedBeforeReport` follows from `PipeInv`, since
the end of a pipe is read only without holders. `Refinement` maps each step to
a step of `Job` or a stutter under `IInv`.

**SchedulerProofs**, for hours and days of any length and any set of settings.
`AtMostOnceSafe` assumes that saving works. Its invariant says that memory and
disk agree and that every recorded run is of its own interval, at or after the
scheduled moment, and no later than the last run (`RunsCounted`). If a run
answered the moment of `now`'s interval, the last run lies between that run and
now, so in the same interval and past its moment (`Between`), and
`RanThisInterval` holds. This rests on lemmas about division that order days
and hours. `CatchUpNeverDecides` removes the catch-up block from `isDue`.
`PlannedRunsSafe` does without that assumption: `PlanInv` says of each recorded
run only what `isDue` and the clock decide, and `DueIsPlanned` shows that the
moment of the interval of a due task is itself planned, in the past, on the right
weekday and, without `runMissed`, in the same hour. `TypeCorrect` needs a horizon
of one day at least, the day on which the specification begins.

`OnTimeSafe` and `CaughtUpSafe` are about what must have happened by now, and
assume that saving works too: a save that is lost lets a reload bring back an
older last-run time. `TimeInv` says that no check is late, that a check leaves
nothing due, and that a last run under the present settings is a recorded post
(or older than they are). A moment that passes between two checks is due at the
second (`PlannedIsDue`, the converse of `DueIsPlanned`) unless the last run
counts for its interval, and then that run was its answer (`RanAnswers`): the
test against running twice never suppresses a first run.

The second part of **SchedulerProofs** is about `Background`, for any number of
addresses and any queue bound; its invariant is `TaskInv`. (`BgInit`, `BgNext` and
so on bear a prefix so that one module can speak of both ends of a scheduled run.)
`QueuedIsCurrent` needs `SlotInv` (a slot's task is live and of its kind) and
`ReportedInv` (a task in a slot that has reported is in the queue, unless it is
being freed or the window is gone), which in turn make `SkipOnlyWhileRunning`.
`FreeingInv` and `EndInv` carry the two deletions of the destructor.

**ApplicationProofs**, for any number of checks, restarts and messages.
`CheckInv` says that a running check is the one in `m_hThread`, so there is only
one, and that it runs before the wait of the shutdown has ended, so libcurl is
up; `StageInv` that the window exists exactly in the message loop.
`ResultOwned` is inductive with them: a result that is posted was the running
thread's, one that is taken was queued once. `RetryWhileMissing` is inductive
alone.

**ScanDialogProofs**, for any lines, policies, exit codes and lengths of the
pipe. The end of the child may be posted by the worker thread (no child was
started) or by the reader thread. `ThreadInv` says how far each of the three
threads is when the others are where they are, so that only one of the two
posts it; `EndInv` that it is then in the queue once, behind all output, and with
the child's code. `LineInv` follows a line from the pipe to the window. `CodeInv`
says who kills a child: from it `ResultIsTrue`, that a dialog which was not
cancelled returns what the child returned. `LogInv` gives one footer of each
kind, but for "Failed" followed by "Completed". `PatientSafe` needs `PatientInv`:
without haste every wait for the worker thread ends with the thread, so a
context that `stop()` looks for has been published.

**LogProofs**, for any number of runs in any number of processes, any limit and
any sizes of scroll bar, page and text. `HandleInv` ties each open handle to the
point its run is at, which is all that the sharing modes leave; `Spaced` says that
texts are further apart than their places, so that a log of `Limit` texts in
order reaches back `Limit` texts at least. `TempInv` says that a copy being made
is its run's alone, although two runs may use the same temporary name in
turn, and `TrimInv` that what a trim has not read is in `exposed`, and that a
copy which is complete has the newest texts, unless all are in `exposed` because
another run's copy of the same name failed. `TextKept` is inductive only with
them. `OwnerInv` and `AloneInv` serve `TrimmedInTheEnd`: no temporary file without
a run in its trim, and a trim that meets nobody, and whose copy works, moves it. The viewer's part
are lemmas about division: `ThumbFits`, `ThumbStays`, `DragReaches` say that the
two roundings, from text to thumb and back, stay in their ranges and meet at both
ends. `RefusalSafe` looks at a step: of the handles that can be open, only the
viewer's refuses a writer.

**DesktopProofs**, for any launches, command lines, versions and folders.
`MutexInv` says that a launch in `start` or `loop` has the mutex and is alone
there; `BannerInv` that a dashboard has room for the banner exactly when a version
is known, whichever came first. `OwnUpdatesShown` and `TipWasTrue` are
inductive with the types of the stack of dialogs: a dialog that ends below
another leaves an update open, which is what `OwnUpdate` looks for. That the
banner's version is newer by its value (`NewerIsGreater`) is arithmetic in `Base`.

**SettingsProofs**, for any files a start can find, any entries, and a save cut
short after any key. `LoadSaved` says that `load` reads back what `save` wrote in
place `p`, up to the repairs a next load makes; `LoadCut` the same of a save cut
after `n` keys, key by key. Its one difficult key is the proxy's switch, whose
value without the key depends on the host: it holds because the switch is
written before the host. `BootstrapKeepsPlace` and `SaveKeepsPlace` say that after a
start, or any part of a save, the next start chooses the same file, so `PlaceInv`
is inductive: the file in use is the one the next start would use. With it
`StoreImplemented` maps every step to a step of `SettingsStore`.
`ShownIsSaved` needs in addition that what each of the dialog's groups
assigns is what its control shows, and `RefusalFixable` that the first group
that refuses names a control of the page then shown.

`SettingsAssumption` bounds the disk. The file beside the program holds what the
installer writes (setup/Setup.iss:228), and no user's settings, unless it makes
the program standalone; a profile next to an older program's file can be told from
a copy of it. Outside of this the code does move: a template without
installer's keys that has a user's settings, or nothing but folders, may become
equal to the saved profile, which `isPristineBootstrapCopy` then takes for a
copy, so the next start turns to the older program's file.

The proof attempts corrected what was stated before: `RefusalCanBeFixed` excepted
the frequency of updates only, but the day is refused too while updates are off,
if an edited file has it out of range; and `SavedAsShown` did not except a
negative limit that is not used, which becomes zero. The `settings` run has a
profile with both now.

**ReportProofs**, for any files, sizes, filters, databases, failures and pipes.
The invariant is `Told`, in three parts. `BaseInv` has the places the tools can be
at, what kinds of lines can wait in a pipe at each, and the types; `UpdateInv` the
bytes and the outcome of an update; `ScanInv` threats, files, results, bytes, the
bar and the report of a scan. The properties speak of the end, or of an empty
pipe, and are not inductive: while lines wait the dialog is behind the tool. Each
counting part therefore says that what was read and what waits in the pipes add up
to what the tool has done, so that the order in which the two pipes are read does
not matter; at the end nothing waits. `SessionBytes` needs that the rows of progress of
a download follow one another without a gap and those of another download begin
anew (`Chained`). `FullBarIsDone` needs that what was measured never exceeds the sizes of
the files that were passed and scanned, which reach those expected only if nothing
that takes time is left (`BytesInv`; `Total` and its lemmas). `CountReached` rests on `MasksAgree`:
both matchers go through the pattern from its end and keep the set of places of
the text from which the rest matches; for a mask the two sets agree on the last
part of the path, and its leading star makes up for the different starts.

Induction over data is done there by hand: the library's theorems for it take an
operator as a parameter, but that a nonempty set of numbers has a least element
(`Least`, from `WFMin`) is a fact about sets, and with it a set that holds 0 and
the successor of every member is `Nat` (`Inductive`). The matchers, sums and the
reworked report are recursive functions, so that this suffices.

The proof attempts corrected `IsMask`: a mask with a star at its end, such as
`*c*`, was thought to be treated alike by both sides (see Output above). The
`output` run has such a filter now.

Only model-checked: everything under fairness (`StopReturns`, `EndReported`,
`WriterUnblocked`, `SlotFreed`, `ExitEnds`, `EndHandled`, `CloseEnds`,
`LateShellGetsIcon`, `OpenShows`, `ExitFreesName`), since the prover treats neither
liveness under fairness nor ENABLED; and what the failing runs show. Every
invariant and every refinement that a passing run checks is proved. No module uses
RECURSIVE.

## 5. Not modelled, and planned

Not modelled: drawing, layout, themes, mnemonics, hit testing, text conversion,
shell extension, installer, resources, third-party code; priorities, buffer sizes
and the text of lines; an explicit `--config_file`, values with quotes or longer
than the buffer they are read into, hours and minutes out of range; how a command
line is cut into words and an unknown switch becomes the path of the
configuration; the header of a database file; jumps of the clock; a full message
queue (10,000 entries).

Planned, in this order:

1. Scheduler and Background composed: a scheduled run that is skipped, fails to
   start or is dropped with the queue counts as run.
2. Liveness of two `Process` objects under the assumption that children end.
