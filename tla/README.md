# Verification of atomic-chat-cli

TLA+ models of `atc`, the command line, daemon, web admin and terminal UI of Atomic Server; TLC
runs that check them on small instances; and proofs, checked by TLAPS, of the invariants that
matter most for every value of the constants. `PROJECT.json` holds the machine-readable index:
which definition models which lines, which run checks which property, which hazard of the code is
covered by what.

Paths below are relative to the repository; the program is under `src/`, the admin's single-page
application under `packages/admin-ui/src/`.

## 1. The system

`atc` is one program with several processes on one *data folder*:

* `atc daemon` embeds the core (`@atomic/core`, a library outside this repository), which owns the
  folder through an *instance lock* and answers a control API. The daemon writes a run record,
  `<data>/atc/run/daemon.json`, and serves the web admin on the configured port.
* `atc start | stop | restart | status | ...` are short processes that find the owner of the folder
  through the lock, recognise it as an `atc` daemon by the record, and talk to the control API.
* `atc tui` is a long process that watches whichever daemon there is.
* The admin page runs in a browser, signs in with a token from a URL fragment, and follows the
  daemon's events over one server-sent-events stream.
* A privileged *host step* is run by a helper process, as root or by hand.

They share files (lock, `daemon.json`, host-step journal, requests and results, admin token,
`config.json`, `daemon.log`), one admin port, and the control API. Nothing but the core's lock is
locked: every other file is read and written in separate steps.

### Inventory

| Component | State it keeps | Operations | Talks to | Module |
| --- | --- | --- | --- | --- |
| core-link: attach, daemon record (`core-link/attach.ts`, `daemon-record.ts`) | `daemon.json` | attach, spawn, wait for record and `ready`, write, remove | lock, daemon | `DaemonLifecycle` |
| core-link: lifecycle client (`core-link/lifecycle.ts`) | none | startDaemon, stopDaemon, waitForRelease, describe | control API, lock | `DaemonLifecycle`, `CoreLease` |
| core-link: link and lease (`core-link/link.ts`) | a registration with a heartbeat | typed requests, withLease | control API | `CoreLease` |
| core-link: events and watcher (`core-link/events.ts`, `in-process-events.ts`, `watch.ts`) | cursor, link, timers | attach, follow, heartbeat, refresh | control API, TUI | `DaemonWatch` |
| daemon (`daemon/daemon.ts`, `spawn.ts`) | phase of start-up and cleanup | startDaemon, cleanup, event wiring | core, record, admin, host steps | `DaemonLifecycle`, `HostSteps`, `AdminPage` |
| daemon: log following (`daemon/log-follow.ts`) | offset, unfinished line | readLogTail, followLog | `daemon.log` | `LogScreen` |
| commands (`commands/*.ts`) | none | start, stop, restart, daemon, host-step, config, admin, logs, doctor, ... | all of the above | `CommandTree`, `AtcCli`, and the modules of what they work on (partly) |
| host: steps and elevation (`host/host-step.ts`, `elevator.ts`, `helper.ts`) | journal, request and result files | handle, checkPendingResults, helper | core, person | `HostSteps` |
| host: facts, exec, hardware, ports, services | none | one-shot probes | operating system | not modelled |
| admin: relay (`admin/relay.ts`) | ring, sequence number, listeners | publish, subscribe, replayAfter | core events, page | `AdminRelay`, `EventStream` |
| admin: sessions and BFF (`admin/bff.ts`, `auth.ts`, `server.ts`) | sessions | sign in, sign out, status, events, proxy | page, core | `AdminRelay`, `AdminPage`, `AdminAccess`, `AdminRoutes` |
| admin: token, gates, static files | token file | ensure, rotate, gate, serve | commands, daemon, page | `AdminAccess`, `AdminRoutes` |
| admin UI: status, stream, session | status store, EventSource | bootstrap, refresh, subscribe, sign in, sign out | BFF | `AdminPage` |
| admin UI: pages and core bridge | wizard steps | render, call, route | BFF proxy | `AdminRoutes` (the calls and the routes) |
| config (`config/*.ts`) | `config.json` | read, resolve, set, unset, migrate | commands, TUI | `ConfigEdit` |
| tui: controller (`tui/controller.ts`) | link, current state, busy command | watch, poll, commands, log, config edits | watcher, control API | `DaemonWatch`, `LogScreen`, `ConfigEdit`, `AdminAccess`, `TuiScreens` (partly) |
| tui: screens and keys (`tui/state.ts`, `keys.ts`, `app.tsx`, `row-window.ts`, `screens/`) | screen state | reducer, keys, hints, windows | controller | `TuiScreens`, `RowWindow`, `LogScreen` |
| cli (`cli/*.ts`), dispatcher (`main.ts`) | none | global flags, resolve, parse, run, complete | commands | `AtcCli`, `CommandTree` (partly) |
| engines, models, update, doctor, output | none worth the name | pure functions, parsing, formatting | - | not modelled |
| process and errors (`io.ts`, `bin.ts`, `errors/`) | none | waitForShutdown, exit codes | daemon, cli | `DaemonLifecycle!Signal`, `AtcCli` |

### What is hard

* **Ownership changes hands while others are still at work.** The core releases the lock before
  the daemon has closed its admin and removed its record, so a successor starts beside a
  predecessor that is cleaning up.
* **Every wait of a command races the thing it waits for** and has a deadline of its own.
* **Files are read and written in separate steps**, by processes that may die between any two.
* **Unawaited calls**: the daemon starts `handle()` for every event and a poll every two seconds,
  none waiting for another.
* **A stream that breaks**: the page's cursor must survive lost connections, a ring that has moved
  on, and a daemon that starts numbering from one again.
* **Answers that are out of date when they arrive**: the page's status requests, the TUI's
  snapshots from four sources, a log file that changes between `stat` and `read`.
* **Time that is counted by somebody else**: the core drops a client it has not heard of for a while,
  the daemon forgets a session that has not been used, and neither tells.
* **Two descriptions of one thing**: the footer's hints and the keys, the Commands screen and the
  command line, the page's requests and the proxy's allowlist are tables kept in different files.

### What makes each component correct

* Lifecycle: a command never works on a core that is not an `atc` daemon; a record that says the
  admin is up is true; what `stop` stopped stays stopped; a daemon without an overlapping
  predecessor is never disturbed and never called foreign; every command ends.
* Host steps: no receipt of a result without a run, none withheld that was journalled as posted, no
  second run without a cause, no entry lost from the journal, and a result left by a person is turned
  into a receipt, across restarts.
* Relay: within one daemon's life a reader gets every event once and in order, or is told.
* Page: when nothing is on its way any more the page shows what the daemon is, and it never shows
  something older than it has shown.
* Watcher: the screen settles on the daemon that stays, or on the fact that there is none.
* Config: the file is a whole, acceptable document at every moment, and an edit changes its own key
  and nothing else.
* Logs: the screen holds the log without gap or repetition, and a paused view stands still.
* Screens: a press sees what the presses before it did, typing never goes to a field out of sight,
  the selection is on the screen, and every hint shown does something.
* Command line: what the screens and completion say of a command is what its words do; a global flag
  means the same wherever it stands.
* Lease: a stop is registered for as long as it works, and once ended holds up no other for long.
* Access: a link a command has printed opens the admin until the token is rotated, and not after;
  who uses the page stays signed in; what the page asks for is let through, and answered.

## 2. The modules

| Module | Models | Checked by | Proofs |
| --- | --- | --- | --- |
| `DaemonLifecycle` | daemons, the core CLI's own daemons and commands on one folder | `lifecycle`, `lifecycle_live` | `DaemonLifecycleProofs` |
| `HostSteps` | executor, journal, helper, poll, crashes | `hoststeps`, `hoststeps_queue` | `HostStepsProofs` |
| `EventStream` | abstract: what a reader of the stream is promised | refined by `AdminRelay` | `AdminStreamProofs` |
| `AdminRelay` | RelayHub, serveEvents, sessions, the browser's EventSource | `page` (composed) | `AdminStreamProofs` |
| `AdminPage` | `AdminRelay` plus status store, root layout, shell, `/api/status` | `page`, `page_live` | `AdminStreamProofs` |
| `DaemonWatch` | watchDaemon, SseEvents, the TUI controller's poll and commands | `watch` | `DaemonWatchProofs` |
| `LogScreen` | readLogTail, followLog, the Logs screen's reducer, keys and window | `logs` | `LogScreenProofs` |
| `ConfigEdit` | `config.json`, `atc config set` and `unset`, the Config screen's edits | `config` | `ConfigEditProofs` |
| `CommandTree` | every command with its arguments and options, and what help says of it | `keys` (composed) | - |
| `AtcCli` | the command line, the dispatcher, completion, the rows of the Commands screen | `keys` (composed) | `TuiScreensProofs` |
| `RowWindow` | the slice of a list that fits the screen | `keys` (composed) | `TuiScreensProofs` |
| `TuiScreens` | reducer, keys, hints, app; the shell the UI is opened from | `keys` | `TuiScreensProofs` |
| `CoreLease` | withLease, as two stops and the core see it | `lease` | `DaemonLifecycleProofs`, last part |
| `AdminRoutes` | gates, handler, proxy allowlist, static files; the page's requests and routes | `access` (composed) | `AdminAccessProofs` |
| `AdminAccess` | token file, sessions, and the page's requests under them | `access` | `AdminAccessProofs` |

`MC*` modules add the symmetry sets. In every module a variable declared "history" is read by
properties only. Operators headed `Mutant:` are plausible bugs of the definition below them; they
are used by no specification, and each breaks the property `PROJECT.json` names beside it.

### DaemonLifecycle

`phase[d]` is the statement of `startDaemon()` or of its cleanup that daemon `d` is at
(`daemon/daemon.ts`), `core[d]` the state of the embedded core, `lock`, `record` and `port` the
three things shared. `at[c]` is where a command is in `commands/lifecycle.ts`, through
`attachCore`, `startDaemon` and `stopDaemon`. Each action is the code between two awaits:
`removeDaemonRecord` is `CheckRecord` and `RemoveRecord` because it reads and then removes. A
crash (`Crash`) may happen anywhere and leaves the files.

The core is external: it is modelled by what the host sees of its lock - a lock whose owner is dead
counts as free; the lock is released inside `core.shutdown()`, before `core.stopped` is awaited.
An instance id names one process: `AtomicCore.create` draws a new one each time it takes the lock.
`HasReleased` is `waitForRelease`'s test: no live owner, or another one than the target.

Assumption made by a guard: `RecordTimeout` is not taken while the target is between publishing its
lock and writing its `starting` record. The code allows 20 s for that one small write.

### HostSteps

A task is one call of `handle()` or `checkPendingResults()`; `pc[t]` is the await it is at. The journal
is a function from steps to states with the order of its entries, `tmp` its temporary file, which has
one name for all calls, so that `Rename` can find it gone. `writeFile` is `OpenTmp`, which truncates,
and `WriteTmp`; `to[t]` is what the file a call has open is called by the time it writes, since another
call may have renamed it (`Renamed`), and `Torn` is the text of two calls in one file (`WrittenOver`),
in which `load` finds no entries. `mem` and `seen` are what a call has read and may be out of date;
`outcome` is what the receipt on its way reports, `failed` also when there was no helper to start. The
events of operations of other cores are ignored (`foreign`). `RunByHand` is the person who runs the
command shown by `atc status`; `Crash` is a daemon that dies and its successor.

### EventStream, AdminRelay, AdminPage

`EventStream` says what the relay promises one reader: it knows only how many events were published
and the last one the reader knows of. `AdminRelay` implements it under the mapping
`position <- Cursor`, the reader's cursor as long as it is a number of this daemon. `Publish`,
`ReplayAfter` and `Connect` are the code of `relay.ts` and `serveEvents`; `source` is the browser's
`EventSource`, which reconnects with the last id it received and stays closed after an HTTP error.

`AdminPage` extends it: `DaemonStep` and `Deliver` embed the relay's actions, `Refresh`, `Settle`
and `TimerFires` are the status store, `Mount` and `Unmount` the shell, `Bootstrap`, `SignIn` and
`SignOut` the session. A status is identified by the daemon it is of and by how many events that
daemon had published. `Slot` is the set of requests that can be out at once; the code never has
more than one, which is what the mutant `RefreshAtOnce` changes, and the second slot is there for
it. `Due` is the status events the page can have heard of: those since its stream was first open and its
handlers were there (`base`, `since`), but for what a break without a cursor has swallowed (`lost`).

### DaemonWatch

Daemons come and go one after the other; each has a port and a token of its own, so that a link
leads to one of them for ever (so the `resync` with reason `instance-changed` of `events.ts:57` has
no occasion here). A request for a snapshot is three steps - sent, answered, read - and
`call` has one of each purpose. `link`, `loads` and `screen` are the controller's: `OnUp` and
`OnDown` are `onDaemon`, `Show` the dispatch after the awaited reads, with `Surviving` as the
sequence number that decides which state wins.

### LogScreen

A line reaches the file in two parts, so that a read may fall between them; a part is identified by
the line and by whether it ends it, which is all the properties tell apart. `position` and `partial`
are followLog's, `lines`, `follow`, `scroll` and `filter` the reducer's. `Truncate` may leave an
empty file or none. `disturbed` says that the file was truncated and the reader has not noticed;
it is reset by the step that notices. `SplitText` is `split('\n')` with what `pop()` takes off its end,
`Matching` the filter: both are folds, part by part and line by line, since that is the form a proof
can work on. The filter stands for any text that the lines of odd numbers hold.

### ConfigEdit

An edit is one call of `setConfigValue` or `unsetConfigValue` with the `loadConfig` before it.
`tui` is the set of edits that are key presses in one terminal UI (`editConfig` is started for each
and awaited by none); every other edit is a process of its own. A file is an inode: `conf` and `tmp[p]`
are names, `fd[e]` an open file, so that a rename moves a name from under a writer.
`writeFile` is `OpenTmp`, which truncates, and `WriteTmp`. A document has its version, a value or nothing
for each field, the key version 1 kept the engine under, and the keys that are no field; the field
table is the constants `Field`, `Default` and `Legal`. The temporary name holds the process id and
is taken to be unique: a file left by a dead process of the same id would be truncated by `open`.
An environment value that cannot be typed ends every command alike and is left out, as is a document
whose version is below 1 (refused, like one that is too new).

### CommandTree, AtcCli

`CommandTree` is data: the commands of `commands/*.ts` in the order of `walkCommands`, each with its
kind (`runs`, `stub` for `notImplemented()`, `group`), how many arguments it needs and takes, and its
options. `AtcCli` is what is computed from it: `splitGlobalFlags` and `parseInvocation` are folds over
the words of a line (`NextWord` is one turn of the former's loop, `Split` its result and where it is),
`resolveCommand` takes the longest path the line begins with, `runCli` the order of `main.ts`,
`wordsFor` and `commandRows` what completion and the Commands screen say. A word is a string as the
shell hands it over, compared and never taken apart. What a command of its own does is its component's;
here it `runs`. `parseArgs` of Node is external. Values that several definitions need are handed on as
parameters rather than named by LET, since TLC's coverage unfolds a LET at each of its uses.

### RowWindow, TuiScreens

`state` is the reducer's, `latest` the one the key handler keeps in `app.tsx`: a press is looked up in
the table of keys under `latest` (`handleKey`), the action goes to both, and a frame (`Render`) copies
the former over the latter. What the controller dispatches on its own (`DaemonSeen`, `ConfigRead`,
`DoctorDone`, `LinkAnswered`) goes to the reducer only. The table and the hints are two definitions
because they are two in `keys.ts`. A text is its length, since keys only ask whether there is one;
terminal sizes, help lengths and fields are constants. A process that
has ended (`Quit`, `Leave`) keeps none of it. `Enter` is a line at the shell; one of those
that `AtcCli` says opens the UI leads to `Open`.

### CoreLease

Time is counted in heartbeat intervals: `Tick` takes one from every registration and makes the timers
that run fall due. `await[c]` is the await of a stop, in `withLease` up to `leave` and in
`waitForRelease` after it. `due` and `beat` are a timer that is to fire and a heartbeat on its way;
`HeartbeatOnce`, used by nothing, is the mutant of a heartbeat that is not renewed. `TTL` is the
core's and external.

### AdminRoutes, AdminAccess

`AdminRoutes` has no state: a path is the sequence of its segments, `Gate`, `Handler`, `proxyAllowed`
and `ServeStatic` decide what becomes of a request, and the `...Calls` are the requests the page's
clients make. The proxy compares its prefixes for writes by `startsWith`, so that a segment may go on
where the prefix ends (`GoesOn`), and those for reads segment by segment. `AdminAccess` is the state
they are decided under. A `task` is one use of the token file and `at` its await: `Peek`, `Read`, `Open`
(which truncates) and `Write`, which every one of `ensureAdminToken` and `rotateAdminToken` is put
together from. `cookie` and `age` are the browser's session, counted in ticks of which it may go `Idle`
unused. Tokens are numbered in the order they are made.

## 3. The runs

Every run passes. Bounds are constants of the `.cfg`; every one of them is the smallest at which the
cases named happen.

| Run | Instance | What it shows |
| --- | --- | --- |
| `lifecycle` | 2 daemons, 1 foreign daemon, 2 commands | `ReadyMeansListening`, `LinkOnlyToAtc`, `StopIsFinal`, `SoleOwnerUndisturbed`, `CleanExitLeavesNothing`, `ForeignVerdictSound` in every interleaving of start, stop, restart, `--kill`, signals and crashes. Two daemons give a predecessor and a successor that overlap, two commands a race for the spawn and a stop against a start |
| `lifecycle_live` | 2 daemons, 2 commands | `CommandsFinish`, `CleanupFinishes`. No symmetry (unsound for liveness), hence no foreign daemon |
| `hoststeps` | 2 steps, 2 calls in flight, 4 runs of the helper for each, 1 crash, 1 overlap, no new call once two upserts have interleaved | `NoReceiptWithoutRun`, `RerunsHaveACause`, `JournalOnlyAdvances`. One crash and one overlap allow 3 runs of a step, so the fourth is there to be refused |
| `hoststeps_queue` | 2 steps, 1 call in flight, 2 runs, 1 crash | `ManualResultIsPosted` when the entry is not the first of the journal |
| `page` | ring of 1, 3 events, 2 daemons, 2 requests | `StreamKept` (the refinement), `LiveStatusIsCurrent` (every event that is due), `ShownNeverGoesBack`. A ring of 1 and 3 events let the ring overrun a disconnected reader by one and by two |
| `page_live` | ring of 1, 2 events, 2 daemons | `StatusCatchesUp` |
| `watch` | 2 daemons one after the other, 1 command, 1 status event each | `Settles` (on the daemon that stays, or on the fact that there is none), `NeverBackToOldDaemon`, `TuiCommandsFinish` |
| `logs` | 4 lines in 8 parts, 2 truncations, a tail of 3 parts, 3 lines kept, 1 on the screen | `HoldsTheLog`, `SameLinesInView`, `EveryLineArrives`. 4 lines push one out of the 3 kept; a tail of 3 parts begins in the middle of a line and at its start |
| `config` | 2 edits of which none, one or both are the terminal UI's; 2 fields, one without a default; 3 values, one illegal; every document of version 1 and 2 over these, a newer one, and none; every set of overridden fields | `AlwaysWhole`, `NeverRefused`, `EditChangesOnlyItsKey`, kills between any two steps included. Two edits are what it takes for a lost update, and for two writers of one temporary file |
| `keys` | every command with up to two arguments, every option of each with what may follow it, and some thirty lines nobody planned, on 3 kinds of terminal; then the UI with 2 fields, 2 commands, 2 terminal sizes, 1 doctor and 1 link request under way, texts of one letter | `ScreenAgreesWithCli`, `FlagsAnywhere`, `EachPressSeesTheLast`, `EditorOnItsScreen`, `HintsWork`, `CursorInView`, `DoctorAnswers`. One size has one line for a list and the other the welcome box and two; one help text fits and one does not. The number of commands in the list is 2 rather than the real one because only the group headings between them matter to the window, and the theorem `RowsStayInView` has every length |
| `lease` | 2 stops, with or without `--force` and another client; a registration of 3 intervals | `LeaseCoversWork`, `LeaseOnlyLapses`, `StopsEnd`. 3 is the least at which a heartbeat can be one interval late and be in time |
| `access` | 2 uses of the token file at once, 3 tokens, sessions of 1 tick, 2 providers, model ids of one and two segments | `OldLinksStop`, `PrintedLinkKeepsWorking`, `SignedInWhileUsed`, `RuntimeReachesCore`, `ReloadKeepsThePage`. The third token is what a rotation makes while a command makes the second beside the first; an id of two segments is what makes a wildcard of one segment miss it |

No property checks types: the type invariants are proved (section 4) or stated in the module.

`CHECK_DEADLOCK FALSE` is set for the lifecycle, host-step, watcher, config, keys and lease runs: the
processes a person starts are bounded there, or the UI can be left, so the system does come to rest
when all of them are done and nothing is left to do. The page, log and access runs check deadlock.

### Fairness

Liveness is checked under the fairness the code's scheduling gives and no more.

* `DaemonLifecycle!FairSpec`: a process that has been started runs on (weak fairness of each
  daemon's own steps and of each command's). There is none for `Signal`, `Crash`, `Begin`, nor for
  `ReleaseLock`: nothing makes the core finish draining, so a command must not depend on it.
* `HostSteps!FairSpec`: calls run on; the two-second timer keeps firing (strong, since a timer fires
  again and again while a slot of the model may be taken); the core repeats its event while it
  waits for the step, and takes a receipt it is sent again and again.
* `AdminPage!PageFairSpec`: browser and daemon answer what they are asked. Strong fairness for the
  delivery, the timer and the answers: each is disabled for a while by a break or a restart, and
  happens when the connection is there often enough. A person need not do anything.
* `DaemonWatch!FairSpec`: the loops, timers and requests of the process (weak). A stream whose
  daemon is gone ends; one that is up need not.
* `LogScreen!FairSpec`: the reader polls every half second (weak); nobody has to write or type.
* `TuiScreens!FairSpec`: a state that has changed is drawn, and the checks of doctor end (weak). No
  key has to be pressed and no link answered.
* `CoreLease!LeaseFairSpec`: a stop runs on, its timers fire, its requests are answered or fail (weak).
  There is none for `CoreExits`: a core that was asked to stop may take for ever.

### Histories that qualify a property

`mixed` of `HostSteps` (two upserts have been under way together) qualifies `RerunsHaveACause`,
`JournalOnlyAdvances` and `ManualResultIsPosted`: with it the properties are false of the code
(`JournalledBeforeRun` below). What repeats a run without it is counted: `cut` is the crashes
between `Elevator.run` and the `ran` of the journal, `overlaps` the calls of `handle()` that passed the
lookup beside another one of their step; neither is excluded from `RerunsHaveACause`, which says that
there is nothing else. `overlap` in
`SoleOwner` excludes a daemon that took the folder while a predecessor was at work; what goes wrong
then is `RemovesOnlyItsOwnRecord` below. `late` (the controller has taken news of a daemon after
news that superseded it) and `met` (the last daemon the watcher has followed) qualify the watcher's
liveness, and `watch_gone` is what happens without them. `base` and `since` are where the page's
stream and handlers began: events before them are `KeepsStatusLive` below. `lost` is the newest event
published or on its way in a break before the first frame: `BreaksAreMadeGood` below. `disturbed` is the
truncated log nobody has noticed. `mixed` of `ConfigEdit` (two edits of one terminal UI have had the temporary file
open together) qualifies all three properties: `Intact` below is what happens then;
`EditChangesOnlyItsKey` also asks that nobody has renamed since the edit read, and
`OthersSurvive` is what happens otherwise. `late` in `CoreLease` is a heartbeat the core took a whole
interval to answer, or never did. In `AdminAccess`, `retired` and `settled` are the tokens a rotation
has put out of use and those printed while nobody was writing the file; `FirstLinkWorks` is what
happens to the others. `restarted` excludes sessions lost with their daemon.
`EachPressSeesTheLast` speaks of the frames from the configuration's first on; `EveryPressSeesTheLast`
is the press before it.

## 4. The proofs

TLAPS proves these for every value of the constants, under the assumptions the modules declare:

* `InstancesAssumption`: atc's daemons, foreign daemons and `NoOne` are distinct;
* `HostStepsAssumption`: `None` is not a step, the calls in flight are finitely many, bounds are
  naturals, strategies are the three there are; `NoneIsNoJournal`: what a call has not read yet is not a journal;
* `RelayAssumption`: the ring holds at least one event, bounds are naturals, `NoId` is not a number;
* `ConfigAssumption`: defaults are legal; inodes, `NoFile` and the terminal UI are told apart;
* `WatchAssumption`: an error is not a daemon, and a command is none of the watcher's own requests;
* `LeaseAssumption`: a registration outlasts one heartbeat interval (the core says how often it
  wants to hear of a client, so less would be of no use);
* `AccessAssumption`: bounds are naturals; `RoutesAssumption`: the id of a model is a path of at
  least one segment;
* `ScreensAssumption`: there is a command, a help text has its number of lines at every width,
  sizes are numbers, and a line at the shell is a sequence of strings;
* `LogAssumption`: the tail, the lines kept and the lines that fit are at least one, bounds are naturals.

Calls in flight are counted, so they are finitely many. No finiteness of the sets of daemons, commands,
steps, edits, values, requests, stops, uses of the token file, fields or terminal sizes is assumed.

| Module | Theorem | Establishes |
| --- | --- | --- |
| `DaemonLifecycleProofs` | `TypeCorrect` | `[]TypeOK` |
| | `ReadyRecordIsTrue` | `[]ReadyMeansListening` |
| | `CommandsLinkToAtc` | `[]LinkOnlyToAtc` |
| | `SoleOwnerIsUndisturbed` | `[]SoleOwnerUndisturbed` |
| | `CleanExits` | `[]CleanExitLeavesNothing` |
| | `StopsAreFinal` | `[]StopIsFinal` |
| | `ForeignVerdicts` | the action property `ForeignVerdictSound` |
| | `LeaseTypeCorrect` | `LeaseSpec => []LeaseTypeOK` |
| | `LeaseCovers` | `[]LeaseCoversWork` |
| | `LeaseLapses` | the action property `LeaseOnlyLapses` |
| `HostStepsProofs` | `TypeCorrect` | `[]TypeOK` |
| | `ReceiptsComeFromRuns` | `[]NoReceiptWithoutRun` |
| | `PostedIsReceipted` | `[]PostedMeansReceipted` |
| | `RerunsAccountedFor` | `[]RerunsHaveACause` |
| | `JournalAdvances` | the action property `JournalOnlyAdvances` |
| `AdminStreamProofs` | `TypeCorrect` | `[]TypeOK` |
| | `NothingIsMissed` | `[]NothingMissed` |
| | `StreamIsKept` | `Spec => StreamKept`: the relay implements `EventStream` |
| | `PageTypeCorrect` | `PageSpec => []PageTypeOK` |
| | `PageInvariance` | `PageSpec => []PageInv`, the invariant described below |
| | `ScreenGoesOn` | the action property `ShownNeverGoesBack` |
| | `NothingLeftBehind` | `[]LiveStatusIsCurrent` |
| | `PageStreamIsKept` | `PageSpec => StreamKept`: the page on the relay does so too |
| `DaemonWatchProofs` | `TypeCorrect` | `[]TypeOK` |
| | `WatchInductive` | `[]IInv`, the invariant described below |
| | `DaemonsGoForward` | the action property `NeverBackToOldDaemon` |
| `LogScreenProofs` | `TypeCorrect` | `[]TypeOK` |
| | `Inductive` | `[]LogInv`, the invariant described below |
| | `LogIsHeld` | `[]HoldsTheLog` |
| | `ViewStays` | the action property `SameLinesInView` |
| `ConfigEditProofs` | `TypeCorrect` | `[]TypeOK` |
| | `WholeFile` | `[]AlwaysWhole` |
| | `NextCommandReads` | `[]NeverRefused` |
| | `EditsKeepTheRest` | the action property `EditChangesOnlyItsKey` |
| `AdminAccessProofs` | `TypeCorrect` | `[]TypeOK` |
| | `TokensInductive` | `[]TokenInv`, the invariant described below |
| | `RotationRevokes` | `[]OldLinksStop` |
| | `LinksAreKept` | `[]PrintedLinkKeepsWorking` |
| | `SignInOnlyWhenGone` | `[]SignedInWhileUsed` |
| | `CallsReachTheCore` | `[]RuntimeReachesCore` |
| | `PagesAreKept` | `[]ReloadKeepsThePage` |
| `TuiScreensProofs` | `ScreensInductive`, `TypeCorrect` | `[]IInv`, `[]TypeOK` |
| | `PressesAreSeen` | `[]EachPressSeesTheLast` |
| | `EditorsStayOnTheirScreens` | `[]EditorOnItsScreen` |
| | `RowsStayInView` | `[]CursorInView` |
| | `EveryHintWorks` | `[]HintsWork` |
| | `FlagsAreTakenAnywhere` | `[]FlagsAnywhere` |
| | `ScreenSaysWhatTheCliDoes` | `[]ScreenAgreesWithCli` |
| | `WindowHoldsCursor` | the slice is within the list, no longer than the screen, and holds the cursor's row |
| | `WindowOfShrunkList` | so it is for a cursor that is past the end of a list which has become shorter |

**Lifecycle.** None of the invariants is inductive. `IInv` adds `CommandsLinked` (where a command's
link can lead at each of its steps), `CoreFollowsPhase` (how far the core is at each statement of
`startDaemon`, and that a lock names a core that was claimed), `RecordFollowsPhase` (what a daemon
has left in `daemon.json` and on the port at each phase) and `SoleOwnership` (a sole owner's peers
are dead, gone, or have no core). `StepCases` groups the steps by what they do to the daemons, so
that each invariant is proved once per kind of step. `StopIsFinal` rests on the fact that a core
that has been claimed is never claimed again; `ForeignVerdictSound` on the target's phase being
`recording` whenever a sole owner's record is not its own.

**Host steps.** `IInv` says that everything a call carries is still true when it uses it: every
copy of the journal - the file, the temporary file, what a call has loaded, what the poll walks
over - calls a step run or posted only if it is (`CopiesTrue`), a call is at a point only with the
facts that brought it there (`CallsTrue`), a result file means a run (`ResultsTrue`). The facts are
monotone, so that no interleaving of the copies can falsify them, which is why stale copies lose
entries and never invent a receipt.

That a run is repeated for a cause only needs besides that a call finds the journal as it left it,
which interleaved upserts can undo (the divergences below). `OrderInv` holds until `mixed`: one upsert at
a time, of the journal as it is on disk, in a temporary file of its own (`Alone`); one call at work on a
step that had no overlap (`OneAtWork`); and how far the journal has a step when a call for it is where it
is (`InOrder`). `RunsCounted` is an account of each step: the runs done, the calls that may still run
the helper or hand it to a person (`Claims`), and one more if there is a run nobody has claimed
(`Vacant`: a step that is still to be handled, or one that waits for a person), are together at most
`1 + cut + overlaps`. A call that claims takes the vacant run or is an overlap; a run is paid by its
claim; a crash releases the claims and leaves one vacant run, which is a new one only if an outcome was
on its way to the journal - that is what `cut` counts. `AccountKept` and `AccountReleased` are the two
ways a step changes it. `JournalOnlyAdvances` follows from `Alone` and `InOrder` at the rename, the
only step that changes the journal while upserts are alone.

**Relay.** `RingInv` relates the oldest number kept to the length of the log, `Wire` says that the
frames on their way are consecutive and end at the newest event, and that only the first can be a
`resync`, `Joined` that they continue the reader's cursor. The lemma `Replayed` states what
`ReplayAfter` returns. `StreamStep` then maps every step to a step of `EventStream` or to a
stutter: `Receive` is `Begin`, `Follow` or `Resync` according to the cursor and the frame.

**Page.** `PageInv` holds on top of the relay's `IInv`, which the page's steps keep because each is a step
of the relay or leaves it alone (`RelayStep`). `Requests` says that one request is out at a time, with at
most one more asked for; `Answers` that what is on its way is not older than what is shown and neither is
from the future, which is `ShownNeverGoesBack` at the one step that changes the screen. `NothingForgotten`
says of every status event the page owes its reader that somebody will bring it: the frame still on its
way (`Carried` relates the wire to the log for that), the timer, the queued request, a request the daemon
has yet to answer, an answer that has the event, or an error; with all of these gone only the screen
itself is left, which is `LiveStatusIsCurrent`.

**Watcher.** Nobody knows of a daemon before it has been started (`KnownInv`): an answer to the
controller's own request that is not of the linked daemon, and not late, is of one that runs, hence of
the newest. `FollowInv` says that subscription and refresh go to a daemon, never to the error `attach` may have found. `ScreenInv`
is the order: what is being read for the screen is of the daemon the link leads to, and what is on the
screen of that one or an earlier one. News that is not late is of the linked daemon or of a later one
(`LateIs`) and moves the link first; since each piece of news drops what is still being read
(`Surviving`), the screen follows the link. This is where `snapshotSeq` of the controller is needed.

**Config.** `IInv` says, until `mixed`, that each process has one edit at most with its temporary file
open (`OwnTmp`), that the file is empty until it is written and whole from then on (`TmpState`), that
no two names stand for one file (`NamesApart`), and that the inode an edit may create is not there
yet (`Fresh`): so neither truncating nor writing touches what `conf` names. `AcceptedInv` carries
the checks of `Load` through to the rename; the lemma `WrittenIsAccepted` says that migrating, filling
in and changing one checked key keep a document acceptable. `WroteInv` says that the file about to be
renamed holds what its edit has written; the lemma `FileOfWritten` that reading that back - migrating and
filling in defaults a second time - gives what the edit had read but for its key, which is
`EditChangesOnlyItsKey` as long as what it had read is still in the file.

**Lease.** A registration is worth `TTL` intervals after each answer, and `TTL - 1` only while the timer
is due or a heartbeat is on its way (`RenewedInTime`), so that a tick cannot take it to zero unless a
heartbeat was late. `TimersInv` ties timers and heartbeats to the work, which is why nothing renews the
registration of a stop that has ended. These theorems are in `DaemonLifecycleProofs`, which
extends both modules: a stop is the same command there, seen from the folder and from the core.

**Logs.** `FileInv` says that the file holds the last parts written, in their turn, so that no part is in
it twice. `ReaderInv` is what the reader knows as long as the file is the one it has seen: it has read no
further than the end (`ReadUpTo`); what it keeps back is a head at its offset and nothing else
(`PartialInv`); and the lines of the screen with what is kept back are one stretch of the file up to the
offset, in whole lines, which begins at the top or leaves out less than the tail reaches (`LinesInv`,
`Shown`). A truncation breaks all of it and the step that notices restores it. At the hand-over
(`TailReadKeepsReader`) the stretch begins behind the fragment the tail was cut in, and a line without its
newline is on the screen and not kept back, so that its end comes as a line of its own: that is the `cut`
of `Whole`. `HoldsTheLog` follows from `LogInv` by arithmetic on the stretch.

`SameLinesInView` needs the invariant too: no line is in the log twice, so a line has one place in what
passes the filter before the append and one after it; the append moves it down by what fell out above and
the window, counted from the end, by the lines that came and pass (`MatchingConcat`). A line of the window
that is still kept is therefore in it again.

The lines of a text, the text of lines and the filter are folds, and what they make of two texts put
together is an induction over the second. The theorems for induction that take an operator being out of
reach, induction is proved here for a *set* of sequences, from the least length that has a counterexample
(`SequenceInduction`, which rests on `WFMin`); and a fold is taken for the value of the function it recurs
on (`FoldExists`, `FoldExtends`), from which follow its values at `<<>>` and `Append`, and from those
`SplitWhole`, `FlattenConcat` and `MatchingConcat`.

**Flags.** For `FlagsAnywhere` the same induction runs over the words of a line: the states of
`splitGlobalFlags` after any beginning of the line with and without `-q` differ in that flag and in nothing
else, or are both an error already; behind a `--` they have the same flags (`QuietSplit`). What the
dispatcher then does asks for no flag but `json`, `help` and `version`, so it does the same (`QuietLine`).

**The tree of commands.** `ScreenAgreesWithCli` needs more than the table: that a line leads to the
command it names. `Tree` is what is proved of every list of `src/commands` and, list by list, of
the whole tree (`JoinedTrees`, `RootTree`): two commands never have the same words, the words before
the last of a command are a group's (`Heads`), a group takes no arguments, a bare group's default is
a command that needs none, and every stub is planned for an iteration. Then no longer name than the
command's own is found in a line that says it with as many arguments as it takes (`LongestName`), `resolveCommand`
leads to it or to its default (`LeadsTo`), the strict parser counts words that are no options
(`PlainArguments`, by the induction of the flags), and the dispatcher does what the table says
(`PlainCall`), whatever those words are.

**Access.** A token that is being written is nobody else's (`WritersInv`), and the file never holds one a
finished rotation has retired (`TokensInv`, `TasksInv`); a login that began after that compares with a
token that is not the retired one (`PresentersInv`), which is `OldLinksStop`. For the links that stay,
`SettledInv` says that the file holds the settled token and nobody writes another. `SessionInv` is the
agreement of the store's clock with the page's use. The calls are proved for every engine and id of a
model: what a path is let through for depends on its first segment or two (`AllowedByFirstSegment`), and
the rest of it, an id, may be any sequence of segments (`PathPrefixes`).

**Screens.** A state is `Proper` when the cursor is in the rows as far as they are known and an editor is
on its own screen for the row under the cursor; `Sensible` is what a key may mean in such a state.
The lemmas go table by table: each key of a table means something sensible (`...KeysAreSensible`), each
sensible action leaves a proper state (`KeysKeepProper`), no two rows of a table share a key
(`...KeysApart`), and each hint is a key that does something (`...HintsWork`). Reducer and key handler
are kept together by `Behind`: they agree in all that keys change and differ at most by a configuration
that the handler has not seen drawn. Of the command line they use `LinesEndWell`: whatever the
words, the outcome is an exit code or a screen there is.

**Windows.** `RowWindow` is arithmetic; its theorems follow from a case distinction on whether the list
fits, and on which end of it the cursor is near. `RowsStayInView` cites them.

**Model-checked only.**

* Liveness and everything with fairness or ENABLED: `CommandsFinish`, `TuiCommandsFinish`,
  `CleanupFinishes`, `ManualResultIsPosted`, `StatusCatchesUp`, `Settles`, `EveryLineArrives`,
  `DoctorAnswers`, `StopsEnd`.

Proved and not run are the type invariants, and `PostedMeansReceipted` and `NothingMissed`, which
`NoReceiptWithoutRun` and `StreamKept` come close to. The prover has no RECURSIVE operators either;
the models have none.

## 5. Known divergences

What a comment, a help text or a document says and the code does not do. Each is reproduced by
running TLC with the `.cfg` named; a `.cfg` that holds several has one active and the others as
comments.

| Property | `.cfg` | What happens |
| --- | --- | --- |
| `KillHitsTheStoppedServer` | `lifecycle_stop_kill` | lifecycle.ts:92 and the help of `stop`: `--kill` takes the pid from whatever record there is after 30 s; it may be a later daemon's |
| `RemovesOnlyItsOwnRecord` | `lifecycle_divergences` | docs/architecture.md:133 "(only if it is still ours)": the check and the removal are two steps, the record may be the successor's by then |
| `StoppedMeansAdminClosed` | `lifecycle_divergences` | the help text of `stop` promises the admin is stopped; `stop` returns when the lock is released, before the admin is closed |
| `OneStopWins` | `lease_mutual` | two stops without `--force` hold a lease each and are refused on account of one another; none stops the server |
| `RepairedNotRepeated` | `hoststeps_lost` | host-step.ts:4-6, docs/architecture.md:180-182 "repaired ... rather than repeated": a daemon that dies before the journal has `ran` leaves `requested`, and the next one runs the helper again |
| `HelperRunsOnce` | `hoststeps_divergences` | host-step.ts:108: two overlapping events for one step both find nothing in the journal and run the helper twice |
| `JournalledBeforeRun` | `hoststeps_divergences` | "The journal is written before anything runs": interleaved upserts lose each other's entries |
| `EveryResultIsPosted` | `hoststeps_lost` | one receipt the core refuses for good (a cancelled operation) ends every walk at that entry |
| `RanIsReceipted` | `hoststeps_lost` | a crash between `ran` and the receipt is not repaired: handle() and the poll both pass over `ran` |
| `ForeignCursorResynced` | `relay_foreign_cursor` | a cursor from the previous daemon is compared with this daemon's numbers: up to that number nothing is replayed and no `resync` is sent |
| `KeepsStatusLive` | `page_divergences` | a status event between the first status and the opening of the stream is not reflected |
| `BreaksAreMadeGood` | `page_divergences` | relay.ts:2-3, docs/admin-ui.md:72: a stream that breaks before its first frame has no cursor, relay.ts:35 replays nothing to it, so the status events of the break and those that were on the wire are lost |
| `SignedOutStaysOut` | `page_divergences` | services/index.ts:57: a status request answered after signing out brings the shell, and a stream, back |
| `LearnsOfNewDaemon` | `page_restart` | after a restart the cookie is refused, the stream stays closed, and the page goes on showing the old daemon |
| `FirstLinkWorks` | `access_divergences` | two commands that each find no token file each make one; the link of the one whose write was first is dead before it is opened |
| `LinkIsOneTime` | `access_divergences` | SignIn.tsx:56 "a one-time token": a login compares the token and leaves it where it is, the same link signs in again and again until a rotation (which is what `PrintedLinkKeepsWorking` relies on) |
| `AllRuntimeReachesCore` | `access_divergences` | the page's client asks for `GET capabilities` and `GET runtimes/foundation-models/availability`; the proxy's allowlist has neither and answers 403 |
| `GoneIsShown` | `watch_gone` | a daemon that is gone is shown as up: its snapshot is read after its `down`, or only the controller ever knew of it |
| `StartsAgain` | `logs_again` | a log replaced by one that has grown as long is taken for the old one; a log that vanishes between `stat` and `open` ends following for good |
| `Intact` | `config_divergences` | file.ts:2 "atomic (tmp + rename)": two edits of one terminal UI share `config.json.<pid>.tmp`; the one renames what the other has just truncated or is writing |
| `OthersSurvive` | `config_divergences` | edit.ts:4 "unknown keys in the file survive", parse.ts:12: of two edits at the same time the later write undoes the earlier; and a read that fails counts as no file, so the next edit writes the defaults over everything |
| `UnsetRepairs` | `config_divergences` | parse.ts:103 "fix the file or `atc config unset <key>`": `unset` loads the config first and is refused for the very value it is to remove |
| `UnsetRemoves` | `config_divergences` | commands/config.ts:63 "Remove one value from the config file (the default applies again)": today's default is written into the file (so edit.ts:54 says), and stays there when the default changes |
| `EveryPressSeesTheLast` | `keys_divergences` | app.tsx "each press must see what the previous one did": a press between the coming of the configuration and its first frame moves a cursor in no rows |
| `FooterIsTrue` | `keys_divergences` | the footer goes on showing the screen's hints while an overlay, the editor or the filter has the keyboard |
| `SpinnerWhileChecking` | `keys_divergences` | of two runs of doctor the first to end stops the spinner, the other still runs |
| `HelpShown` | `keys_divergences` | a help text scrolled to its end is past it when the terminal grows |
| `OfferedIsTaken` | `keys_divergences` | cli: "nothing can drift between what a command accepts and what it says it accepts": `atc update --version 1.2.3` prints the version of this atc, the global `--version` is taken out of the line first |

Lesser ones, read and not run: `status --watch` is not implemented and is not in `PLANNED_PARTIAL`;
completion offers `host-step exec` after a parent that is hidden; the Commands screen shows `update` as
working, which without `--check` it is not; `doctor` loads the configuration before its checks run, so
that "config file parses" cannot fail; `restart` starts without the options of the `start` before it.

## 6. Not modelled

* Pure functions of one value: formatting, help texts, version comparison, update plans, tables.
* One-shot I/O: host facts, hardware probe, ports, service manager, doctor's checks. They keep no state
  and their answers are inputs of the modules that use them.
* Rendering: the screens' layout, colours, the page's components; the setup wizard's steps.
* The flag layer of `resolveConfig` and the context a command is given.
* Elevation strategies the code itself does not implement (they throw; that is `unavailable`).
* `InProcessEvents`: built by the daemon, subscribed to by nobody with a snapshot handler.
* Engines and models: types and tables for later iterations of the program; their commands are stubs,
  which is what `CommandTree` has of them.
* The content of answers: a typed route of `link.ts` or of the page's client is a request that is let
  through or not, and answered or not.

## 7. Plan

Done: the lifecycle, host steps, the relay with its abstract stream, the page, the watcher, the log
screen, the config file; the screens and keys, the command line, the lease, the token file, sessions,
gates and proxy; and the proofs of every safety and action property the runs check. Next, in this
order:

1. An abstract specification of the lifecycle (one owner, who comes and goes) and the proof that
   `DaemonLifecycle` implements it.
2. `ConfigEdit`: an abstract register per key that the edits implement; the precedence of defaults,
   file, environment and flags.
3. The setup wizard (`containers/setup/`): what a step believes while the daemon behind the proxy
   changes.
4. The rotation of the log sink (`output/logger.ts`) and the version order (`update/semver.ts`), as
   functions checked against a reference definition.
