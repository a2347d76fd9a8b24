--------------------------- MODULE DaemonLifecycle ---------------------------
(***************************************************************************)
(* One data folder, the `atc daemon` processes that own it one after the   *)
(* other, and the `atc start | stop | restart` commands that attach to     *)
(* them.  The processes share three things: the core's instance lock, the  *)
(* run record <data>/atc/run/daemon.json, and the admin port.              *)
(*                                                                         *)
(* A daemon process has one core instance for its whole life, so an        *)
(* instance id and a process are the same thing here: every element of     *)
(* Daemon is a process that can be spawned once.  Foreign holds the core's *)
(* own CLI daemons, which take the same lock and never write a record.     *)
(***************************************************************************)
EXTENDS Naturals

CONSTANTS Daemon,   \* atc daemon processes that may be spawned (bounds the restarts)
          Foreign,  \* core daemons that are not atc's
          Cmd,      \* atc commands, each run once
          NoOne

ASSUME InstancesAssumption ==
  /\ Daemon \cap Foreign = {}
  /\ NoOne \notin Daemon \cup Foreign

Instance == Daemon \cup Foreign

VARIABLES
  phase,    \* [Instance -> Phase]: how far startDaemon() and its cleanup have got
  core,     \* [Instance -> CoreState]: the embedded core
  lock,     \* the owner named in the lock file, dead or alive
  record,   \* the contents of daemon.json
  port,     \* the daemon listening on the configured admin port
  overlap,  \* history: another daemon was still at work when this one took the lock
  at,       \* [Cmd -> Step]: where a command is
  job,      \* [Cmd -> Job]: the command typed
  mode,     \* [Cmd -> {"start", "stop"}]: which half of a restart is running
  launch,   \* [Cmd -> BOOLEAN]: attach() was called with launch: true
  target,   \* [Cmd -> Instance or NoOne]: the instance the link leads to
  victim,   \* [Cmd -> Daemon or NoOne]: the process --kill is about to kill
  result    \* [Cmd -> Result]

daemonVars == <<phase, core, lock, record, port, overlap>>
cmdVars == <<at, job, mode, launch, target, victim, result>>
vars == <<phase, core, lock, record, port, overlap,
          at, job, mode, launch, target, victim, result>>

Phase == {"unborn", "creating", "recording", "binding", "readying", "serving",
          "checking", "removing", "exited", "dead", "foreign"}
CoreState == {"off", "claimed", "running", "draining", "stopped"}
Step == {"idle", "attach", "inspect", "await", "reattach", "record", "ready",
         "describe", "shutdown", "release", "killread", "kill", "killed", "done"}
Job == {"start", "stop", "stop --kill", "restart"}
Result == {"none", "started", "running", "stopped", "not running", "foreign", "error"}

\* daemon.json: who wrote it, its state, and whether it carries an admin_url.
Record == [instance : Daemon \cup {NoOne}, state : {"absent", "starting", "ready"},
           admin : BOOLEAN]
NoRecord == [instance |-> NoOne, state |-> "absent", admin |-> FALSE]

TypeOK ==
  /\ phase \in [Instance -> Phase]
  /\ core \in [Instance -> CoreState]
  /\ lock \in Instance \cup {NoOne}
  /\ record \in Record
  /\ port \in Daemon \cup {NoOne}
  /\ overlap \in [Daemon -> BOOLEAN]
  /\ at \in [Cmd -> Step]
  /\ job \in [Cmd -> Job]
  /\ mode \in [Cmd -> {"start", "stop"}]
  /\ launch \in [Cmd -> BOOLEAN]
  /\ target \in [Cmd -> Instance \cup {NoOne}]
  /\ victim \in [Cmd -> Daemon \cup {NoOne}]
  /\ result \in [Cmd -> Result]

Init ==
  /\ phase = [i \in Instance |-> "unborn"]
  /\ core = [i \in Instance |-> "off"]
  /\ lock = NoOne
  /\ record = NoRecord
  /\ port = NoOne
  /\ overlap = [d \in Daemon |-> FALSE]
  /\ at = [c \in Cmd |-> "idle"]
  /\ job = [c \in Cmd |-> "start"]
  /\ mode = [c \in Cmd |-> "start"]
  /\ launch = [c \in Cmd |-> FALSE]
  /\ target = [c \in Cmd |-> NoOne]
  /\ victim = [c \in Cmd |-> NoOne]
  /\ result = [c \in Cmd |-> "none"]

-----------------------------------------------------------------------------
(* The core's lock, as the host sees it through inspectLock and            *)
(* attachToOwner: a lock file whose owner is dead is not owned.            *)

Alive(i) == phase[i] \notin {"unborn", "exited", "dead"}
CoreUp(i) == Alive(i) /\ core[i] \in {"running", "draining"}
Owned == lock # NoOne /\ Alive(lock)
Published == lock # NoOne /\ CoreUp(lock)

-----------------------------------------------------------------------------
(* The daemon: startDaemon(), then the cleanup that follows core.stopped.  *)

\* AtomicCore.create: the lock is taken, or the call throws and the process exits.
CreateCore(d) ==
  /\ phase[d] = "creating" /\ core[d] = "off"
  /\ IF Owned
     THEN /\ phase' = [phase EXCEPT ![d] = "dead"]
          /\ UNCHANGED <<core, lock, overlap>>
     ELSE /\ lock' = d
          /\ core' = [core EXCEPT ![d] = "claimed"]
          /\ overlap' = [overlap EXCEPT ![d] =
               \E e \in Daemon \ {d} : Alive(e) /\ core[e] # "off"]
          /\ UNCHANGED phase
  /\ UNCHANGED <<record, port>> /\ UNCHANGED cmdVars

\* The control API answers and the lock is published; create() returns.
PublishCore(d) ==
  /\ phase[d] = "creating" /\ core[d] = "claimed"
  /\ core' = [core EXCEPT ![d] = "running"]
  /\ phase' = [phase EXCEPT ![d] = "recording"]
  /\ UNCHANGED <<lock, record, port, overlap>> /\ UNCHANGED cmdVars

\* Mutant: daemon.json is only written when everything is ready.
RecordOnlyWhenReady(d) ==
  /\ phase[d] = "recording"
  /\ phase' = [phase EXCEPT ![d] = "binding"]
  /\ UNCHANGED <<core, lock, record, port, overlap>> /\ UNCHANGED cmdVars

WriteStarting(d) ==
  /\ phase[d] = "recording"
  /\ record' = [instance |-> d, state |-> "starting", admin |-> FALSE]
  /\ phase' = [phase EXCEPT ![d] = "binding"]
  /\ UNCHANGED <<core, lock, port, overlap>> /\ UNCHANGED cmdVars

\* After the hardware probe: AdminServer.start, or nothing with --no-admin.
\* A port in use throws out of startDaemon and the process exits as it is.
BindAdmin(d) ==
  /\ phase[d] = "binding"
  /\ \/ /\ port = NoOne
        /\ port' = d
        /\ phase' = [phase EXCEPT ![d] = "readying"]
     \/ /\ port # NoOne
        /\ phase' = [phase EXCEPT ![d] = "dead"]
        /\ UNCHANGED port
     \/ /\ phase' = [phase EXCEPT ![d] = "readying"]
        /\ UNCHANGED port
  /\ UNCHANGED <<core, lock, record, overlap>> /\ UNCHANGED cmdVars

WriteReady(d) ==
  /\ phase[d] = "readying"
  /\ record' = [instance |-> d, state |-> "ready", admin |-> port = d]
  /\ phase' = [phase EXCEPT ![d] = "serving"]
  /\ UNCHANGED <<core, lock, port, overlap>> /\ UNCHANGED cmdVars

\* SIGINT or SIGTERM; the handlers exist only once startDaemon has returned.
Signal(d) ==
  /\ phase[d] = "serving" /\ core[d] = "running"
  /\ core' = [core EXCEPT ![d] = "draining"]
  /\ UNCHANGED <<phase, lock, record, port, overlap>> /\ UNCHANGED cmdVars

\* core.shutdown() is over: the lock is released and core.stopped resolves,
\* whatever startDaemon is doing at that moment.
ReleaseLock(d) ==
  /\ Alive(d) /\ core[d] = "draining"
  /\ core' = [core EXCEPT ![d] = "stopped"]
  /\ lock' = IF lock = d THEN NoOne ELSE lock
  /\ UNCHANGED <<phase, record, port, overlap>> /\ UNCHANGED cmdVars

\* Mutant: the cleanup begins with the signal, before the lock is released.
CloseOnSignal(d) ==
  /\ phase[d] = "serving" /\ core[d] \in {"draining", "stopped"}
  /\ port' = IF port = d THEN NoOne ELSE port
  /\ phase' = [phase EXCEPT ![d] = "checking"]
  /\ UNCHANGED <<core, lock, record, overlap>> /\ UNCHANGED cmdVars

\* Mutant: the cleanup waits for an admin there may not be.
CloseOnlyAnAdmin(d) ==
  /\ phase[d] = "serving" /\ core[d] = "stopped" /\ port = d
  /\ port' = NoOne
  /\ phase' = [phase EXCEPT ![d] = "checking"]
  /\ UNCHANGED <<core, lock, record, overlap>> /\ UNCHANGED cmdVars

\* cleanup(), first half: the timer, the event listener and the admin server.
CloseAdmin(d) ==
  /\ phase[d] = "serving" /\ core[d] = "stopped"
  /\ port' = IF port = d THEN NoOne ELSE port
  /\ phase' = [phase EXCEPT ![d] = "checking"]
  /\ UNCHANGED <<core, lock, record, overlap>> /\ UNCHANGED cmdVars

\* Mutant: the record is taken for another's whenever somebody owns the folder.
CheckOwnership(d) ==
  /\ phase[d] = "checking"
  /\ phase' = [phase EXCEPT ![d] = IF Owned THEN "exited" ELSE "removing"]
  /\ UNCHANGED <<core, lock, record, port, overlap>> /\ UNCHANGED cmdVars

\* removeDaemonRecord(): the read and the removal are two file operations.
CheckRecord(d) ==
  /\ phase[d] = "checking"
  /\ phase' = [phase EXCEPT ![d] =
       IF record.instance \notin {d, NoOne} THEN "exited" ELSE "removing"]
  /\ UNCHANGED <<core, lock, record, port, overlap>> /\ UNCHANGED cmdVars

RemoveRecord(d) ==
  /\ phase[d] = "removing"
  /\ record' = NoRecord
  /\ phase' = [phase EXCEPT ![d] = "exited"]
  /\ UNCHANGED <<core, lock, port, overlap>> /\ UNCHANGED cmdVars

\* The process dies where it stands; the kernel closes its port, its files stay.
Die(d) ==
  /\ phase' = [phase EXCEPT ![d] = "dead"]
  /\ port' = IF port = d THEN NoOne ELSE port
  /\ UNCHANGED <<core, lock, record, overlap>>

Crash(d) == Alive(d) /\ Die(d) /\ UNCHANGED cmdVars

\* The core's own CLI daemon on the same folder.
ForeignTake(f) ==
  /\ phase[f] = "unborn" /\ ~Owned
  /\ phase' = [phase EXCEPT ![f] = "foreign"]
  /\ core' = [core EXCEPT ![f] = "running"]
  /\ lock' = f
  /\ UNCHANGED <<record, port, overlap>> /\ UNCHANGED cmdVars

ForeignExit(f) ==
  /\ phase[f] = "foreign"
  /\ phase' = [phase EXCEPT ![f] = "exited"]
  /\ core' = [core EXCEPT ![f] = "stopped"]
  /\ lock' = IF lock = f THEN NoOne ELSE lock
  /\ UNCHANGED <<record, port, overlap>> /\ UNCHANGED cmdVars

DaemonStep(d) ==
  \/ CreateCore(d) \/ PublishCore(d) \/ WriteStarting(d) \/ BindAdmin(d)
  \/ WriteReady(d) \/ CloseAdmin(d) \/ CheckRecord(d) \/ RemoveRecord(d)

-----------------------------------------------------------------------------
(* The commands.                                                           *)

GoTo(c, step) == at' = [at EXCEPT ![c] = step]

Finish(c, r) ==
  /\ GoTo(c, "done")
  /\ result' = [result EXCEPT ![c] = r]
  /\ UNCHANGED <<job, mode, launch, target, victim>>

\* The end of stopCommand.run; restartCommand.run goes on with startCommand.run.
EndStop(c, r) ==
  IF job[c] = "restart"
  THEN /\ GoTo(c, "attach")
       /\ mode' = [mode EXCEPT ![c] = "start"]
       /\ UNCHANGED <<job, launch, target, victim, result>>
  ELSE Finish(c, r)

Begin(c) ==
  /\ at[c] = "idle"
  /\ \E j \in Job :
       /\ job' = [job EXCEPT ![c] = j]
       /\ mode' = [mode EXCEPT ![c] = IF j = "start" THEN "start" ELSE "stop"]
  /\ GoTo(c, "attach")
  /\ UNCHANGED <<launch, target, victim, result>> /\ UNCHANGED daemonVars

\* attachToOwner answered: the link will lead to this owner.
FollowOwner(c) ==
  /\ Published
  /\ target' = [target EXCEPT ![c] = lock]
  /\ GoTo(c, "record")
  /\ UNCHANGED <<job, mode, launch, victim, result>>

\* attachCore(): the first attachToOwner.  CORE_NOT_RUNNING without launch is
\* ATC_DAEMON_NOT_RUNNING, on which `stop` is over and `start` attaches with launch.
AttachToOwner(c) ==
  /\ at[c] = "attach"
  /\ \/ FollowOwner(c)
     \/ /\ ~Published /\ mode[c] = "stop"
        /\ EndStop(c, "not running")
     \/ /\ ~Published /\ mode[c] = "start" /\ ~launch[c]
        /\ launch' = [launch EXCEPT ![c] = TRUE]
        /\ UNCHANGED <<at, job, mode, target, victim, result>>
     \/ /\ ~Published /\ mode[c] = "start" /\ launch[c]
        /\ GoTo(c, "inspect")
        /\ UNCHANGED <<job, mode, launch, target, victim, result>>
  /\ UNCHANGED daemonVars

\* spawnDaemon: a detached `atc daemon` on the same folder.
SpawnDaemon ==
  \E d \in Daemon : phase[d] = "unborn" /\ phase' = [phase EXCEPT ![d] = "creating"]

\* inspectLock: wait for the owner that is starting, or spawn a daemon.
InspectLock(c) ==
  /\ at[c] = "inspect"
  /\ \/ /\ Owned
        /\ GoTo(c, "await")
        /\ UNCHANGED <<job, mode, launch, target, victim, result>>
        /\ UNCHANGED daemonVars
     \/ /\ ~Owned
        /\ SpawnDaemon
        /\ GoTo(c, "await")
        /\ UNCHANGED <<core, lock, record, port, overlap>>
        /\ UNCHANGED <<job, mode, launch, target, victim, result>>
     \/ /\ ~Owned                       \* ATC_DAEMON_START_FAILED
        /\ Finish(c, "error")
        /\ UNCHANGED daemonVars

\* Mutant: no deadline.
AwaitOwnerForever(c) ==
  /\ at[c] = "await"
  /\ Published /\ GoTo(c, "reattach")
  /\ UNCHANGED <<job, mode, launch, target, victim, result>>
  /\ UNCHANGED daemonVars

\* waitForPublishedOwner, and its 20 s.
AwaitOwner(c) ==
  /\ at[c] = "await"
  /\ \/ /\ Published
        /\ GoTo(c, "reattach")
        /\ UNCHANGED <<job, mode, launch, target, victim, result>>
     \/ ~Published /\ Finish(c, "error")
  /\ UNCHANGED daemonVars

\* The second attachToOwner; whatever it throws ends the command.
AttachAgain(c) ==
  /\ at[c] = "reattach"
  /\ FollowOwner(c) \/ (~Published /\ Finish(c, "error"))
  /\ UNCHANGED daemonVars

\* Mutant: any record will do.
SomeRecord(i) == record.instance # NoOne

RecordIsOf(i) == record.instance = i

Linked(c) ==
  IF mode[c] = "stop" THEN "shutdown" ELSE IF launch[c] THEN "ready" ELSE "describe"

\* waitForDaemonRecord: only the record of the lock's own instance will do.
ReadRecord(c) ==
  /\ at[c] = "record"
  /\ RecordIsOf(target[c])
  /\ GoTo(c, Linked(c))
  /\ UNCHANGED <<job, mode, launch, target, victim, result>> /\ UNCHANGED daemonVars

\* Mutant: a record that is not there at once never will be.
NoPatience(c) ==
  /\ at[c] = "record"
  /\ ~RecordIsOf(target[c])
  /\ Finish(c, "foreign")
  /\ UNCHANGED daemonVars

\* Its 20 s pass.  They are taken to outlast the one small write that
\* separates a published core from its `starting` record.
RecordTimeout(c) ==
  /\ at[c] = "record"
  /\ ~RecordIsOf(target[c])
  /\ phase[target[c]] # "recording"
  /\ Finish(c, "foreign")
  /\ UNCHANGED daemonVars

\* waitForDaemonReady: the record says `ready`, or 30 s pass; the answer is ignored.
AwaitReady(c) ==
  /\ at[c] = "ready"
  /\ GoTo(c, "describe")
  /\ UNCHANGED <<job, mode, launch, target, victim, result>> /\ UNCHANGED daemonVars

\* describeDaemon asks the core for a snapshot.
Describe(c) ==
  /\ at[c] = "describe"
  /\ Finish(c, IF ~CoreUp(target[c]) THEN "error"
               ELSE IF launch[c] THEN "started" ELSE "running")
  /\ UNCHANGED daemonVars

\* stopDaemon: POST /shutdown under a lease, which the core may refuse.
RequestShutdown(c) ==
  /\ at[c] = "shutdown"
  /\ \/ /\ CoreUp(target[c])
        /\ core' = [core EXCEPT ![target[c]] = "draining"]
        /\ GoTo(c, "release")
        /\ UNCHANGED <<job, mode, launch, target, victim, result>>
     \/ Finish(c, "error") /\ UNCHANGED core
  /\ UNCHANGED <<phase, lock, record, port, overlap>>

HasReleased(i) == ~Owned \/ lock # i

\* Mutant: what waitForRelease answers is ignored.
StopWithoutLooking(c) ==
  /\ at[c] = "release"
  /\ EndStop(c, "stopped")
  /\ UNCHANGED daemonVars

\* waitForRelease, 30 s: the sleep may end past the deadline whatever the lock says.
PollRelease(c) ==
  /\ at[c] = "release"
  /\ \/ HasReleased(target[c]) /\ EndStop(c, "stopped")
     \/ job[c] # "stop --kill" /\ Finish(c, "error")
     \/ /\ job[c] = "stop --kill"
        /\ GoTo(c, "killread")
        /\ UNCHANGED <<job, mode, launch, target, victim, result>>
  /\ UNCHANGED daemonVars

\* --kill takes the pid from whatever record there is.
ReadPid(c) ==
  /\ at[c] = "killread"
  /\ \/ /\ record.instance # NoOne
        /\ victim' = [victim EXCEPT ![c] = record.instance]
        /\ GoTo(c, "kill")
        /\ UNCHANGED <<job, mode, launch, target, result>>
     \/ record.instance = NoOne /\ Finish(c, "error")
  /\ UNCHANGED daemonVars

\* process.kill(pid, 'SIGKILL') throws when there is no such process.
KillProcess(c) ==
  /\ at[c] = "kill"
  /\ \/ /\ Alive(victim[c])
        /\ Die(victim[c])
        /\ GoTo(c, "killed")
        /\ UNCHANGED <<job, mode, launch, target, victim, result>>
     \/ ~Alive(victim[c]) /\ Finish(c, "error") /\ UNCHANGED daemonVars

\* waitForRelease again, 5 s.
PollKilled(c) ==
  /\ at[c] = "killed"
  /\ \/ HasReleased(target[c]) /\ Finish(c, "stopped")
     \/ Finish(c, "error")
  /\ UNCHANGED daemonVars

CmdStep(c) ==
  \/ AttachToOwner(c) \/ InspectLock(c) \/ AwaitOwner(c) \/ AttachAgain(c)
  \/ ReadRecord(c) \/ RecordTimeout(c) \/ AwaitReady(c) \/ Describe(c)
  \/ RequestShutdown(c) \/ PollRelease(c) \/ ReadPid(c) \/ KillProcess(c)
  \/ PollKilled(c)

-----------------------------------------------------------------------------
Next ==
  \/ \E d \in Daemon : DaemonStep(d) \/ Signal(d) \/ ReleaseLock(d) \/ Crash(d)
  \/ \E f \in Foreign : ForeignTake(f) \/ ForeignExit(f)
  \/ \E c \in Cmd : Begin(c) \/ CmdStep(c)

Spec == Init /\ [][Next]_vars

\* A started process runs on, and every wait of a command has a deadline.
\* Nothing makes the core finish draining, a person type, or a process crash.
FairSpec ==
  /\ Spec
  /\ \A d \in Daemon : WF_vars(DaemonStep(d))
  /\ \A c \in Cmd : WF_vars(CmdStep(c))

-----------------------------------------------------------------------------
(* What the lifecycle promises.                                            *)

\* A `ready` record of the folder's owner that carries an admin_url is true:
\* the admin of that very process is listening.  The order of startDaemon
\* (bind, then write) and of shutdown (release the lock, then close) gives this.
ReadyMeansListening ==
  \A d \in Daemon :
    (lock = d /\ Alive(d) /\ record.instance = d /\ record.admin) => port = d

\* No command ever works on a core that is not an atc daemon, stale record or
\* not: `stop` never shuts down the core CLI's own daemon.
LinkOnlyToAtc ==
  \A c \in Cmd :
    (\/ at[c] \in {"ready", "describe", "shutdown", "release", "killread", "kill", "killed"}
     \/ result[c] \in {"started", "running", "stopped"}) => target[c] \in Daemon

\* Once `atc stop` has said so, the daemon it stopped never owns the folder again.
StopIsFinal ==
  \A c \in Cmd : result[c] = "stopped" => HasReleased(target[c])

\* d owns the folder and no earlier daemon was still cleaning up when it took it.
SoleOwner(d) == lock = d /\ Alive(d) /\ ~overlap[d]

\* Such a daemon is never disturbed: daemon.json is its own from the moment it
\* is written, and the admin port is free when it comes to bind it.
SoleOwnerUndisturbed ==
  \A d \in Daemon : SoleOwner(d) =>
    /\ phase[d] \in {"binding", "readying", "serving"} => record.instance = d
    /\ phase[d] = "serving" => record.state = "ready"
    /\ phase[d] = "binding" => port = NoOne

\* A daemon that went through its cleanup leaves nothing of its own behind,
\* even when the core was shut down before startDaemon had finished.
CleanExitLeavesNothing ==
  \A d \in Daemon : phase[d] = "exited" => record.instance # d /\ port # d

\* ATC_DAEMON_FOREIGN is never said of such a daemon: "a command attaching now
\* must see an atc daemon, not a foreign owner".
ForeignVerdictSound ==
  [][\A c \in Cmd : (result'[c] = "foreign" /\ result[c] # "foreign") =>
       \A d \in Daemon : target[c] = d => ~SoleOwner(d)]_vars

\* Every command ends: each wait in it has a deadline.
CommandsFinish == \A c \in Cmd : (at[c] # "idle") ~> (at[c] = "done")

\* A daemon whose core has stopped gives the port back and exits.
CleanupFinishes ==
  \A d \in Daemon : (core[d] = "stopped") ~> (phase[d] \in {"exited", "dead"})

-----------------------------------------------------------------------------
(* What the comments and help texts say and the code does not do; each is  *)
(* checked by a run of its own that finds the counterexample.              *)

\* "remove daemon.json (only if it is still ours)".
RemovesOnlyItsOwnRecord ==
  [][\A d \in Daemon : (phase[d] = "removing" /\ phase'[d] = "exited") =>
       record.instance \in {d, NoOne}]_vars

\* "Stop the server: unload the models, stop the API and the admin".
StoppedMeansAdminClosed ==
  \A c \in Cmd : result[c] = "stopped" => port # target[c]

\* "After a graceful stop times out, kill the process".
KillHitsTheStoppedServer ==
  [][\A c \in Cmd : (at[c] = "kill" /\ at'[c] = "killed") => victim[c] = target[c]]_vars

=============================================================================
