------------------------------ MODULE DaemonWatch ------------------------------
(***************************************************************************)
(* The terminal UI's view of the daemon: watchDaemon and its event source  *)
(* (src/core-link/watch.ts, events.ts), and the controller that turns what *)
(* they report, its own poll and its own commands into what the screen     *)
(* shows (src/tui/controller.ts).                                          *)
(*                                                                         *)
(* The daemons of the data folder come and go one after the other; a link  *)
(* leads to one of them for ever, since each has a port and a token of its *)
(* own.  A request for a snapshot is sent, taken, and read as three steps: *)
(* anything may happen in between, to the daemon and to the screen.        *)
(***************************************************************************)
EXTENDS Naturals

CONSTANTS Cmd,          \* commands a person gives, each once
          MaxInstance,  \* bound on the daemons, one after the other
          MaxChange,    \* bound on the status events of one daemon
          Error         \* attach() threw: something else owns the folder

ASSUME WatchAssumption ==
  /\ MaxInstance \in Nat /\ MaxChange \in Nat /\ Error \notin Nat
  /\ Cmd \cap {"sub", "refresh", "poll"} = {}

\* What a snapshot is asked for: the subscription, a refresh after an event, the poll,
\* or a command that has started a daemon.  (A bound: one of each at a time.)
Purpose == {"sub", "refresh", "poll"} \cup Cmd

VARIABLES
  inst,     \* the daemon that runs, or the last one that did
  alive,    \* it runs
  version,  \* how often its status has changed
  wpc,      \* where the watcher is: "attach", "attached", "follow"
  found,    \* what its attach() found: a daemon, 0, or Error
  wasDown,
  sub,      \* its subscription: "none", "ask" for a snapshot, or "stream"
  cursor,   \* the last event the stream has delivered
  timer,    \* refreshSoon() has set its timer
  call,     \* [Purpose -> Call]
  link,     \* the controller's link: a daemon, or 0
  loads,    \* `up` states whose record and pending host steps are being read
  screen,   \* what the screen shows
  at,       \* [Cmd -> Point]
  job,      \* [Cmd -> Job]
  target,   \* [Cmd -> Nat]: the daemon a command works on
  met,      \* history: the last daemon the watcher has followed
  late      \* history: the controller has taken news of a daemon after news that superseded it

worldVars == <<inst, alive, version>>
watchVars == <<wpc, found, wasDown, sub, cursor, timer, met>>
viewVars == <<link, loads, screen>>
cmdVars == <<at, job, target>>
vars == <<inst, alive, version, wpc, found, wasDown, sub, cursor, timer, call,
          link, loads, screen, at, job, target, met, late>>

Shot == [inst : Nat, version : Nat]
Call == [state : {"free", "asked", "answered", "failed"}, shot : Shot]
Point == {"idle", "stop", "shutdown", "release", "launch", "linked", "snapshot", "done"}
Job == {"start", "stop", "restart"}
NoShot == [inst |-> 0, version |-> 0]
Free == [state |-> "free", shot |-> NoShot]

TypeOK ==
  /\ inst \in Nat /\ alive \in BOOLEAN /\ version \in Nat
  /\ wpc \in {"attach", "attached", "follow"}
  /\ found \in Nat \cup {Error}
  /\ wasDown \in BOOLEAN /\ sub \in {"none", "ask", "stream"}
  /\ cursor \in Nat /\ timer \in BOOLEAN
  /\ call \in [Purpose -> Call]
  /\ link \in Nat /\ loads \subseteq Shot
  /\ screen \in [kind : {"connecting", "down", "up"}, shot : Shot]
  /\ at \in [Cmd -> Point] /\ job \in [Cmd -> Job] /\ target \in [Cmd -> Nat]
  /\ met \in Nat /\ late \in BOOLEAN

Init ==
  /\ inst = 0 /\ alive = FALSE /\ version = 0
  /\ wpc = "attach" /\ found = 0 /\ wasDown = FALSE
  /\ sub = "none" /\ cursor = 0 /\ timer = FALSE
  /\ call = [p \in Purpose |-> Free]
  /\ link = 0 /\ loads = {}
  /\ screen = [kind |-> "connecting", shot |-> NoShot]
  /\ at = [c \in Cmd |-> "idle"] /\ job = [c \in Cmd |-> "start"] /\ target = [c \in Cmd |-> 0]
  /\ met = 0 /\ late = FALSE

Reachable(n) == alive /\ inst = n

-----------------------------------------------------------------------------
(* The world: daemons started and stopped from other shells, or crashing.  *)

Spawn ==
  /\ ~alive /\ inst < MaxInstance
  /\ inst' = inst + 1 /\ alive' = TRUE /\ version' = 0

Start == Spawn /\ UNCHANGED <<watchVars, call, viewVars, cmdVars, late>>

Exit ==
  /\ alive /\ alive' = FALSE
  /\ UNCHANGED <<inst, version, watchVars, call, viewVars, cmdVars, late>>

Change ==
  /\ alive /\ version < MaxChange
  /\ version' = version + 1
  /\ UNCHANGED <<inst, alive, watchVars, call, viewVars, cmdVars, late>>

-----------------------------------------------------------------------------
(* link.snapshot().                                                        *)

Send(p, n) ==
  /\ call[p].state = "free"
  /\ call' = [call EXCEPT ![p] = [state |-> "asked", shot |-> [inst |-> n, version |-> 0]]]

Answer(p) ==
  /\ call[p].state = "asked"
  /\ \/ /\ Reachable(call[p].shot.inst)
        /\ call' = [call EXCEPT ![p].state = "answered", ![p].shot.version = version]
     \/ /\ ~Reachable(call[p].shot.inst)
        /\ call' = [call EXCEPT ![p].state = "failed"]
  /\ UNCHANGED <<worldVars, watchVars, viewVars, cmdVars, late>>

-----------------------------------------------------------------------------
(* The controller: onDaemon(), and what it shows.                          *)

\* Mutant: an `up` whose files are read is shown whatever has been reported since.
Outdated(shots) == shots

\* A newer state wins over those whose files are still being read: seq # snapshotSeq.
Surviving(shots) == {}

\* The controller asked for this `up` itself, and has since given the daemon up for gone.
Late(shot) == shot.inst # link /\ ~Reachable(shot.inst)
\* A later daemon has been reported since.
Overtaken(n) == n < link

OnUp(shot) ==
  /\ link' = shot.inst
  /\ loads' = Surviving(loads) \cup {shot}
  /\ UNCHANGED screen

OnDown ==
  /\ link' = 0
  /\ loads' = Surviving(loads)
  /\ screen' = [kind |-> "down", shot |-> NoShot]

\* The record and the pending host steps have been read.
Show(shot) ==
  /\ shot \in loads
  /\ loads' = loads \ {shot}
  /\ screen' = [kind |-> "up", shot |-> shot]
  /\ UNCHANGED <<worldVars, watchVars, call, link, cmdVars, late>>

\* refreshUp(), every two seconds and on the `r` key.
Poll ==
  /\ link # 0
  /\ Send("poll", link)
  /\ UNCHANGED <<worldVars, watchVars, viewVars, cmdVars, late>>

PollAnswered ==
  /\ \/ /\ call["poll"].state = "answered"
        /\ OnUp(call["poll"].shot)
        /\ late' = (late \/ Late(call["poll"].shot))
     \/ call["poll"].state = "failed" /\ UNCHANGED <<viewVars, late>>
  /\ call' = [call EXCEPT !["poll"] = Free]
  /\ UNCHANGED <<worldVars, watchVars, cmdVars>>

-----------------------------------------------------------------------------
(* watchDaemon().                                                          *)

\* attach() has looked at the lock and the record ...
Attach ==
  /\ wpc = "attach" /\ wpc' = "attached"
  /\ \/ alive /\ found' = inst
     \/ ~alive /\ found' \in {0, Error}
  /\ UNCHANGED <<wasDown, sub, cursor, timer, met, worldVars, call, viewVars, cmdVars, late>>

\* ... and returns: no daemon is reported once, an error every time.
AttachedToNone ==
  /\ wpc = "attached" /\ found \in {0, Error}
  /\ IF ~wasDown \/ found = Error THEN OnDown ELSE UNCHANGED viewVars
  /\ wasDown' = TRUE
  /\ wpc' = "attach" /\ found' = 0
  /\ UNCHANGED <<sub, cursor, timer, met, worldVars, call, cmdVars, late>>

AttachedToDaemon ==
  /\ wpc = "attached" /\ found \notin {0, Error}
  /\ wasDown' = FALSE
  /\ wpc' = "follow" /\ sub' = "ask"
  /\ met' = found
  /\ UNCHANGED <<found, cursor, timer, worldVars, call, viewVars, cmdVars, late>>

\* stop(): follow() returns, its timer is cleared, and publish() ignores what still comes.
EndFollow ==
  /\ wpc' = "attach" /\ found' = 0 /\ sub' = "none" /\ cursor' = 0 /\ timer' = FALSE
  /\ call' = [call EXCEPT !["sub"] = Free, !["refresh"] = Free]

\* Mutant: a dead link is left to the event source, which retries for ever.
NoHeartbeat ==
  /\ wpc = "follow" /\ sub = "none"
  /\ EndFollow
  /\ UNCHANGED <<wasDown, met, worldVars, viewVars, cmdVars, late>>

\* health() throws; as long as it answers, the heartbeat changes nothing.
Heartbeat ==
  /\ wpc = "follow" /\ ~Reachable(found)
  /\ EndFollow
  /\ UNCHANGED <<wasDown, met, worldVars, viewVars, cmdVars, late>>

\* SseEvents.subscribe: a snapshot first, after a backoff when the last one failed ...
Subscribe ==
  /\ sub = "ask"
  /\ Send("sub", found)
  /\ UNCHANGED <<worldVars, watchVars, viewVars, cmdVars, late>>

\* ... then the stream from its cursor.
Subscribed ==
  /\ \/ /\ call["sub"].state = "answered"
        /\ OnUp(call["sub"].shot)
        /\ late' = (late \/ Overtaken(call["sub"].shot.inst))
        /\ sub' = "stream" /\ cursor' = call["sub"].shot.version
     \/ call["sub"].state = "failed" /\ UNCHANGED <<viewVars, sub, cursor, late>>
  /\ call' = [call EXCEPT !["sub"] = Free]
  /\ UNCHANGED <<wpc, found, wasDown, timer, met, worldVars, cmdVars>>

\* The stream ends: the daemon is gone, the socket dropped, or the core said `resync`.
StreamEnds ==
  /\ sub = "stream" /\ sub' = "ask" /\ cursor' = 0
  /\ UNCHANGED <<wpc, found, wasDown, timer, met, worldVars, call, viewVars, cmdVars, late>>

\* A status event: refreshSoon().
Event ==
  /\ sub = "stream" /\ Reachable(found) /\ cursor < version
  /\ cursor' = cursor + 1
  /\ timer' = TRUE
  /\ UNCHANGED <<wpc, found, wasDown, sub, met, worldVars, call, viewVars, cmdVars, late>>

TimerFires ==
  /\ timer /\ timer' = FALSE
  /\ Send("refresh", found)
  /\ UNCHANGED <<wpc, found, wasDown, sub, cursor, met, worldVars, viewVars, cmdVars, late>>

Refreshed ==
  /\ \/ /\ call["refresh"].state = "answered"
        /\ OnUp(call["refresh"].shot)
        /\ late' = (late \/ Overtaken(call["refresh"].shot.inst))
        /\ call' = [call EXCEPT !["refresh"] = Free]
        /\ UNCHANGED watchVars
     \/ /\ call["refresh"].state = "failed"
        /\ EndFollow
        /\ UNCHANGED <<wasDown, met, viewVars, late>>
  /\ UNCHANGED <<worldVars, cmdVars>>

WatchStep ==
  \/ Attach \/ AttachedToNone \/ AttachedToDaemon \/ Heartbeat
  \/ Subscribe \/ Subscribed \/ Event \/ TimerFires \/ Refreshed

-----------------------------------------------------------------------------
(* Commands.  Nothing keeps a second one from starting while one is busy.  *)

\* On to the next point, about daemon n; a restart that has stopped is a start.
GoTo(c, point, n) ==
  /\ at' = [at EXCEPT ![c] = point]
  /\ target' = [target EXCEPT ![c] = n]
  /\ job' = [job EXCEPT ![c] = IF point \in {"launch", "done"} THEN "start" ELSE @]
End(c) == GoTo(c, "done", 0)

\* `s` on a screen that says down; `S` or `R`, then `y`, on one that says up.
Begin(c) ==
  /\ at[c] = "idle"
  /\ \/ screen.kind = "down" /\ GoTo(c, "launch", 0)
     \/ /\ screen.kind = "up"
        /\ at' = [at EXCEPT ![c] = "stop"]
        /\ \E j \in {"stop", "restart"} : job' = [job EXCEPT ![c] = j]
        /\ UNCHANGED target
  /\ UNCHANGED <<worldVars, watchVars, call, viewVars, late>>

\* stop() has returned true.
Stopped(c) == IF job[c] = "restart" THEN GoTo(c, "launch", 0) ELSE End(c)

\* stop(): the controller's link, or that of whatever daemon there is.
StopWhich(c) ==
  /\ at[c] = "stop"
  /\ LET n == IF link # 0 THEN link ELSE IF alive THEN inst ELSE 0
     IN IF n = 0 THEN Stopped(c) ELSE GoTo(c, "shutdown", n)
  /\ UNCHANGED <<worldVars, watchVars, call, viewVars, late>>

\* stopDaemon(): the core accepts, or refuses, or is not there: run() notes the error.
Shutdown(c) ==
  /\ at[c] = "shutdown"
  /\ (Reachable(target[c]) /\ GoTo(c, "release", target[c])) \/ End(c)
  /\ UNCHANGED <<worldVars, watchVars, call, viewVars, late>>

\* Mutant: no deadline.
ReleaseForever(c) ==
  /\ at[c] = "release"
  /\ ~Reachable(target[c])
  /\ OnDown /\ Stopped(c)
  /\ late' = (late \/ Overtaken(target[c]))
  /\ UNCHANGED <<worldVars, watchVars, call>>

\* waitForRelease(): down at once, without the watcher; or it did not go in time.
Release(c) ==
  /\ at[c] = "release"
  /\ \/ /\ ~Reachable(target[c])
        /\ OnDown /\ Stopped(c)
        /\ late' = (late \/ Overtaken(target[c]))
     \/ End(c) /\ UNCHANGED <<viewVars, late>>
  /\ UNCHANGED <<worldVars, watchVars, call>>

\* startDaemon(): the daemon there is, a new one, or an error.
Launch(c) ==
  /\ at[c] = "launch"
  /\ \/ alive /\ GoTo(c, "linked", inst) /\ UNCHANGED worldVars
     \/ Spawn /\ GoTo(c, "linked", inst')
     \/ End(c) /\ UNCHANGED worldVars
  /\ UNCHANGED <<watchVars, call, viewVars, late>>

\* "Show it now rather than on the watcher's next attach."
AskLaunched(c) ==
  /\ at[c] = "linked"
  /\ Send(c, target[c])
  /\ GoTo(c, "snapshot", 0)
  /\ UNCHANGED <<worldVars, watchVars, viewVars, late>>

Launched(c) ==
  /\ at[c] = "snapshot"
  /\ \/ /\ call[c].state = "answered"
        /\ OnUp(call[c].shot)
        /\ late' = (late \/ Late(call[c].shot))
     \/ call[c].state = "failed" /\ UNCHANGED <<viewVars, late>>
  /\ call' = [call EXCEPT ![c] = Free]
  /\ End(c)
  /\ UNCHANGED <<worldVars, watchVars>>

CmdStep(c) ==
  \/ StopWhich(c) \/ Shutdown(c) \/ Release(c) \/ Launch(c) \/ AskLaunched(c) \/ Launched(c)

-----------------------------------------------------------------------------
ShowStep == \E shot \in loads : Show(shot)

Next ==
  \/ Start \/ Exit \/ Change
  \/ \E p \in Purpose : Answer(p)
  \/ Poll \/ PollAnswered \/ ShowStep
  \/ WatchStep \/ StreamEnds
  \/ \E c \in Cmd : Begin(c) \/ CmdStep(c)

Spec == Init /\ [][Next]_vars

\* The process runs on: its loops, timers and requests.  A stream that is up need not
\* end, one whose daemon is gone does; nobody needs to start or stop anything.
FairSpec ==
  /\ Spec
  /\ \A p \in Purpose : WF_vars(Answer(p))
  /\ WF_vars(Poll) /\ WF_vars(PollAnswered) /\ WF_vars(ShowStep)
  /\ WF_vars(Attach) /\ WF_vars(AttachedToNone \/ AttachedToDaemon) /\ WF_vars(Heartbeat)
  /\ WF_vars(Subscribe) /\ WF_vars(Subscribed) /\ WF_vars(Event)
  /\ WF_vars(TimerFires) /\ WF_vars(Refreshed)
  /\ WF_vars(StreamEnds /\ ~Reachable(found))
  /\ \A c \in Cmd : WF_vars(CmdStep(c))

-----------------------------------------------------------------------------
(* What the screen owes the person.                                        *)

Shows(n, v) == screen.kind = "up" /\ screen.shot = [inst |-> n, version |-> v]

\* When a daemon stays, the screen comes to show that daemon and its last status, whatever
\* was stopped, started, dropped or asked before; when none stays, and the watcher has
\* followed the last one, it comes to say so.
Settles ==
  /\ <>[]alive => (<>[](alive => Shows(inst, version)) \/ <>late)
  /\ <>[](~alive /\ met = inst) => (<>[](screen.kind = "down") \/ <>late)

\* The screen does not go back to an earlier daemon.
NeverBackToOldDaemon ==
  [][(screen.kind = "up" /\ screen'.kind = "up" /\ ~late) =>
       screen'.shot.inst >= screen.shot.inst]_vars

\* A command ends, and does not wait for the watcher.
TuiCommandsFinish == \A c \in Cmd : (at[c] # "idle") ~> (at[c] = "done")

-----------------------------------------------------------------------------
(* What the comments say and the code does not do.                         *)

\* "A newer state (the daemon went away meanwhile) wins over this one."
GoneIsShown == <>[]~alive => <>[](screen.kind = "down")
=============================================================================
