------------------------ MODULE DaemonLifecycleProofs ------------------------
(***************************************************************************)
(* The safety properties of DaemonLifecycle for any number of daemons,     *)
(* foreign cores and commands.  The inductive invariant is built in        *)
(* layers, each proved with the help of those below it:                    *)
(*   TypeOK, then how the core follows the startup phase, then what the    *)
(*   record and the port say about that phase, then what a sole owner may  *)
(*   rely on, then what the commands know of the instance they link to.    *)
(* The last part proves the same of CoreLease, the registration a stop     *)
(* holds while it asks the core to shut down.                              *)
(***************************************************************************)
EXTENDS DaemonLifecycle, CoreLease, TLAPS

\* The embedded core's state is determined by the startup phase up to a shutdown.
CoreFollowsPhase ==
  \A d \in Daemon :
    /\ phase[d] # "foreign"
    /\ phase[d] = "unborn" => core[d] = "off"
    /\ phase[d] = "creating" => core[d] \in {"off", "claimed"}
    /\ phase[d] \in {"recording", "binding", "readying", "serving"}
         => core[d] \in {"running", "draining", "stopped"}
    /\ phase[d] \in {"checking", "removing", "exited"} => core[d] = "stopped"
    /\ core[d] \in {"off", "stopped"} => lock # d

\* What daemon.json and the port tell about the process they name.
RecordFollowsPhase ==
  /\ record.admin => record.state = "ready"
  /\ \A d \in Daemon :
       /\ record.instance = d
            => phase[d] \in {"binding", "readying", "serving", "checking", "removing", "dead"}
       /\ record.instance = d /\ record.state = "ready"
            => phase[d] \in {"serving", "checking", "removing", "dead"}
       /\ record.instance = d /\ phase[d] = "serving" => record.state = "ready"
       /\ record.instance = d /\ record.admin /\ phase[d] = "serving" => port = d
       /\ port = d => phase[d] \in {"readying", "serving"}

\* While a sole owner lives, every other live daemon is one that has yet to
\* find the lock taken, so nobody else writes the record or holds the port.
SoleOwnership ==
  \A d \in Daemon : SoleOwner(d) =>
    /\ \A e \in Daemon \ {d} : Alive(e) => core[e] = "off"
    /\ phase[d] \in {"binding", "readying", "serving"} => record.instance = d

\* A linked command leads to an instance whose core was up when it attached.
CommandsLinked ==
  \A c \in Cmd :
    /\ at[c] # "done" => result[c] = "none"
    /\ target[c] \in Daemon => core[target[c]] \notin {"off", "claimed"}
    /\ at[c] = "record" => target[c] # NoOne
    /\ at[c] = "kill" => victim[c] # NoOne

-----------------------------------------------------------------------------
(* What a command may do to the shared state.                              *)

Spawns ==
  \E d \in Daemon :
    /\ phase[d] = "unborn"
    /\ phase' = [phase EXCEPT ![d] = "creating"]
    /\ UNCHANGED <<core, lock, record, port, overlap>>

Drains ==
  \E i \in Instance :
    /\ CoreUp(i)
    /\ core' = [core EXCEPT ![i] = "draining"]
    /\ UNCHANGED <<phase, lock, record, port, overlap>>

Kills == \E d \in Daemon : Alive(d) /\ Die(d)

\* Every step, seen from the daemons: one of theirs, or one of three a command takes.
LEMMA StepCases ==
  ASSUME TypeOK, LinkOnlyToAtc, CommandsLinked, [Next]_vars
  PROVE  \/ UNCHANGED daemonVars
         \/ Spawns \/ Drains \/ Kills
         \/ \E d \in Daemon : \/ CreateCore(d) \/ PublishCore(d) \/ WriteStarting(d)
                              \/ BindAdmin(d) \/ WriteReady(d) \/ CloseAdmin(d)
                              \/ CheckRecord(d) \/ RemoveRecord(d) \/ ReleaseLock(d)
         \/ \E f \in Foreign : ForeignTake(f) \/ ForeignExit(f)
<1>1. CASE UNCHANGED vars
  BY <1>1 DEF vars, daemonVars
<1>2. ASSUME NEW d \in Daemon, DaemonStep(d) \/ ReleaseLock(d)
      PROVE  \/ CreateCore(d) \/ PublishCore(d) \/ WriteStarting(d)
             \/ BindAdmin(d) \/ WriteReady(d) \/ CloseAdmin(d)
             \/ CheckRecord(d) \/ RemoveRecord(d) \/ ReleaseLock(d)
  BY <1>2 DEF DaemonStep
<1>3. ASSUME NEW d \in Daemon, Signal(d) PROVE Drains
  BY <1>3 DEF Signal, Drains, CoreUp, Alive, Instance
<1>4. ASSUME NEW d \in Daemon, Crash(d) PROVE Kills
  BY <1>4 DEF Crash, Kills
<1>5. ASSUME NEW c \in Cmd, Begin(c) \/ CmdStep(c)
      PROVE  UNCHANGED daemonVars \/ Spawns \/ Drains \/ Kills
  <2>1. CASE InspectLock(c)
    BY <2>1 DEF InspectLock, SpawnDaemon, Spawns
  <2>2. CASE RequestShutdown(c)
    <3>1. target[c] \in Instance
      BY <2>2 DEF RequestShutdown, LinkOnlyToAtc, Instance
    <3>2. QED
      BY <2>2, <3>1 DEF RequestShutdown, Drains, daemonVars
  <2>3. CASE KillProcess(c)
    <3>1. victim[c] \in Daemon
      BY <2>3 DEF KillProcess, CommandsLinked, TypeOK
    <3>2. QED
      BY <2>3, <3>1 DEF KillProcess, Kills
  <2>4. CASE Begin(c) \/ AttachToOwner(c) \/ AwaitOwner(c) \/ AttachAgain(c)
    BY <2>4 DEF Begin, AttachToOwner, AwaitOwner, AttachAgain
  <2>5. CASE ReadRecord(c) \/ RecordTimeout(c) \/ AwaitReady(c) \/ Describe(c)
    BY <2>5 DEF ReadRecord, RecordTimeout, AwaitReady, Describe
  <2>6. CASE PollRelease(c) \/ ReadPid(c) \/ PollKilled(c)
    BY <2>6 DEF PollRelease, ReadPid, PollKilled
  <2>7. QED
    BY <1>5, <2>1, <2>2, <2>3, <2>4, <2>5, <2>6 DEF CmdStep
<1>6. QED
  BY <1>1, <1>2, <1>3, <1>4, <1>5 DEF Next, DaemonStep

\* And seen from the commands: a step of one of them, or none of their business.
LEMMA StepsOfOthers ==
  ASSUME [Next]_vars
  PROVE  UNCHANGED cmdVars \/ \E c \in Cmd : Begin(c) \/ CmdStep(c)
<1>1. ASSUME NEW d \in Daemon, DaemonStep(d) \/ Signal(d) \/ ReleaseLock(d) \/ Crash(d)
      PROVE  UNCHANGED cmdVars
  BY <1>1 DEF DaemonStep, CreateCore, PublishCore, WriteStarting, BindAdmin, WriteReady,
              CloseAdmin, CheckRecord, RemoveRecord, Signal, ReleaseLock, Crash
<1>2. ASSUME NEW f \in Foreign, ForeignTake(f) \/ ForeignExit(f) PROVE UNCHANGED cmdVars
  BY <1>2 DEF ForeignTake, ForeignExit
<1>3. QED
  BY <1>1, <1>2 DEF Next, vars, cmdVars

-----------------------------------------------------------------------------
\* However a stop ends, alone or as the first half of a restart, types are kept.
LEMMA EndStopTypes ==
  ASSUME TypeOK, NEW c \in Cmd, NEW r \in Result, EndStop(c, r)
  PROVE  /\ at' \in [Cmd -> Step] /\ job' \in [Cmd -> Job]
         /\ mode' \in [Cmd -> {"start", "stop"}] /\ launch' \in [Cmd -> BOOLEAN]
         /\ target' \in [Cmd -> Instance \cup {NoOne}]
         /\ victim' \in [Cmd -> Daemon \cup {NoOne}] /\ result' \in [Cmd -> Result]
<1>1. CASE job[c] = "restart"
  BY <1>1 DEF TypeOK, EndStop, GoTo, Step
<1>2. CASE job[c] # "restart"
  BY <1>2 DEF TypeOK, EndStop, Finish, GoTo, Step
<1>3. QED
  BY <1>1, <1>2

\* Every variable keeps its type: records are written by daemons only, links
\* lead to instances, and the victim of --kill is a daemon some record named.
THEOREM TypeCorrect == Spec => []TypeOK
<1>1. Init => TypeOK
  BY InstancesAssumption
     DEF Init, TypeOK, Phase, CoreState, Step, Job, Result, Record, NoRecord, Instance
<1>2. TypeOK /\ [Next]_vars => TypeOK'
  <2> SUFFICES ASSUME TypeOK, [Next]_vars PROVE TypeOK'
    OBVIOUS
  <2> USE DEF TypeOK, Phase, CoreState, Step, Job, Result, Record, Instance
  <2>1. CASE UNCHANGED vars
    BY <2>1 DEF vars
  <2>2. ASSUME NEW d \in Daemon, CreateCore(d) PROVE TypeOK'
    BY <2>2 DEF CreateCore, cmdVars
  <2>3. ASSUME NEW d \in Daemon, PublishCore(d) PROVE TypeOK'
    BY <2>3 DEF PublishCore, cmdVars
  <2>4. ASSUME NEW d \in Daemon, WriteStarting(d) PROVE TypeOK'
    BY <2>4 DEF WriteStarting, cmdVars
  <2>5. ASSUME NEW d \in Daemon, BindAdmin(d) PROVE TypeOK'
    BY <2>5 DEF BindAdmin, cmdVars
  <2>6. ASSUME NEW d \in Daemon, WriteReady(d) PROVE TypeOK'
    BY <2>6 DEF WriteReady, cmdVars
  <2>7. ASSUME NEW d \in Daemon, CloseAdmin(d) PROVE TypeOK'
    BY <2>7 DEF CloseAdmin, cmdVars
  <2>8. ASSUME NEW d \in Daemon, CheckRecord(d) PROVE TypeOK'
    BY <2>8 DEF CheckRecord, cmdVars
  <2>9. ASSUME NEW d \in Daemon, RemoveRecord(d) PROVE TypeOK'
    BY <2>9 DEF RemoveRecord, NoRecord, cmdVars
  <2>10. ASSUME NEW d \in Daemon, Signal(d) PROVE TypeOK'
    BY <2>10 DEF Signal, cmdVars
  <2>11. ASSUME NEW d \in Daemon, ReleaseLock(d) PROVE TypeOK'
    BY <2>11 DEF ReleaseLock, cmdVars
  <2>12. ASSUME NEW d \in Daemon, Crash(d) PROVE TypeOK'
    BY <2>12 DEF Crash, Die, cmdVars
  <2>13. ASSUME NEW f \in Foreign, ForeignTake(f) PROVE TypeOK'
    BY <2>13 DEF ForeignTake, cmdVars
  <2>14. ASSUME NEW f \in Foreign, ForeignExit(f) PROVE TypeOK'
    BY <2>14 DEF ForeignExit, cmdVars
  <2>15. ASSUME NEW c \in Cmd, Begin(c) PROVE TypeOK'
    BY <2>15 DEF Begin, GoTo, daemonVars
  <2>16. ASSUME NEW c \in Cmd, AttachToOwner(c) PROVE TypeOK'
    <3>1. CASE EndStop(c, "not running")
      BY <2>16, <3>1, EndStopTypes DEF AttachToOwner, daemonVars
    <3>2. CASE FollowOwner(c)
      BY <2>16, <3>2 DEF AttachToOwner, GoTo, FollowOwner, Published, daemonVars
    <3>3. CASE ~EndStop(c, "not running") /\ ~FollowOwner(c)
      BY <2>16, <3>3 DEF AttachToOwner, GoTo, daemonVars
    <3>4. QED
      BY <3>1, <3>2, <3>3
  <2>17. ASSUME NEW c \in Cmd, InspectLock(c) PROVE TypeOK'
    BY <2>17 DEF InspectLock, SpawnDaemon, GoTo, Finish, daemonVars
  <2>18. ASSUME NEW c \in Cmd, AwaitOwner(c) PROVE TypeOK'
    BY <2>18 DEF AwaitOwner, GoTo, Finish, daemonVars
  <2>19. ASSUME NEW c \in Cmd, AttachAgain(c) PROVE TypeOK'
    <3>1. CASE FollowOwner(c)
      BY <2>19, <3>1 DEF AttachAgain, GoTo, FollowOwner, Published, daemonVars
    <3>2. CASE Finish(c, "error")
      BY <2>19, <3>2 DEF AttachAgain, GoTo, Finish, daemonVars
    <3>3. QED
      BY <2>19, <3>1, <3>2 DEF AttachAgain
  <2>20. ASSUME NEW c \in Cmd, ReadRecord(c) PROVE TypeOK'
    BY <2>20 DEF ReadRecord, GoTo, Linked, daemonVars
  <2>21. ASSUME NEW c \in Cmd, RecordTimeout(c) PROVE TypeOK'
    BY <2>21 DEF RecordTimeout, GoTo, Finish, daemonVars
  <2>22. ASSUME NEW c \in Cmd, AwaitReady(c) PROVE TypeOK'
    BY <2>22 DEF AwaitReady, GoTo, daemonVars
  <2>23. ASSUME NEW c \in Cmd, Describe(c) PROVE TypeOK'
    BY <2>23 DEF Describe, GoTo, Finish, daemonVars
  <2>24. ASSUME NEW c \in Cmd, RequestShutdown(c) PROVE TypeOK'
    BY <2>24 DEF RequestShutdown, GoTo, Finish, daemonVars
  <2>25. ASSUME NEW c \in Cmd, PollRelease(c) PROVE TypeOK'
    <3>1. CASE EndStop(c, "stopped")
      BY <2>25, <3>1, EndStopTypes DEF PollRelease, daemonVars
    <3>2. CASE ~EndStop(c, "stopped")
      BY <2>25, <3>2 DEF PollRelease, GoTo, Finish, daemonVars
    <3>3. QED
      BY <3>1, <3>2
  <2>26. ASSUME NEW c \in Cmd, ReadPid(c) PROVE TypeOK'
    BY <2>26 DEF ReadPid, GoTo, Finish, daemonVars
  <2>27. ASSUME NEW c \in Cmd, KillProcess(c) PROVE TypeOK'
    BY <2>27 DEF KillProcess, GoTo, Die, Finish, daemonVars
  <2>28. ASSUME NEW c \in Cmd, PollKilled(c) PROVE TypeOK'
    BY <2>28 DEF PollKilled, GoTo, Finish, daemonVars
  <2>29. QED
    BY <2>1, <2>2, <2>3, <2>4, <2>5, <2>6, <2>7, <2>8, <2>9, <2>10,
       <2>11, <2>12, <2>13, <2>14, <2>15, <2>16, <2>17, <2>18, <2>19,
       <2>20, <2>21, <2>22, <2>23, <2>24, <2>25, <2>26, <2>27, <2>28
       DEF Next, DaemonStep, CmdStep
<1>3. QED
  BY <1>1, <1>2, PTL DEF Spec

-----------------------------------------------------------------------------
\* A command only ever works on an atc daemon, whatever stale records and
\* foreign cores it meets; the side facts make the invariant inductive.
LinkInv == LinkOnlyToAtc /\ CommandsLinked

\* Commands that work on a core work on an atc daemon's, whatever step is taken.
LEMMA LinkInvInductive ==
  ASSUME TypeOK, LinkInv, [Next]_vars
  PROVE  LinkInv'
<1> USE DEF LinkInv, LinkOnlyToAtc, CommandsLinked
<1>1. ASSUME UNCHANGED <<cmdVars, core>> PROVE LinkInv'
  BY <1>1 DEF cmdVars
<1>2. ASSUME NEW d \in Daemon, DaemonStep(d) \/ Signal(d) \/ ReleaseLock(d) \/ Crash(d)
      PROVE  LinkInv'
  <2>1. UNCHANGED cmdVars
    BY <1>2 DEF DaemonStep, CreateCore, PublishCore, WriteStarting, BindAdmin, WriteReady,
                CloseAdmin, CheckRecord, RemoveRecord, Signal, ReleaseLock, Crash
  <2>2. \A e \in Daemon : core[e] \notin {"off", "claimed"} => core'[e] \notin {"off", "claimed"}
    BY <1>2 DEF DaemonStep, CreateCore, PublishCore, WriteStarting, BindAdmin, WriteReady,
                CloseAdmin, CheckRecord, RemoveRecord, Signal, ReleaseLock, Crash, Die,
                TypeOK, Instance
  <2>3. QED
    BY <2>1, <2>2 DEF cmdVars
<1>3. ASSUME NEW f \in Foreign, ForeignTake(f) \/ ForeignExit(f) PROVE LinkInv'
  <2>1. UNCHANGED cmdVars
    BY <1>3 DEF ForeignTake, ForeignExit
  <2>2. \A e \in Daemon : core'[e] = core[e]
    BY <1>3, InstancesAssumption DEF ForeignTake, ForeignExit, TypeOK, Instance
  <2>3. QED
    BY <2>1, <2>2 DEF cmdVars
<1> USE InstancesAssumption DEF TypeOK, Instance
<1>4. ASSUME NEW c \in Cmd, Begin(c) PROVE LinkInv'
  BY <1>4 DEF Begin, GoTo, daemonVars
<1>5. ASSUME NEW c \in Cmd, AttachToOwner(c) PROVE LinkInv'
  <2>1. CASE EndStop(c, "not running")
    BY <1>5, <2>1 DEF AttachToOwner, EndStop, Finish, GoTo, daemonVars
  <2>2. CASE FollowOwner(c)
    BY <1>5, <2>2 DEF AttachToOwner, FollowOwner, GoTo, Published, CoreUp, daemonVars
  <2>3. CASE ~EndStop(c, "not running") /\ ~FollowOwner(c)
    BY <1>5, <2>3 DEF AttachToOwner, GoTo, daemonVars
  <2>4. QED
    BY <2>1, <2>2, <2>3
<1>6. ASSUME NEW c \in Cmd, InspectLock(c) PROVE LinkInv'
  BY <1>6 DEF InspectLock, Finish, GoTo, daemonVars
<1>7. ASSUME NEW c \in Cmd, AwaitOwner(c) PROVE LinkInv'
  BY <1>7 DEF AwaitOwner, Finish, GoTo, daemonVars
<1>8. ASSUME NEW c \in Cmd, AttachAgain(c) PROVE LinkInv'
  BY <1>8 DEF AttachAgain, FollowOwner, Finish, GoTo, Published, CoreUp, daemonVars
<1>9. ASSUME NEW c \in Cmd, ReadRecord(c) PROVE LinkInv'
  BY <1>9 DEF ReadRecord, Linked, RecordIsOf, GoTo, Record, daemonVars
<1>10. ASSUME NEW c \in Cmd, RecordTimeout(c) PROVE LinkInv'
  BY <1>10 DEF RecordTimeout, Finish, GoTo, daemonVars
<1>11. ASSUME NEW c \in Cmd, AwaitReady(c) PROVE LinkInv'
  BY <1>11 DEF AwaitReady, GoTo, daemonVars
<1>12. ASSUME NEW c \in Cmd, Describe(c) PROVE LinkInv'
  BY <1>12 DEF Describe, Finish, GoTo, daemonVars
<1>13. ASSUME NEW c \in Cmd, RequestShutdown(c) PROVE LinkInv'
  BY <1>13 DEF RequestShutdown, Finish, GoTo, CoreUp, daemonVars
<1>14. ASSUME NEW c \in Cmd, PollRelease(c) PROVE LinkInv'
  BY <1>14 DEF PollRelease, EndStop, Finish, GoTo, daemonVars
<1>15. ASSUME NEW c \in Cmd, ReadPid(c) PROVE LinkInv'
  BY <1>15 DEF ReadPid, Finish, GoTo, Record, daemonVars
<1>16. ASSUME NEW c \in Cmd, KillProcess(c) PROVE LinkInv'
  BY <1>16 DEF KillProcess, Die, Finish, GoTo, daemonVars
<1>17. ASSUME NEW c \in Cmd, PollKilled(c) PROVE LinkInv'
  BY <1>17 DEF PollKilled, Finish, GoTo, daemonVars
<1>18. QED
  BY <1>1, <1>2, <1>3, <1>4, <1>5, <1>6, <1>7, <1>8, <1>9, <1>10,
      <1>11, <1>12, <1>13, <1>14, <1>15, <1>16, <1>17
     DEF Next, CmdStep, vars, cmdVars

\* So from the start on: ReadRecord is the only way to a core, and it reads an atc record.
THEOREM LinksAreSafe == Spec => []LinkInv
<1>1. Init => LinkInv
  BY InstancesAssumption DEF Init, LinkInv, LinkOnlyToAtc, CommandsLinked, Instance
<1>2. QED
  BY <1>1, TypeCorrect, LinkInvInductive, PTL DEF Spec

-----------------------------------------------------------------------------
\* startDaemon's phases and the core's states move together in every step.
LEMMA CoreFollowsPhaseInductive ==
  ASSUME TypeOK, LinkInv, CoreFollowsPhase, [Next]_vars
  PROVE  CoreFollowsPhase'
<1> USE InstancesAssumption DEF CoreFollowsPhase, Alive, Owned, TypeOK, Instance
<1>1. CASE UNCHANGED daemonVars
  BY <1>1 DEF daemonVars
<1>2. CASE Spawns
  BY <1>2 DEF Spawns
<1>3. CASE Drains
  BY <1>3 DEF Drains, CoreUp
<1>4. CASE Kills
  BY <1>4 DEF Kills, Die
<1>5. ASSUME NEW d \in Daemon, CreateCore(d) PROVE CoreFollowsPhase'
  BY <1>5 DEF CreateCore
<1>6. ASSUME NEW d \in Daemon, PublishCore(d) PROVE CoreFollowsPhase'
  BY <1>6 DEF PublishCore
<1>7. ASSUME NEW d \in Daemon, WriteStarting(d) PROVE CoreFollowsPhase'
  BY <1>7 DEF WriteStarting
<1>8. ASSUME NEW d \in Daemon, BindAdmin(d) PROVE CoreFollowsPhase'
  BY <1>8 DEF BindAdmin
<1>9. ASSUME NEW d \in Daemon, WriteReady(d) PROVE CoreFollowsPhase'
  BY <1>9 DEF WriteReady
<1>10. ASSUME NEW d \in Daemon, CloseAdmin(d) PROVE CoreFollowsPhase'
  BY <1>10 DEF CloseAdmin
<1>11. ASSUME NEW d \in Daemon, CheckRecord(d) PROVE CoreFollowsPhase'
  BY <1>11 DEF CheckRecord
<1>12. ASSUME NEW d \in Daemon, RemoveRecord(d) PROVE CoreFollowsPhase'
  BY <1>12 DEF RemoveRecord
<1>13. ASSUME NEW d \in Daemon, ReleaseLock(d) PROVE CoreFollowsPhase'
  BY <1>13 DEF ReleaseLock
<1>14. ASSUME NEW f \in Foreign, ForeignTake(f) PROVE CoreFollowsPhase'
  BY <1>14 DEF ForeignTake
<1>15. ASSUME NEW f \in Foreign, ForeignExit(f) PROVE CoreFollowsPhase'
  BY <1>15 DEF ForeignExit
<1>16. QED
  BY StepCases, <1>1, <1>2, <1>3, <1>4, <1>5, <1>6, <1>7, <1>8,
     <1>9, <1>10, <1>11, <1>12, <1>13, <1>14, <1>15
     DEF LinkInv

\* No step makes daemon.json or the admin port name a process in the wrong phase.
LEMMA RecordFollowsPhaseInductive ==
  ASSUME TypeOK, LinkInv, CoreFollowsPhase, RecordFollowsPhase, [Next]_vars
  PROVE  RecordFollowsPhase'
<1> USE InstancesAssumption DEF RecordFollowsPhase, CoreFollowsPhase, Alive, TypeOK, Instance, Record
<1>1. CASE UNCHANGED daemonVars
  BY <1>1 DEF daemonVars
<1>2. CASE Spawns
  BY <1>2 DEF Spawns
<1>3. CASE Drains
  BY <1>3 DEF Drains, CoreUp
<1>4. CASE Kills
  BY <1>4 DEF Kills, Die
<1>5. ASSUME NEW d \in Daemon, CreateCore(d) PROVE RecordFollowsPhase'
  BY <1>5 DEF CreateCore
<1>6. ASSUME NEW d \in Daemon, PublishCore(d) PROVE RecordFollowsPhase'
  BY <1>6 DEF PublishCore
<1>7. ASSUME NEW d \in Daemon, WriteStarting(d) PROVE RecordFollowsPhase'
  BY <1>7 DEF WriteStarting
<1>8. ASSUME NEW d \in Daemon, BindAdmin(d) PROVE RecordFollowsPhase'
  BY <1>8 DEF BindAdmin
<1>9. ASSUME NEW d \in Daemon, WriteReady(d) PROVE RecordFollowsPhase'
  BY <1>9 DEF WriteReady
<1>10. ASSUME NEW d \in Daemon, CloseAdmin(d) PROVE RecordFollowsPhase'
  BY <1>10 DEF CloseAdmin
<1>11. ASSUME NEW d \in Daemon, CheckRecord(d) PROVE RecordFollowsPhase'
  BY <1>11 DEF CheckRecord
<1>12. ASSUME NEW d \in Daemon, RemoveRecord(d) PROVE RecordFollowsPhase'
  BY <1>12 DEF RemoveRecord, NoRecord
<1>13. ASSUME NEW d \in Daemon, ReleaseLock(d) PROVE RecordFollowsPhase'
  BY <1>13 DEF ReleaseLock
<1>14. ASSUME NEW f \in Foreign, ForeignTake(f) PROVE RecordFollowsPhase'
  BY <1>14 DEF ForeignTake
<1>15. ASSUME NEW f \in Foreign, ForeignExit(f) PROVE RecordFollowsPhase'
  BY <1>15 DEF ForeignExit
<1>16. QED
  BY StepCases, <1>1, <1>2, <1>3, <1>4, <1>5, <1>6, <1>7, <1>8,
     <1>9, <1>10, <1>11, <1>12, <1>13, <1>14, <1>15
     DEF LinkInv

\* No step lets a second daemon interfere with one that took the lock alone.
LEMMA SoleOwnershipInductive ==
  ASSUME TypeOK, LinkInv, CoreFollowsPhase, RecordFollowsPhase, SoleOwnership, [Next]_vars
  PROVE  SoleOwnership'
<1> USE InstancesAssumption DEF SoleOwnership, SoleOwner, CoreFollowsPhase, Alive, Owned, TypeOK, Instance
<1>1. CASE UNCHANGED daemonVars
  BY <1>1 DEF daemonVars
<1>2. CASE Spawns
  BY <1>2 DEF Spawns
<1>3. CASE Drains
  BY <1>3 DEF Drains, CoreUp
<1>4. CASE Kills
  BY <1>4 DEF Kills, Die
<1>5. ASSUME NEW d \in Daemon, CreateCore(d) PROVE SoleOwnership'
  BY <1>5 DEF CreateCore
<1>6. ASSUME NEW d \in Daemon, PublishCore(d) PROVE SoleOwnership'
  BY <1>6 DEF PublishCore
<1>7. ASSUME NEW d \in Daemon, WriteStarting(d) PROVE SoleOwnership'
  BY <1>7 DEF WriteStarting
<1>8. ASSUME NEW d \in Daemon, BindAdmin(d) PROVE SoleOwnership'
  BY <1>8 DEF BindAdmin
<1>9. ASSUME NEW d \in Daemon, WriteReady(d) PROVE SoleOwnership'
  BY <1>9 DEF WriteReady
<1>10. ASSUME NEW d \in Daemon, CloseAdmin(d) PROVE SoleOwnership'
  BY <1>10 DEF CloseAdmin
<1>11. ASSUME NEW d \in Daemon, CheckRecord(d) PROVE SoleOwnership'
  BY <1>11 DEF CheckRecord
<1>12. ASSUME NEW d \in Daemon, RemoveRecord(d) PROVE SoleOwnership'
  BY <1>12 DEF RemoveRecord, NoRecord
<1>13. ASSUME NEW d \in Daemon, ReleaseLock(d) PROVE SoleOwnership'
  BY <1>13 DEF ReleaseLock
<1>14. ASSUME NEW f \in Foreign, ForeignTake(f) PROVE SoleOwnership'
  BY <1>14 DEF ForeignTake
<1>15. ASSUME NEW f \in Foreign, ForeignExit(f) PROVE SoleOwnership'
  BY <1>15 DEF ForeignExit
<1>16. QED
  BY StepCases, <1>1, <1>2, <1>3, <1>4, <1>5, <1>6, <1>7, <1>8,
     <1>9, <1>10, <1>11, <1>12, <1>13, <1>14, <1>15
     DEF LinkInv

\* The inductive invariant.
IInv == TypeOK /\ LinkInv /\ CoreFollowsPhase /\ RecordFollowsPhase /\ SoleOwnership

\* The five layers together are an invariant of the lifecycle.
THEOREM Invariance == Spec => []IInv
<1>1. Init => CoreFollowsPhase /\ RecordFollowsPhase /\ SoleOwnership
  BY InstancesAssumption
     DEF Init, CoreFollowsPhase, RecordFollowsPhase, SoleOwnership, SoleOwner, NoRecord, Instance
<1>2. QED
  BY <1>1, TypeCorrect, LinksAreSafe, CoreFollowsPhaseInductive, RecordFollowsPhaseInductive,
     SoleOwnershipInductive, PTL DEF Spec, IInv

-----------------------------------------------------------------------------
(* The properties.                                                         *)

\* A record that carries the owner's admin address is true of that process.
THEOREM ReadyRecordIsTrue == Spec => []ReadyMeansListening
<1>1. IInv => ReadyMeansListening
  BY DEF IInv, ReadyMeansListening, CoreFollowsPhase, RecordFollowsPhase, Alive
<1>2. QED
  BY <1>1, Invariance, PTL

\* No command works on a foreign core.
THEOREM CommandsLinkToAtc == Spec => []LinkOnlyToAtc
BY LinksAreSafe, PTL DEF LinkInv

\* A daemon that overlaps with no predecessor keeps its record and finds its port.
THEOREM SoleOwnerIsUndisturbed == Spec => []SoleOwnerUndisturbed
<1>1. ASSUME IInv, NEW d \in Daemon, SoleOwner(d), phase[d] = "binding"
      PROVE  port = NoOne
  <2>1. ASSUME NEW e \in Daemon, port = e PROVE FALSE
    <3>1. phase[e] \in {"readying", "serving"}
      BY <1>1, <2>1 DEF IInv, RecordFollowsPhase
    <3>2. e # d /\ Alive(e) /\ core[e] # "off"
      BY <1>1, <3>1 DEF IInv, CoreFollowsPhase, Alive
    <3>3. QED
      BY <1>1, <3>2 DEF IInv, SoleOwnership
  <2>2. QED
    BY <1>1, <2>1 DEF IInv, TypeOK
<1>2. IInv => SoleOwnerUndisturbed
  BY <1>1 DEF IInv, SoleOwnerUndisturbed, SoleOwnership, RecordFollowsPhase
<1>3. QED
  BY <1>2, Invariance, PTL

\* A cleanup that ran to its end leaves neither record nor listener.
THEOREM CleanExits == Spec => []CleanExitLeavesNothing
<1>1. IInv => CleanExitLeavesNothing
  BY DEF IInv, CleanExitLeavesNothing, RecordFollowsPhase
<1>2. QED
  BY <1>1, Invariance, PTL

\* The daemon that `atc stop` reported stopped never owns the folder again:
\* an instance takes the lock once, before its core has ever been up.
THEOREM StopsAreFinal == Spec => []StopIsFinal
<1>1. Init => StopIsFinal
  BY DEF Init, StopIsFinal
<1>2. ASSUME IInv, StopIsFinal, [Next]_vars PROVE StopIsFinal'
  <2> USE <1>2 DEF HasReleased
  <2>1. ASSUME NEW i \in Daemon, core[i] \notin {"off", "claimed"}, HasReleased(i)
        PROVE  HasReleased(i)'
    <3> USE <2>1, InstancesAssumption DEF IInv, TypeOK, CoreFollowsPhase, Owned, Alive, Instance
    <3>1. CASE UNCHANGED daemonVars
      BY <3>1 DEF daemonVars
    <3>2. CASE Spawns \/ Drains \/ Kills
      BY <3>2 DEF Spawns, Drains, Kills, Die
    <3>3. ASSUME NEW d \in Daemon, CreateCore(d) \/ PublishCore(d) \/ WriteStarting(d)
          PROVE  HasReleased(i)'
      BY <3>3 DEF CreateCore, PublishCore, WriteStarting
    <3>4. ASSUME NEW d \in Daemon, BindAdmin(d) \/ WriteReady(d) \/ CloseAdmin(d)
          PROVE  HasReleased(i)'
      BY <3>4 DEF BindAdmin, WriteReady, CloseAdmin
    <3>5. ASSUME NEW d \in Daemon, CheckRecord(d) \/ RemoveRecord(d) \/ ReleaseLock(d)
          PROVE  HasReleased(i)'
      BY <3>5 DEF CheckRecord, RemoveRecord, ReleaseLock
    <3>6. ASSUME NEW f \in Foreign, ForeignTake(f) \/ ForeignExit(f)
          PROVE  HasReleased(i)'
      BY <3>6 DEF ForeignTake, ForeignExit
    <3>7. QED
      BY StepCases, <3>1, <3>2, <3>3, <3>4, <3>5, <3>6 DEF LinkInv
  <2>2. ASSUME NEW c \in Cmd, result'[c] = "stopped"
        PROVE  target'[c] = target[c] /\ HasReleased(target[c]) /\ target[c] \in Daemon
    <3> USE <2>2 DEF IInv, LinkInv, TypeOK
    <3>1. CASE result[c] = "stopped"
      <4>1. at[c] = "done" /\ target[c] \in Daemon
        BY <3>1 DEF LinkOnlyToAtc, CommandsLinked
      <4>2. ASSUME NEW b \in Cmd, Begin(b) \/ CmdStep(b) PROVE target'[c] = target[c]
        BY <4>1, <4>2 DEF Begin, CmdStep, AttachToOwner, InspectLock, AwaitOwner, AttachAgain,
           ReadRecord, RecordTimeout, AwaitReady, Describe, RequestShutdown, PollRelease,
           ReadPid, KillProcess, PollKilled, FollowOwner, EndStop, Finish
      <4>3. ASSUME UNCHANGED cmdVars PROVE target'[c] = target[c]
        BY <4>3 DEF cmdVars
      <4>4. target'[c] = target[c]
        BY <4>2, <4>3, StepsOfOthers
      <4>5. QED
        BY <3>1, <4>1, <4>4 DEF StopIsFinal
    <3>2. CASE result[c] # "stopped"
      <4>1. ASSUME NEW b \in Cmd, Begin(b) \/ CmdStep(b), ~PollRelease(b), ~PollKilled(b)
            PROVE  FALSE
        BY <3>2, <4>1 DEF Begin, CmdStep, AttachToOwner, InspectLock, AwaitOwner, AttachAgain,
           ReadRecord, RecordTimeout, AwaitReady, Describe, RequestShutdown,
           ReadPid, KillProcess, FollowOwner, EndStop, Finish
      <4>2. ASSUME NEW b \in Cmd, PollRelease(b) \/ PollKilled(b)
            PROVE  /\ b = c /\ at[c] \in {"release", "killed"}
                   /\ target' = target /\ HasReleased(target[c])
        BY <3>2, <4>2 DEF PollRelease, PollKilled, EndStop, Finish, GoTo
      <4>3. ASSUME UNCHANGED cmdVars PROVE FALSE
        BY <3>2, <4>3 DEF cmdVars
      <4>4. QED
        BY <4>1, <4>2, <4>3, StepsOfOthers DEF LinkOnlyToAtc
    <3>3. QED
      BY <3>1, <3>2
  <2>3. ASSUME NEW c \in Cmd, result'[c] = "stopped" PROVE HasReleased(target[c])'
    BY <2>1, <2>2, <2>3 DEF IInv, LinkInv, CommandsLinked
  <2>4. QED
    BY <2>3 DEF StopIsFinal
<1>3. QED
  BY <1>1, <1>2, Invariance, PTL DEF Spec

\* ATC_DAEMON_FOREIGN is never said of an atc daemon that owns the folder and
\* has overlapped with no predecessor.
THEOREM ForeignVerdicts == Spec => ForeignVerdictSound
<1>1. ASSUME IInv, [Next]_vars, NEW c \in Cmd, NEW d \in Daemon,
             result'[c] = "foreign", result[c] # "foreign", target[c] = d, SoleOwner(d)
      PROVE  FALSE
  <2> USE <1>1 DEF IInv, LinkInv, TypeOK
  <2>1. ASSUME NEW b \in Cmd, Begin(b) \/ CmdStep(b), ~RecordTimeout(b) PROVE FALSE
    BY <2>1 DEF Begin, CmdStep, AttachToOwner, InspectLock, AwaitOwner, AttachAgain,
       ReadRecord, AwaitReady, Describe, RequestShutdown, PollRelease,
       ReadPid, KillProcess, PollKilled, FollowOwner, EndStop, Finish
  <2>2. ASSUME NEW b \in Cmd, RecordTimeout(b) PROVE FALSE
    <3>1. b = c
      BY <2>2 DEF RecordTimeout, Finish
    <3>2. record.instance # d /\ phase[d] # "recording" /\ core[d] \notin {"off", "claimed"}
      BY <2>2, <3>1 DEF RecordTimeout, RecordIsOf, CommandsLinked
    <3>3. phase[d] \in {"binding", "readying", "serving"}
      BY <3>2 DEF CoreFollowsPhase, SoleOwner, Alive, Phase, Instance
    <3>4. QED
      BY <3>2, <3>3 DEF SoleOwnership
  <2>3. ASSUME UNCHANGED cmdVars PROVE FALSE
    BY <2>3 DEF cmdVars
  <2>4. QED
    BY <2>1, <2>2, <2>3, StepsOfOthers
<1>2. IInv /\ [Next]_vars
        => [\A c \in Cmd : (result'[c] = "foreign" /\ result[c] # "foreign") =>
              \A d \in Daemon : target[c] = d => ~SoleOwner(d)]_vars
  BY <1>1
<1>3. QED
  BY <1>2, Invariance, PTL DEF Spec, ForeignVerdictSound

-----------------------------------------------------------------------------
(* The registration under which a server is stopped.                       *)

\* The timer runs beside the work only, and a heartbeat is on its way only from there until
\* it has been waited for; a process that dies may leave one under way.
TimersInv ==
  /\ due \subseteq timer
  /\ \A c \in timer : await[c] = "work"
  /\ \A c \in Stop : await[c] = "work" => c \in timer
  /\ \A c \in beat : await[c] \in {"work", "settle", "dead"}

\* What an answer in time leaves of a registration: all of it until the timer is to fire, and
\* one interval less until the core has heard the heartbeat.
RenewedInTime(c) ==
  \/ lease[c] = TTL
  \/ lease[c] = TTL - 1 /\ c \in due \cup beat

LeaseInv ==
  \A c \in Stop : server = "up" /\ c \notin late =>
    /\ await[c] = "registering" => lease[c] = TTL
    /\ await[c] = "work" => RenewedInTime(c)

LeaseIInv == LeaseTypeOK /\ TimersInv /\ LeaseInv

-----------------------------------------------------------------------------
(* Types.                                                                  *)

\* What a step of a stop does to its registration.
LEMMA StepOnLease ==
  ASSUME NEW c \in Stop, StopStep(c)
  PROVE  \/ lease' = lease
         \/ await[c] = "off" /\ lease' = [lease EXCEPT ![c] = TTL]
         \/ lease' = [lease EXCEPT ![c] = 0]
<1>1. Registered(c) \/ Shutdown(c) \/ Settle(c) \/ Release(c) => lease' = lease
  BY DEF Registered, Shutdown, Settle, Release
<1>2. Register(c) => await[c] = "off" /\ (lease' = lease \/ lease' = [lease EXCEPT ![c] = TTL])
  BY DEF Register
<1>3. Leave(c) => lease' = lease \/ lease' = [lease EXCEPT ![c] = 0]
  BY DEF Leave
<1> QED
  BY <1>1, <1>2, <1>3 DEF StopStep

\* The names of the awaits and of the answers. Cited, never expanded.
LEMMA LeaseNames ==
  /\ {"off", "registering", "work", "settle", "leave", "release", "ended", "dead"} \subseteq Phases
  /\ {"none", "accepted", "refused", "failed", "stopped", "timed out"} \subseteq Verdicts
BY DEF Phases, Verdicts

\* Every variable keeps its type.
THEOREM LeaseTypeCorrect == LeaseSpec => []LeaseTypeOK
<1> USE LeaseAssumption
<1>1. LeaseInit => LeaseTypeOK
  <2> SUFFICES ASSUME LeaseInit PROVE LeaseTypeOK
    OBVIOUS
  <2>1. lease \in [Stop -> 0..TTL]
    BY DEF LeaseInit
  <2>2. await \in [Stop -> Phases] /\ verdict \in [Stop -> Verdicts]
    BY LeaseNames DEF LeaseInit
  <2> QED
    BY <2>1, <2>2 DEF LeaseInit, LeaseTypeOK
<1>2. LeaseTypeOK /\ [LeaseNext]_leaseVars => LeaseTypeOK'
  <2> SUFFICES ASSUME LeaseTypeOK, [LeaseNext]_leaseVars PROVE LeaseTypeOK'
    OBVIOUS
  <2>1. lease' \in [Stop -> 0..TTL]
    <3> USE DEF LeaseTypeOK
    <3>1. ASSUME NEW c \in Stop, StopStep(c) PROVE lease' \in [Stop -> 0..TTL]
      BY <3>1, StepOnLease
    <3>2. ASSUME NEW c \in Stop, Heartbeat(c) \/ Requests(c) \/ StopDies(c)
          PROVE  lease' \in [Stop -> 0..TTL]
      BY <3>2 DEF Heartbeat, Requests, HeartbeatAnswered, HeartbeatLost, StopDies
    <3>3. CASE CoreExits \/ Attach
      BY <3>3 DEF CoreExits, Attach
    <3>4. CASE Tick
      BY <3>4 DEF Tick
    <3>5. CASE UNCHANGED leaseVars
      BY <3>5 DEF leaseVars
    <3> QED
      BY <3>1, <3>2, <3>3, <3>4, <3>5 DEF LeaseNext
  <2>2. await' \in [Stop -> Phases] /\ verdict' \in [Stop -> Verdicts]
    <3> USE LeaseNames DEF LeaseTypeOK, Await, Answer
    <3>1. ASSUME NEW c \in Stop, StopStep(c)
          PROVE  await' \in [Stop -> Phases] /\ verdict' \in [Stop -> Verdicts]
      BY <3>1 DEF StopStep, Register, Registered, Shutdown, Settle, Leave, Release
    <3>2. ASSUME NEW c \in Stop, Heartbeat(c) \/ Requests(c) \/ StopDies(c)
          PROVE  await' \in [Stop -> Phases] /\ verdict' \in [Stop -> Verdicts]
      BY <3>2 DEF Heartbeat, Requests, HeartbeatAnswered, HeartbeatLost, StopDies
    <3>3. CASE CoreExits \/ Attach \/ Tick \/ UNCHANGED leaseVars
      BY <3>3 DEF CoreExits, Attach, Tick, leaseVars
    <3> QED
      BY <3>1, <3>2, <3>3 DEF LeaseNext
  <2>3. /\ server' \in {"up", "closing", "gone"} /\ app' \in BOOLEAN
        /\ force' \subseteq Stop /\ timer' \subseteq Stop /\ due' \subseteq Stop
        /\ beat' \subseteq Stop /\ late' \subseteq Stop
    <3> DEFINE Sets == /\ server \in {"up", "closing", "gone"} /\ app \in BOOLEAN
                       /\ force \subseteq Stop /\ timer \subseteq Stop /\ due \subseteq Stop
                       /\ beat \subseteq Stop /\ late \subseteq Stop
    <3> USE DEF client
    <3>0. Sets
      BY DEF LeaseTypeOK
    <3>1. ASSUME NEW c \in Stop, StopStep(c) PROVE Sets'
      BY <3>0, <3>1 DEF StopStep, Register, Registered, Shutdown, Settle, Leave, Release
    <3>2. ASSUME NEW c \in Stop, Heartbeat(c) \/ Requests(c) \/ StopDies(c) PROVE Sets'
      BY <3>0, <3>2 DEF Heartbeat, Requests, HeartbeatAnswered, HeartbeatLost, StopDies
    <3>3. CASE CoreExits \/ Attach \/ Tick \/ UNCHANGED leaseVars
      BY <3>0, <3>3 DEF CoreExits, Attach, Tick, leaseVars
    <3> QED
      BY <3>1, <3>2, <3>3 DEF LeaseNext
  <2> QED
    BY <2>1, <2>2, <2>3 DEF LeaseTypeOK
<1> QED
  BY <1>1, <1>2, PTL DEF LeaseSpec

-----------------------------------------------------------------------------
(* The timers.                                                             *)

\* Every step keeps the timers to the work, and the heartbeats to those who wait for them.
LEMMA StepKeepsTimers ==
  ASSUME LeaseTypeOK, TimersInv, [LeaseNext]_leaseVars
  PROVE  TimersInv'
<1> USE DEF LeaseTypeOK, TimersInv
<1>1. ASSUME NEW c \in Stop, StopStep(c) PROVE TimersInv'
  <2>1. CASE Register(c)
    BY <2>1 DEF Register, Await, client
  <2>2. CASE Registered(c)
    BY <2>2 DEF Registered, Await
  <2>3. CASE Shutdown(c)
    BY <2>3 DEF Shutdown, Await
  <2>4. CASE Settle(c)
    BY <2>4 DEF Settle, Await, client
  <2>5. CASE Leave(c)
    BY <2>5 DEF Leave, Await, client
  <2>6. CASE Release(c)
    BY <2>6 DEF Release, Await, client
  <2> QED
    BY <1>1, <2>1, <2>2, <2>3, <2>4, <2>5, <2>6 DEF StopStep
<1>2. ASSUME NEW c \in Stop, Heartbeat(c) \/ Requests(c) PROVE TimersInv'
  BY <1>2 DEF Heartbeat, Requests, HeartbeatAnswered, HeartbeatLost
<1>3. ASSUME NEW c \in Stop, StopDies(c) PROVE TimersInv'
  BY <1>3 DEF StopDies, Await, Over
<1>4. CASE CoreExits \/ Attach \/ Tick \/ UNCHANGED leaseVars
  BY <1>4 DEF CoreExits, Attach, Tick, client, leaseVars
<1> QED
  BY <1>1, <1>2, <1>3, <1>4 DEF LeaseNext

-----------------------------------------------------------------------------
(* The registration.                                                       *)

\* A step keeps the registration of who works renewed. Time is what threatens it: a tick finds
\* no timer left to fire, so that an interval less means a heartbeat on its way, which is late
\* from then on.
LEMMA StepKeepsLease ==
  ASSUME LeaseTypeOK, TimersInv, LeaseInv, [LeaseNext]_leaseVars
  PROVE  LeaseInv'
<1> USE LeaseAssumption DEF LeaseTypeOK, LeaseInv, RenewedInTime
<1>1. ASSUME NEW c \in Stop, StopStep(c) PROVE LeaseInv'
  <2>1. CASE Register(c)
    BY <2>1 DEF Register, Await, client
  <2>2. CASE Registered(c)
    BY <2>2 DEF Registered, Await
  <2>3. CASE Shutdown(c)
    BY <2>3 DEF Shutdown, Await
  <2>4. CASE Settle(c)
    BY <2>4 DEF Settle, Await, client
  <2>5. CASE Leave(c)
    BY <2>5 DEF Leave, Await, client
  <2>6. CASE Release(c)
    BY <2>6 DEF Release, Await, client
  <2> QED
    BY <1>1, <2>1, <2>2, <2>3, <2>4, <2>5, <2>6 DEF StopStep
<1>2. ASSUME NEW c \in Stop, Heartbeat(c) PROVE LeaseInv'
  BY <1>2 DEF Heartbeat
<1>3. ASSUME NEW c \in Stop, Requests(c) PROVE LeaseInv'
  BY <1>3 DEF Requests, HeartbeatAnswered, HeartbeatLost
<1>4. ASSUME NEW c \in Stop, StopDies(c) PROVE LeaseInv'
  BY <1>4, TimersInv DEF StopDies, Await, TimersInv
<1>5. CASE CoreExits \/ Attach \/ UNCHANGED leaseVars
  BY <1>5 DEF CoreExits, Attach, client, leaseVars
<1>6. CASE Tick
  <2> SUFFICES ASSUME NEW c \in Stop, server' = "up", c \notin late'
               PROVE  /\ await'[c] = "registering" => lease'[c] = TTL
                      /\ await'[c] = "work" => RenewedInTime(c)'
    OBVIOUS
  <2>1. await[c] # "registering" /\ c \notin beat /\ c \notin due /\ c \notin late /\ server = "up"
    BY <1>6 DEF Tick
  <2>2. await[c] = "work" => lease[c] = TTL /\ c \in timer
    BY <2>1 DEF TimersInv
  <2>3. await[c] = "work" => lease'[c] = TTL - 1 /\ c \in due'
    BY <1>6, <2>2 DEF Tick
  <2> QED
    BY <1>6, <2>1, <2>3 DEF Tick
<1> QED
  BY <1>1, <1>2, <1>3, <1>4, <1>5, <1>6 DEF LeaseNext

\* The inductive invariant.
THEOREM LeaseInductive == LeaseSpec => []LeaseIInv
<1>1. LeaseInit => TimersInv /\ LeaseInv
  BY DEF LeaseInit, TimersInv, LeaseInv
<1>2. LeaseTypeOK /\ TimersInv /\ LeaseInv /\ [LeaseNext]_leaseVars => (TimersInv /\ LeaseInv)'
  BY StepKeepsTimers, StepKeepsLease
<1> QED
  BY <1>1, <1>2, LeaseTypeCorrect, PTL DEF LeaseSpec, LeaseIInv

\* While a stop works the core has it among its clients, as long as its answers come in time.
THEOREM LeaseCovers == LeaseSpec => []LeaseCoversWork
<1>1. LeaseIInv => LeaseCoversWork
  BY LeaseAssumption DEF LeaseIInv, LeaseTypeOK, LeaseInv, RenewedInTime, LeaseCoversWork
<1> QED
  BY <1>1, LeaseInductive, PTL

\* Nothing renews the registration of a stop that has ended: no heartbeat of it is on its way.
THEOREM LeaseLapses == LeaseSpec => LeaseOnlyLapses
<1>1. LeaseIInv /\ [LeaseNext]_leaseVars
        => [\A c \in Stop : await[c] = "ended" => lease'[c] <= lease[c]]_leaseVars
  <2> SUFFICES ASSUME LeaseIInv, LeaseNext, NEW c \in Stop, await[c] = "ended" PROVE lease'[c] <= lease[c]
    OBVIOUS
  <2> USE LeaseAssumption DEF LeaseIInv, LeaseTypeOK
  <2>1. lease[c] \in Nat /\ c \notin beat
    BY DEF TimersInv
  <2>2. ASSUME NEW d \in Stop, StopStep(d) \/ Heartbeat(d) \/ Requests(d) \/ StopDies(d)
        PROVE  lease'[c] <= lease[c]
    <3>1. CASE StopStep(d)
      BY <2>1, <3>1, StepOnLease
    <3>2. CASE Heartbeat(d) \/ StopDies(d)
      BY <2>1, <3>2 DEF Heartbeat, StopDies
    <3>3. CASE Requests(d)
      BY <2>1, <3>3 DEF Requests, HeartbeatAnswered, HeartbeatLost
    <3> QED
      BY <2>2, <3>1, <3>2, <3>3
  <2>3. CASE CoreExits \/ Attach \/ Tick
    BY <2>1, <2>3 DEF CoreExits, Attach, Tick
  <2> QED
    BY <2>2, <2>3 DEF LeaseNext
<1> QED
  BY <1>1, LeaseInductive, PTL DEF LeaseOnlyLapses, LeaseSpec

=============================================================================
