--------------------------- MODULE DaemonWatchProofs ---------------------------
(***************************************************************************)
(* The terminal UI's view of the daemons of a data folder, for any number  *)
(* of daemons, status changes and commands: unless news of a daemon was    *)
(* taken after news that superseded it, the screen never goes back to an   *)
(* earlier daemon.  The argument: whatever has been asked of a daemon is   *)
(* about one that has been started, the link follows the news in order,    *)
(* and what is being read for the screen is of the daemon linked to.       *)
(***************************************************************************)
EXTENDS DaemonWatch, TLAPS

\* Nobody knows of a daemon that has not been started.
KnownInv ==
  /\ link <= inst
  /\ found # Error => found <= inst
  /\ \A p \in Purpose : call[p].shot.inst <= inst
  /\ \A c \in Cmd : target[c] <= inst

\* Only a followed daemon is asked for a subscription, and only by its subscription.
FollowInv ==
  /\ wpc # "follow" => sub = "none" /\ ~timer
  /\ sub # "none" \/ timer => found \in Nat
  /\ call["sub"].state # "free" => sub = "ask"

\* What is being read for the screen is of the daemon linked to, and what is on the
\* screen of that one or an earlier one.
ScreenInv ==
  /\ \A shot \in loads : shot.inst = link
  /\ screen.kind = "up" => screen.shot.inst <= link

IInv == TypeOK /\ KnownInv /\ FollowInv /\ (~late => ScreenInv)

-----------------------------------------------------------------------------
(* What the steps do to requests and to the view.                          *)

LEMMA NoShotTypes == NoShot \in Shot /\ Free \in Call
BY DEF NoShot, Shot, Free, Call

\* A request asks a daemon that is known, and has no answer yet.
LEMMA SendTypes ==
  ASSUME TypeOK, KnownInv, NEW p \in Purpose, NEW n \in Nat, n <= inst, Send(p, n)
  PROVE  call' \in [Purpose -> Call] /\ \A q \in Purpose : call'[q].shot.inst <= inst
<1>1. [inst |-> n, version |-> 0] \in Shot
  BY DEF Shot
<1>2. [state |-> "asked", shot |-> [inst |-> n, version |-> 0]] \in Call
  BY <1>1 DEF Call
<1>3. QED
  BY <1>2 DEF Send, TypeOK, KnownInv

\* Its answer is of the daemon it was sent to.
LEMMA AnswerTypes ==
  ASSUME TypeOK, KnownInv, NEW p \in Purpose, Answer(p)
  PROVE  call' \in [Purpose -> Call] /\ \A q \in Purpose : call'[q].shot.inst <= inst
<1>1. call[p] \in Call /\ call[p].shot \in Shot /\ p \in DOMAIN call
  BY DEF TypeOK, Call
<1>2. CASE call' = [call EXCEPT ![p].state = "answered", ![p].shot.version = version]
  <2> DEFINE r == [call EXCEPT ![p].state = "answered"]
  <2>1. /\ r \in [Purpose -> Call] /\ r[p].shot = call[p].shot
        /\ \A q \in Purpose : r[q].shot.inst = call[q].shot.inst
    BY <1>1 DEF TypeOK, Call
  <2>2. call' = [r EXCEPT ![p].shot.version = version]
    BY <1>2
  <2> HIDE DEF r
  <2>3. QED
    BY <1>1, <2>1, <2>2 DEF TypeOK, KnownInv, Call, Shot
<1>3. CASE call' = [call EXCEPT ![p].state = "failed"]
  BY <1>1, <1>3 DEF TypeOK, KnownInv, Call
<1>4. QED
  BY <1>2, <1>3 DEF Answer

\* A request that is over leaves its slot free.
LEMMA FreeTypes ==
  ASSUME TypeOK, KnownInv, NEW p \in Purpose, NEW q \in Purpose,
         call' = [call EXCEPT ![p] = Free] \/ call' = [call EXCEPT ![p] = Free, ![q] = Free]
  PROVE  call' \in [Purpose -> Call] /\ \A r \in Purpose : call'[r].shot.inst <= inst
<1>1. Free \in Call /\ Free.shot.inst = 0
  BY NoShotTypes DEF Free, NoShot
<1>2. 0 <= inst
  BY DEF TypeOK
<1>3. QED
  BY <1>1, <1>2 DEF TypeOK, KnownInv

\* News of a daemon that is up and that nothing has superseded moves the view on.
LEMMA UpMoves ==
  ASSUME TypeOK, NEW shot \in Shot, shot.inst <= inst, OnUp(shot)
  PROVE  /\ link' \in Nat /\ link' <= inst /\ loads' \subseteq Shot
         /\ UNCHANGED screen
         /\ ScreenInv /\ shot.inst >= link => ScreenInv'
BY DEF TypeOK, OnUp, Surviving, ScreenInv, Shot

LEMMA DownMoves ==
  ASSUME TypeOK, OnDown
  PROVE  /\ link' = 0 /\ loads' = {}
         /\ screen' = [kind |-> "down", shot |-> NoShot]
         /\ screen' \in [kind : {"connecting", "down", "up"}, shot : Shot]
         /\ ScreenInv'
BY NoShotTypes DEF OnDown, Surviving, ScreenInv

\* Moving a command keeps its variables in their types.
LEMMA GoToTypes ==
  ASSUME TypeOK, KnownInv, NEW c \in Cmd, NEW point \in Point, NEW n \in Nat, n <= inst', inst <= inst',
         inst' \in Nat, GoTo(c, point, n)
  PROVE  /\ at' \in [Cmd -> Point] /\ job' \in [Cmd -> Job] /\ target' \in [Cmd -> Nat]
         /\ \A d \in Cmd : target'[d] <= inst'
BY DEF TypeOK, KnownInv, GoTo, Job

-----------------------------------------------------------------------------
(* The steps.                                                              *)

\* News that is not late is of the daemon linked to or of a later one.
LEMMA LateIs ==
  ASSUME TypeOK, KnownInv, NEW shot \in Shot, shot.inst <= inst
  PROVE  /\ ~Late(shot) => shot.inst >= link
         /\ ~Overtaken(shot.inst) => shot.inst >= link
         /\ Late(shot) \in BOOLEAN /\ Overtaken(shot.inst) \in BOOLEAN
BY DEF TypeOK, KnownInv, Late, Overtaken, Reachable, Shot

\* A view that stays is right as long as no daemon is forgotten.
LEMMA ViewStays ==
  ASSUME IInv, UNCHANGED <<link, loads, screen, late>>
  PROVE  /\ link' \in Nat /\ loads' \subseteq Shot /\ late' \in BOOLEAN
         /\ screen' \in [kind : {"connecting", "down", "up"}, shot : Shot]
         /\ (~late => ScreenInv)'
<1>1. (~late => ScreenInv)'
  BY DEF IInv, ScreenInv
<1>2. QED
  BY <1>1 DEF IInv, TypeOK

\* The daemons and the watcher's loop.
LEMMA WorldInductive ==
  ASSUME IInv, Start \/ Exit \/ Change
  PROVE  TypeOK' /\ KnownInv' /\ (~late => ScreenInv)'
<1>1. /\ UNCHANGED <<wpc, found, wasDown, sub, cursor, timer, met, call, at, job, target>>
      /\ UNCHANGED <<link, loads, screen, late>>
  BY DEF Start, Exit, Change, watchVars, viewVars, cmdVars
<1>2. inst' \in Nat /\ inst <= inst' /\ version' \in Nat
  BY DEF Start, Spawn, Exit, Change, IInv, TypeOK
<1>a. alive' \in BOOLEAN
  BY DEF Start, Spawn, Exit, Change, IInv, TypeOK
<1>3. TypeOK'
  BY <1>1, <1>2, <1>a DEF IInv, TypeOK
<1>4. KnownInv'
  BY <1>1, <1>2 DEF IInv, TypeOK, KnownInv, Call, Shot
<1>5. QED
  BY <1>1, <1>3, <1>4, ViewStays

LEMMA WatcherInductive ==
  ASSUME IInv, Attach \/ AttachedToNone \/ AttachedToDaemon \/ Heartbeat \/ StreamEnds \/ Event
  PROVE  TypeOK' /\ KnownInv' /\ (~late => ScreenInv)'
<1>1. UNCHANGED <<inst, alive, version, at, job, target, late>>
  BY DEF Attach, AttachedToNone, AttachedToDaemon, Heartbeat, StreamEnds, Event, worldVars, cmdVars
<1>2. /\ wpc' \in {"attach", "attached", "follow"} /\ found' \in Nat \cup {Error} /\ wasDown' \in BOOLEAN
      /\ sub' \in {"none", "ask", "stream"} /\ cursor' \in Nat /\ timer' \in BOOLEAN /\ met' \in Nat
      /\ found' # Error => found' <= inst
  <2> USE DEF IInv, TypeOK, KnownInv
  <2>1. CASE Attach
    BY <2>1 DEF Attach
  <2>2. CASE AttachedToNone
    BY <2>2 DEF AttachedToNone
  <2>3. CASE AttachedToDaemon
    BY <2>3 DEF AttachedToDaemon
  <2>4. CASE Heartbeat
    <3>1. /\ wpc' = "attach" /\ found' = 0 /\ sub' = "none" /\ cursor' = 0 /\ timer' = FALSE
          /\ UNCHANGED <<wasDown, met>>
      BY <2>4 DEF Heartbeat, EndFollow
    <3>2. timer' \in BOOLEAN /\ wasDown' \in BOOLEAN
      BY <3>1
    <3>3. found' \in Nat /\ found' <= inst
      BY <3>1
    <3>4. QED
      BY <3>1, <3>2, <3>3
  <2>5. CASE StreamEnds
    BY <2>5 DEF StreamEnds
  <2>6. CASE Event
    BY <2>6 DEF Event
  <2>7. QED
    BY <2>1, <2>2, <2>3, <2>4, <2>5, <2>6
<1>3. call' \in [Purpose -> Call] /\ \A r \in Purpose : call'[r].shot.inst <= inst
  <2>1. "sub" \in Purpose /\ "refresh" \in Purpose
    BY DEF Purpose
  <2>2. CASE Heartbeat
    BY <2>1, <2>2, FreeTypes DEF Heartbeat, EndFollow, IInv
  <2>3. CASE UNCHANGED call
    BY <2>3 DEF IInv, TypeOK, KnownInv
  <2>4. QED
    BY <2>2, <2>3 DEF Attach, AttachedToNone, AttachedToDaemon, StreamEnds, Event
<1>4. /\ link' \in Nat /\ link' <= inst /\ loads' \subseteq Shot /\ late' \in BOOLEAN
      /\ screen' \in [kind : {"connecting", "down", "up"}, shot : Shot]
      /\ (~late => ScreenInv)'
  <2>1. CASE OnDown
    BY <1>1, <2>1, DownMoves DEF IInv, TypeOK
  <2>2. CASE UNCHANGED <<link, loads, screen>>
    BY <1>1, <2>2, ViewStays DEF IInv, KnownInv
  <2>3. QED
    BY <2>1, <2>2 DEF Attach, AttachedToNone, AttachedToDaemon, Heartbeat, StreamEnds, Event, viewVars
<1>5. TypeOK'
  BY <1>1, <1>2, <1>3, <1>4 DEF IInv, TypeOK
<1>6. KnownInv'
  BY <1>1, <1>2, <1>3, <1>4 DEF IInv, KnownInv
<1>7. QED
  BY <1>4, <1>5, <1>6

\* The requests that are sent and answered.
LEMMA RequestsInductive ==
  ASSUME IInv, Subscribe \/ TimerFires \/ Poll \/ \E p \in Purpose : Answer(p)
  PROVE  TypeOK' /\ KnownInv' /\ (~late => ScreenInv)'
<1>1. "sub" \in Purpose /\ "refresh" \in Purpose /\ "poll" \in Purpose
  BY DEF Purpose
<1>2. call' \in [Purpose -> Call] /\ \A q \in Purpose : call'[q].shot.inst <= inst
  <2>1. CASE Subscribe
    BY <1>1, <2>1, SendTypes, WatchAssumption DEF Subscribe, IInv, KnownInv, FollowInv
  <2>2. CASE TimerFires
    BY <1>1, <2>2, SendTypes, WatchAssumption DEF TimerFires, IInv, KnownInv, FollowInv
  <2>3. CASE Poll
    BY <1>1, <2>3, SendTypes DEF Poll, IInv, KnownInv, TypeOK
  <2>4. CASE \E p \in Purpose : Answer(p)
    BY <2>4, AnswerTypes DEF IInv
  <2>5. QED
    BY <2>1, <2>2, <2>3, <2>4
<1>3. /\ UNCHANGED <<inst, alive, version, wpc, found, wasDown, sub, cursor, met, at, job, target>>
      /\ UNCHANGED <<link, loads, screen, late>>
  BY DEF Subscribe, TimerFires, Poll, Answer, worldVars, watchVars, viewVars, cmdVars
<1>4. timer' \in BOOLEAN
  BY DEF Subscribe, TimerFires, Poll, Answer, watchVars, IInv, TypeOK
<1>5. TypeOK'
  BY <1>2, <1>3, <1>4 DEF IInv, TypeOK
<1>6. KnownInv'
  BY <1>2, <1>3 DEF IInv, KnownInv
<1>7. QED
  BY <1>3, <1>5, <1>6, ViewStays

\* The answers that are taken.
LEMMA NewsInductive ==
  ASSUME IInv, PollAnswered \/ Subscribed \/ Refreshed
  PROVE  TypeOK' /\ KnownInv' /\ (~late => ScreenInv)'
<1>1. "sub" \in Purpose /\ "refresh" \in Purpose /\ "poll" \in Purpose
  BY DEF Purpose
<1>2. \A p \in Purpose : call[p].shot \in Shot /\ call[p].shot.inst <= inst
  BY DEF IInv, TypeOK, KnownInv, Call
<1>3. call' \in [Purpose -> Call] /\ \A q \in Purpose : call'[q].shot.inst <= inst
  BY <1>1, FreeTypes DEF PollAnswered, Subscribed, Refreshed, EndFollow, IInv
<1>4. UNCHANGED <<inst, alive, version, at, job, target>>
  BY DEF PollAnswered, Subscribed, Refreshed, worldVars, cmdVars
<1>5. /\ wpc' \in {"attach", "attached", "follow"} /\ found' \in Nat \cup {Error} /\ wasDown' \in BOOLEAN
      /\ sub' \in {"none", "ask", "stream"} /\ cursor' \in Nat /\ timer' \in BOOLEAN /\ met' \in Nat
      /\ found' # Error => found' <= inst
  <2> USE DEF IInv, TypeOK, KnownInv
  <2>1. CASE PollAnswered
    BY <2>1 DEF PollAnswered, watchVars
  <2>2. CASE Subscribed
    <3>1. call["sub"].shot.version \in Nat
      BY <1>1, <1>2 DEF Shot
    <3>2. (sub' = "stream" /\ cursor' = call["sub"].shot.version) \/ UNCHANGED <<sub, cursor>>
      BY <2>2 DEF Subscribed
    <3>3. QED
      BY <2>2, <3>1, <3>2 DEF Subscribed
  <2>3. CASE Refreshed
    <3>1. CASE EndFollow /\ UNCHANGED <<wasDown, met>>
      <4>1. /\ wpc' = "attach" /\ found' = 0 /\ sub' = "none" /\ cursor' = 0 /\ timer' = FALSE
            /\ UNCHANGED <<wasDown, met>>
        BY <3>1 DEF EndFollow
      <4>2. timer' \in BOOLEAN /\ wasDown' \in BOOLEAN
        BY <4>1
      <4>3. found' \in Nat /\ found' <= inst
        BY <4>1
      <4>4. QED
        BY <4>1, <4>2, <4>3
    <3>2. CASE UNCHANGED watchVars
      BY <3>2 DEF watchVars
    <3>3. QED
      BY <2>3, <3>1, <3>2 DEF Refreshed
  <2>4. QED
    BY <2>1, <2>2, <2>3
<1>6. ASSUME NEW p \in Purpose, OnUp(call[p].shot),
             late' = (late \/ Late(call[p].shot)) \/ late' = (late \/ Overtaken(call[p].shot.inst))
      PROVE  /\ link' \in Nat /\ link' <= inst /\ loads' \subseteq Shot /\ UNCHANGED screen
             /\ late' \in BOOLEAN /\ (~late' => ScreenInv')
  <2>1. /\ link' \in Nat /\ link' <= inst /\ loads' \subseteq Shot /\ UNCHANGED screen
        /\ ScreenInv /\ call[p].shot.inst >= link => ScreenInv'
    BY <1>2, <1>6, UpMoves DEF IInv
  <2>2. late' \in BOOLEAN /\ (~late' => ~late /\ call[p].shot.inst >= link)
    BY <1>2, <1>6, LateIs DEF IInv, TypeOK
  <2>3. QED
    BY <2>1, <2>2 DEF IInv
<1>7. /\ link' \in Nat /\ link' <= inst /\ loads' \subseteq Shot /\ UNCHANGED screen
      /\ late' \in BOOLEAN /\ (~late' => ScreenInv')
  <2>1. CASE UNCHANGED <<viewVars, late>>
    BY <2>1 DEF viewVars, IInv, TypeOK, KnownInv, ScreenInv
  <2>2. QED
    BY <1>1, <1>6, <2>1 DEF PollAnswered, Subscribed, Refreshed
<1>8. TypeOK'
  BY <1>3, <1>4, <1>5, <1>7 DEF IInv, TypeOK
<1>9. KnownInv'
  BY <1>3, <1>4, <1>5, <1>7 DEF IInv, KnownInv
<1>10. QED
  BY <1>7, <1>8, <1>9

\* What a command has, and a daemon it knows.
CmdTyped ==
  /\ at \in [Cmd -> Point] /\ job \in [Cmd -> Job] /\ target \in [Cmd -> Nat]
  /\ \A d \in Cmd : target[d] <= inst

\* The commands.
LEMMA CommandsInductive ==
  ASSUME IInv, NEW c \in Cmd, Begin(c) \/ CmdStep(c)
  PROVE  TypeOK' /\ KnownInv' /\ (~late => ScreenInv)'
<1>1. inst \in Nat /\ link \in Nat /\ link <= inst /\ target[c] \in Nat /\ target[c] <= inst /\ c \in Purpose
  BY DEF IInv, TypeOK, KnownInv, Purpose
<1>2. UNCHANGED <<wpc, found, wasDown, sub, cursor, timer, met>>
  BY DEF Begin, CmdStep, StopWhich, Shutdown, Release, Launch, AskLaunched, Launched, watchVars
<1>3. inst' \in Nat /\ inst <= inst' /\ version' \in Nat
  BY <1>1 DEF Begin, CmdStep, StopWhich, Shutdown, Release, Launch, AskLaunched, Launched, Spawn, worldVars,
     IInv, TypeOK
<1>4. alive' \in BOOLEAN
  BY DEF Begin, CmdStep, StopWhich, Shutdown, Release, Launch, AskLaunched, Launched, Spawn, worldVars,
     IInv, TypeOK
<1>5. call' \in [Purpose -> Call] /\ \A q \in Purpose : call'[q].shot.inst <= inst'
  <2>1. CASE AskLaunched(c)
    BY <1>1, <2>1, SendTypes DEF AskLaunched, IInv, worldVars
  <2>2. CASE Launched(c)
    BY <1>1, <2>2, FreeTypes DEF Launched, IInv, worldVars
  <2>3. CASE UNCHANGED call
    BY <1>1, <1>3, <2>3 DEF IInv, TypeOK, KnownInv, Call, Shot
  <2>4. QED
    BY <2>1, <2>2, <2>3 DEF Begin, CmdStep, StopWhich, Shutdown, Release, Launch
<1>6. CmdTyped'
  <2>1. ASSUME NEW point \in Point, NEW n \in Nat, n <= inst', GoTo(c, point, n) PROVE CmdTyped'
    BY <1>3, <2>1, GoToTypes DEF IInv, CmdTyped
  <2>2. ASSUME End(c) PROVE CmdTyped'
    BY <1>3, <2>1, <2>2 DEF End, Point
  <2>3. ASSUME Stopped(c) PROVE CmdTyped'
    BY <1>3, <2>1, <2>2, <2>3 DEF Stopped, Point
  <2>4. ASSUME Begin(c), at[c] = "idle", UNCHANGED target, at' = [at EXCEPT ![c] = "stop"],
               \E j \in {"stop", "restart"} : job' = [job EXCEPT ![c] = j]
        PROVE  CmdTyped'
    <3>1. UNCHANGED inst
      BY <2>4 DEF Begin, worldVars
    <3>2. at' \in [Cmd -> Point] /\ job' \in [Cmd -> Job]
      BY <2>4 DEF IInv, TypeOK, Point, Job
    <3>3. QED
      BY <2>4, <3>1, <3>2 DEF IInv, TypeOK, KnownInv, CmdTyped
  <2>5. CASE Begin(c)
    BY <1>3, <2>1, <2>4, <2>5 DEF Begin, Point
  <2>6. CASE StopWhich(c)
    <3>1. \A n \in Nat : n <= inst' /\ GoTo(c, "shutdown", n) => CmdTyped'
      BY <2>1 DEF Point
    <3>2. UNCHANGED inst
      BY <2>6 DEF StopWhich, worldVars
    <3>3. QED
      BY <1>1, <2>3, <2>6, <3>1, <3>2 DEF StopWhich
  <2>7. CASE Shutdown(c)
    BY <1>1, <1>3, <2>1, <2>2, <2>7 DEF Shutdown, Point, worldVars
  <2>8. CASE Release(c)
    BY <2>2, <2>3, <2>8 DEF Release
  <2>9. CASE Launch(c)
    BY <1>1, <1>3, <2>1, <2>2, <2>9 DEF Launch, Point
  <2>10. CASE AskLaunched(c)
    BY <1>3, <2>1, <2>10 DEF AskLaunched, Point
  <2>11. CASE Launched(c)
    BY <2>2, <2>11 DEF Launched
  <2>12. QED
    BY <2>5, <2>6, <2>7, <2>8, <2>9, <2>10, <2>11 DEF CmdStep
<1>7. /\ link' \in Nat /\ link' <= inst' /\ loads' \subseteq Shot /\ late' \in BOOLEAN
      /\ screen' \in [kind : {"connecting", "down", "up"}, shot : Shot]
      /\ (~late => ScreenInv)'
  <2>1. CASE UNCHANGED <<viewVars, late>>
    BY <1>1, <1>3, <2>1, ViewStays DEF viewVars
  <2>2. CASE OnDown /\ late' = (late \/ Overtaken(target[c]))
    <3>1. late' \in BOOLEAN
      BY <2>2
    <3>2. QED
      BY <1>3, <2>2, <3>1, DownMoves DEF IInv
  <2>3. CASE /\ OnUp(call[c].shot) /\ late' = (late \/ Late(call[c].shot))
             /\ UNCHANGED inst
    <3>1. call[c].shot \in Shot /\ call[c].shot.inst <= inst
      BY <1>1 DEF IInv, TypeOK, KnownInv, Call
    <3>2. /\ link' \in Nat /\ link' <= inst /\ loads' \subseteq Shot /\ UNCHANGED screen
          /\ ScreenInv /\ call[c].shot.inst >= link => ScreenInv'
      BY <2>3, <3>1, UpMoves DEF IInv
    <3>3. late' \in BOOLEAN /\ (~late' => ~late /\ call[c].shot.inst >= link)
      BY <2>3, <3>1, LateIs DEF IInv, TypeOK
    <3>4. screen' \in [kind : {"connecting", "down", "up"}, shot : Shot]
      BY <3>2 DEF IInv, TypeOK
    <3>5. (~late => ScreenInv)'
      BY <3>2, <3>3 DEF IInv
    <3>6. QED
      BY <2>3, <3>2, <3>3, <3>4, <3>5
  <2>4. QED
    BY <2>1, <2>2, <2>3 DEF Begin, CmdStep, StopWhich, Shutdown, Release, Launch, AskLaunched, Launched,
       worldVars
<1>8. TypeOK'
  BY <1>2, <1>3, <1>4, <1>5, <1>6, <1>7 DEF IInv, TypeOK, CmdTyped
<1>9. KnownInv'
  BY <1>2, <1>3, <1>5, <1>6, <1>7 DEF IInv, TypeOK, KnownInv, CmdTyped
<1>10. QED
  BY <1>7, <1>8, <1>9

\* The screen shows what has been read.
LEMMA ShowInductive ==
  ASSUME IInv, NEW shot \in loads, Show(shot)
  PROVE  TypeOK' /\ KnownInv' /\ (~late => ScreenInv)'
<1>1. /\ UNCHANGED <<inst, alive, version, wpc, found, wasDown, sub, cursor, timer, met, at, job, target>>
      /\ UNCHANGED <<call, link, late>>
      /\ loads' = loads \ {shot} /\ screen' = [kind |-> "up", shot |-> shot] /\ shot \in Shot
  BY DEF Show, worldVars, watchVars, cmdVars, IInv, TypeOK
<1>2. TypeOK'
  BY <1>1 DEF IInv, TypeOK
<1>3. KnownInv'
  BY <1>1 DEF IInv, KnownInv
<1>4. (~late => ScreenInv)'
  <2>1. ASSUME ~late PROVE ScreenInv'
    <3>1. ScreenInv /\ shot.inst = link /\ link \in Nat
      BY <2>1 DEF IInv, ScreenInv, TypeOK
    <3>2. QED
      BY <1>1, <3>1 DEF ScreenInv
  <2>2. QED
    BY <1>1, <2>1
<1>5. QED
  BY <1>2, <1>3, <1>4

\* What does not touch the watcher, and asks for no subscription, keeps what it follows.
LEMMA FollowStays ==
  ASSUME IInv, UNCHANGED watchVars, call'["sub"].state # "free" => call["sub"].state # "free"
  PROVE  FollowInv'
BY DEF IInv, FollowInv, watchVars

\* Only the watcher subscribes, and only to a daemon it follows.
LEMMA FollowInductive ==
  ASSUME IInv, [Next]_vars
  PROVE  FollowInv'
<1>1. /\ call \in [Purpose -> Call] /\ "sub" \in Purpose /\ "refresh" \in Purpose /\ "poll" \in Purpose
      /\ \A c \in Cmd : c \in Purpose /\ c # "sub"
  BY WatchAssumption DEF IInv, TypeOK, Purpose
<1>2. Free.state = "free"
  BY DEF Free
<1>3. FollowInv /\ found \in Nat \cup {Error} /\ wpc \in {"attach", "attached", "follow"}
  BY DEF IInv, TypeOK
<1>4. CASE Start \/ Exit \/ Change \/ ShowStep \/ UNCHANGED vars
  <2>1. UNCHANGED <<wpc, found, wasDown, sub, cursor, timer, met, call>>
    BY <1>4 DEF Start, Exit, Change, ShowStep, Show, vars, watchVars
  <2>2. QED
    BY <2>1, FollowStays DEF watchVars
<1>5. CASE \E p \in Purpose : Answer(p)
  <2>1. PICK p \in Purpose : Answer(p)
    BY <1>5
  <2>2. UNCHANGED watchVars
    BY <2>1 DEF Answer
  <2>3. call[p].state = "asked" /\ \A q \in Purpose \ {p} : call'[q] = call[q]
    BY <1>1, <2>1 DEF Answer
  <2>4. call'["sub"].state # "free" => call["sub"].state # "free"
    BY <1>1, <2>3
  <2>5. QED
    BY <2>2, <2>4, FollowStays
<1>6. CASE Poll
  BY <1>1, <1>6, FollowStays DEF Poll, Send
<1>7. CASE PollAnswered
  BY <1>1, <1>7, FollowStays DEF PollAnswered
<1>8. CASE Attach
  BY <1>3, <1>8 DEF Attach, FollowInv
<1>9. CASE AttachedToNone
  BY <1>3, <1>9 DEF AttachedToNone, FollowInv
<1>10. CASE AttachedToDaemon
  BY <1>3, <1>10 DEF AttachedToDaemon, FollowInv
<1>11. CASE EndFollow
  <2>1. call'["sub"] = Free
    BY <1>1, <1>11 DEF EndFollow
  <2>2. QED
    BY <1>2, <1>11, <2>1 DEF EndFollow, FollowInv
<1>12. CASE Subscribe
  <2>1. UNCHANGED <<wpc, found, sub, timer>> /\ sub = "ask"
    BY <1>12 DEF Subscribe, watchVars
  <2>2. QED
    BY <1>3, <2>1 DEF FollowInv
<1>13. CASE Subscribed
  <2>1. UNCHANGED <<wpc, found, timer>> /\ call'["sub"] = Free /\ call["sub"].state # "free"
    BY <1>1, <1>13 DEF Subscribed
  <2>2. sub = "ask"
    BY <1>3, <2>1 DEF FollowInv
  <2>3. QED
    BY <1>2, <1>3, <2>1, <2>2 DEF FollowInv
<1>14. CASE StreamEnds
  BY <1>3, <1>14 DEF StreamEnds, FollowInv
<1>15. CASE Event
  BY <1>3, <1>15 DEF Event, FollowInv
<1>16. CASE TimerFires
  <2>1. UNCHANGED <<wpc, found, sub>> /\ timer' = FALSE /\ timer /\ call'["sub"] = call["sub"]
    BY <1>1, <1>16 DEF TimerFires, Send
  <2>2. QED
    BY <1>3, <2>1 DEF FollowInv
<1>17. CASE Refreshed /\ ~EndFollow
  BY <1>1, <1>17, FollowStays DEF Refreshed
<1>18. CASE \E c \in Cmd : Begin(c) \/ CmdStep(c)
  <2>1. PICK c \in Cmd : Begin(c) \/ CmdStep(c)
    BY <1>18
  <2>2. UNCHANGED watchVars
    BY <2>1 DEF Begin, CmdStep, StopWhich, Shutdown, Release, Launch, AskLaunched, Launched
  <2>3. call'["sub"] = call["sub"]
    BY <1>1, <2>1 DEF Begin, CmdStep, StopWhich, Shutdown, Release, Launch, AskLaunched, Launched, Send
  <2>4. QED
    BY <2>2, <2>3, FollowStays
<1>19. QED
  BY <1>4, <1>5, <1>6, <1>7, <1>8, <1>9, <1>10, <1>11, <1>12, <1>13, <1>14, <1>15, <1>16, <1>17, <1>18
  DEF Next, WatchStep, Heartbeat

-----------------------------------------------------------------------------
(* The theorems.                                                           *)

LEMMA Initially ==
  ASSUME Init
  PROVE  IInv
<1>1. TypeOK
  BY NoShotTypes DEF Init, TypeOK, Purpose, Point, Job
<1>2. KnownInv /\ FollowInv
  BY DEF Init, KnownInv, FollowInv, Free, NoShot, Purpose
<1>3. ScreenInv
  BY DEF Init, ScreenInv
<1>4. QED
  BY <1>1, <1>2, <1>3 DEF IInv

LEMMA Inductive ==
  ASSUME IInv, [Next]_vars
  PROVE  IInv'
<1>1. FollowInv'
  BY FollowInductive
<1>2. TypeOK' /\ KnownInv' /\ (~late => ScreenInv)'
  <2>1. CASE UNCHANGED vars
    BY <2>1 DEF vars, IInv, TypeOK, KnownInv, ScreenInv
  <2>2. CASE Start \/ Exit \/ Change
    BY <2>2, WorldInductive
  <2>3. CASE Attach \/ AttachedToNone \/ AttachedToDaemon \/ Heartbeat \/ StreamEnds \/ Event
    BY <2>3, WatcherInductive
  <2>4. CASE Subscribe \/ TimerFires \/ Poll \/ \E p \in Purpose : Answer(p)
    BY <2>4, RequestsInductive
  <2>5. CASE PollAnswered \/ Subscribed \/ Refreshed
    BY <2>5, NewsInductive
  <2>6. CASE \E c \in Cmd : Begin(c) \/ CmdStep(c)
    BY <2>6, CommandsInductive
  <2>7. CASE ShowStep
    BY <2>7, ShowInductive DEF ShowStep
  <2>8. QED
    BY <2>1, <2>2, <2>3, <2>4, <2>5, <2>6, <2>7 DEF Next, WatchStep
<1>3. QED
  BY <1>1, <1>2 DEF IInv

\* Whatever daemons, status changes and commands there are, the daemons that the watcher and
\* the controller know of have been started, the watcher asks only one it follows, and as long
\* as no news was taken late the screen and what is read for it keep to the link.
THEOREM WatchInductive == Spec => []IInv
<1>1. Init => IInv
  BY Initially
<1>2. IInv /\ [Next]_vars => IInv'
  BY Inductive
<1>3. QED
  BY <1>1, <1>2, PTL DEF Spec

\* Every variable of the watcher and the controller keeps to its type.
THEOREM TypeCorrect == Spec => []TypeOK
<1>1. IInv => TypeOK
  BY DEF IInv
<1>2. QED
  BY <1>1, WatchInductive, PTL

\* A shown daemon gives way only to itself or a later one, unless news of a daemon was taken
\* after news that superseded it: onDaemon() and the commands, in any interleaving.
THEOREM DaemonsGoForward == Spec => NeverBackToOldDaemon
<1>1. ASSUME IInv, [Next]_vars, screen.kind = "up", screen'.kind = "up", ~late
      PROVE  screen'.shot.inst >= screen.shot.inst
  <2>1. screen.shot.inst \in Nat /\ ScreenInv
    BY <1>1 DEF IInv, TypeOK, Shot
  <2>2. CASE UNCHANGED screen
    BY <2>1, <2>2
  <2>3. CASE ShowStep
    <3>1. PICK shot \in loads : Show(shot)
      BY <2>3 DEF ShowStep
    <3>2. screen'.shot = shot /\ shot.inst = link /\ screen.shot.inst <= link
      BY <1>1, <2>1, <3>1 DEF Show, ScreenInv
    <3>3. link \in Nat
      BY <1>1 DEF IInv, TypeOK
    <3>4. QED
      BY <2>1, <3>2, <3>3
  <2>4. ~OnDown
    BY <1>1 DEF OnDown
  <2>5. UNCHANGED screen \/ ShowStep
    <3>1. CASE \E c \in Cmd : Begin(c) \/ CmdStep(c)
      BY <2>4, <3>1 DEF Begin, CmdStep, StopWhich, Shutdown, Release, Launch, AskLaunched, Launched, OnUp,
         viewVars
    <3>2. CASE WatchStep \/ StreamEnds
      BY <2>4, <3>2 DEF WatchStep, Attach, AttachedToNone, AttachedToDaemon, Heartbeat, Subscribe,
         Subscribed, StreamEnds, Event, TimerFires, Refreshed, OnUp, viewVars
    <3>3. CASE Start \/ Exit \/ Change \/ Poll \/ PollAnswered \/ (\E p \in Purpose : Answer(p)) \/ UNCHANGED vars
      BY <3>3 DEF Start, Exit, Change, Poll, PollAnswered, Answer, OnUp, viewVars, vars
    <3>4. QED
      BY <1>1, <3>1, <3>2, <3>3 DEF Next
  <2>6. QED
    BY <2>2, <2>3, <2>5
<1>2. IInv /\ [Next]_vars =>
        [(screen.kind = "up" /\ screen'.kind = "up" /\ ~late) =>
           screen'.shot.inst >= screen.shot.inst]_vars
  BY <1>1
<1>3. QED
  BY <1>2, WatchInductive, PTL DEF Spec, NeverBackToOldDaemon
=============================================================================
