------------------------------- MODULE AdminRelay -------------------------------
(***************************************************************************)
(* The event stream of the web admin: RelayHub (src/admin/relay.ts) and    *)
(* serveEvents (src/admin/bff.ts) in the daemon, the sessions that admit a *)
(* request (src/admin/auth.ts), and the page's `EventSource` as            *)
(* packages/admin-ui/src/services/events.ts uses it.  One page; the daemon *)
(* may stop and start again, the connection may break at any moment.       *)
(*                                                                         *)
(* serveEvents replays and subscribes in one turn of the event loop, and   *)
(* publish() writes to every listener in one turn, so each is one action.  *)
(* A browser reconnects by itself, with the id of the last frame it got,   *)
(* unless the answer was an HTTP error: then the stream stays closed.      *)
(***************************************************************************)
EXTENDS Naturals, Sequences

CONSTANTS RingSize,   \* events the relay keeps
          MaxEvents,  \* bound on the events of one daemon
          MaxEpoch,   \* bound on the daemons, one after the other
          NoId

ASSUME RelayAssumption ==
  RingSize \in Nat \ {0} /\ MaxEvents \in Nat /\ MaxEpoch \in Nat /\ NoId \notin Nat

VARIABLES
  epoch,      \* which daemon this is, or will be when none is up
  up,         \* its admin server listens
  log,        \* the kinds of the events it has published; the ring holds the last ones
  first,      \* the number of the oldest event the ring still holds
  cookie,     \* the daemon that issued the page's session, or NoId
  source,     \* the page's EventSource
  last,       \* the last event id it has received, or NoId
  lastEpoch,  \* history: the daemon that id came from
  pipe,       \* frames on their way to it
  said,       \* what the stream has said last
  opened,     \* history: this EventSource has been open to this daemon
  base,       \* history: events published when it was first
  lost        \* history: the newest event that a break without a cursor has swallowed

history == <<opened, base, lost>>
relayVars == <<epoch, up, log, first, cookie, source, last, lastEpoch, pipe, said, history>>

Kind == {"status", "other"}
Frame == [kind : Kind \cup {"resync"}, id : Nat]

TypeOK ==
  /\ epoch \in Nat /\ up \in BOOLEAN
  /\ log \in Seq(Kind)
  /\ first \in Nat \ {0}
  /\ cookie \in Nat \cup {NoId}
  /\ source \in {"none", "connecting", "open", "closed"}
  /\ last \in Nat \cup {NoId} /\ lastEpoch \in Nat
  /\ pipe \in Seq(Frame)
  /\ said \in {"nothing", "event", "resync"}
  /\ opened \in BOOLEAN /\ base \in Nat /\ lost \in Nat

Init ==
  /\ epoch = 1 /\ up = TRUE
  /\ log = <<>> /\ first = 1
  /\ cookie = NoId
  /\ source = "none" /\ last = NoId /\ lastEpoch = 0
  /\ pipe = <<>> /\ said = "nothing"
  /\ opened = FALSE /\ base = 0 /\ lost = 0

seq == Len(log)
Authorised == cookie = epoch
\* The page's cursor is one of this daemon's numbers.
Cursor == IF lastEpoch = epoch THEN last ELSE NoId

-----------------------------------------------------------------------------
(* The daemon.                                                             *)

\* publish(): number, ring, listeners.
Publish(k) ==
  /\ up /\ seq < MaxEvents
  /\ log' = Append(log, k)
  /\ first' = IF seq + 1 - first + 1 > RingSize THEN first + 1 ELSE first
  /\ pipe' = IF source = "open" THEN Append(pipe, [kind |-> k, id |-> seq + 1]) ELSE pipe
  /\ UNCHANGED <<epoch, up, cookie, source, last, lastEpoch, said, history>>

EventsAfter(n) == [i \in 1..(seq - n) |-> [kind |-> log[n + i], id |-> n + i]]
Expired == [kind |-> "resync", id |-> seq]

\* Mutant: whatever the ring still has, without a `resync` for what it has not.
ReplayWhatIsLeft(n) ==
  IF n = NoId THEN <<>>
  ELSE IF n >= seq THEN <<>>
  ELSE EventsAfter(IF first > n + 1 THEN first - 1 ELSE n)

\* replayAfter(): nothing without a cursor, the events after it, or one `resync`.
ReplayAfter(n) ==
  IF n = NoId THEN <<>>
  ELSE IF n >= seq THEN <<>>
  ELSE IF first > n + 1 THEN <<Expired>>
  ELSE EventsAfter(n)

\* The daemon stops; its connections are closed, its sessions and its ring are gone.
StopDaemon ==
  /\ up /\ epoch < MaxEpoch
  /\ up' = FALSE /\ epoch' = epoch + 1
  /\ log' = <<>> /\ first' = 1
  /\ source' = IF source = "open" THEN "connecting" ELSE source
  /\ pipe' = <<>>
  /\ opened' = FALSE /\ base' = 0 /\ lost' = 0
  /\ UNCHANGED <<cookie, last, lastEpoch, said>>

StartDaemon ==
  /\ ~up
  /\ up' = TRUE
  /\ UNCHANGED <<epoch, log, first, cookie, source, last, lastEpoch, pipe, said, history>>

\* POST /api/session with the right token.
Login ==
  /\ up
  /\ cookie' = epoch
  /\ UNCHANGED <<epoch, up, log, first, source, last, lastEpoch, pipe, said, history>>

\* The session has been idle for too long; validate() forgets it.
Expire ==
  /\ cookie # NoId
  /\ cookie' = NoId
  /\ UNCHANGED <<epoch, up, log, first, source, last, lastEpoch, pipe, said, history>>

-----------------------------------------------------------------------------
(* The page's stream.                                                      *)

Forget ==
  /\ last' = NoId /\ lastEpoch' = 0 /\ said' = "nothing"
  /\ pipe' = <<>>
  /\ opened' = FALSE /\ base' = 0 /\ lost' = 0

\* open(): a new EventSource, which knows no id yet, unless one is alive.
Open ==
  IF source \in {"connecting", "open"}
  THEN UNCHANGED relayVars
  ELSE /\ Forget
       /\ source' = "connecting"
       /\ UNCHANGED <<epoch, up, log, first, cookie>>

\* close(), on signing out: the session's cookie is cleared first.
Close ==
  /\ Forget
  /\ source' = "none"
  /\ cookie' = IF up THEN NoId ELSE cookie
  /\ UNCHANGED <<epoch, up, log, first>>

\* The browser's request reaches the daemon: 401, or serveEvents.  A stream that is opened
\* again before its first frame has no cursor to send: whatever was published up to now is
\* replayed to nobody.
Connect ==
  /\ source = "connecting" /\ up
  /\ IF Authorised
     THEN /\ source' = "open"
          /\ pipe' = ReplayAfter(last)
          /\ opened' = TRUE
          /\ base' = IF opened THEN base ELSE seq
          /\ lost' = IF opened /\ Cursor = NoId THEN seq ELSE lost
     ELSE source' = "closed" /\ UNCHANGED <<pipe, history>>
  /\ UNCHANGED <<epoch, up, log, first, cookie, last, lastEpoch, said>>

\* The connection is lost with whatever was on its way.
Break ==
  /\ source = "open"
  /\ source' = "connecting"
  /\ pipe' = <<>>
  /\ UNCHANGED <<epoch, up, log, first, cookie, last, lastEpoch, said, history>>

Receive ==
  /\ source = "open" /\ pipe # <<>>
  /\ said' = IF Head(pipe).kind = "resync" THEN "resync" ELSE "event"
  /\ last' = Head(pipe).id /\ lastEpoch' = epoch
  /\ pipe' = Tail(pipe)
  /\ UNCHANGED <<epoch, up, log, first, cookie, source, history>>

Next ==
  \/ \E k \in Kind : Publish(k)
  \/ StopDaemon \/ StartDaemon \/ Login \/ Expire
  \/ Open \/ Close \/ Connect \/ Break \/ Receive

Spec == Init /\ [][Next]_relayVars

-----------------------------------------------------------------------------
(* What the stream promises.                                               *)

\* Within the life of one daemon the page gets every event once and in order, or
\* is told to resync: across breaks, replays, and a ring that has moved on.
Stream == INSTANCE EventStream WITH
  published <- seq,
  position <- Cursor,
  said <- said
StreamKept == Stream!Spec

\* When nothing is on its way any more, an open stream that has a cursor has
\* delivered everything: what the page missed while disconnected was made good.
NothingMissed ==
  (source = "open" /\ pipe = <<>> /\ Cursor # NoId) => Cursor = seq

-----------------------------------------------------------------------------
(* What the documentation says and the code does not do.                   *)

\* "the daemon replays from its ring or sends `resync`": a cursor that is not
\* this daemon's gets all it has published, or a `resync`.
ForeignCursorResynced ==
  [][(Connect /\ source' = "open" /\ last # NoId /\ lastEpoch # epoch /\ seq > 0)
       => \/ Len(pipe') = seq
          \/ \E i \in DOMAIN pipe' : pipe'[i].kind = "resync"]_relayVars
=============================================================================
