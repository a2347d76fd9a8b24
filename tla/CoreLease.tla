------------------------------- MODULE CoreLease -------------------------------
(***************************************************************************)
(* The lease a client of the core holds while it works: withLease of       *)
(* src/core-link/link.ts, under which stopDaemon (src/core-link/           *)
(* lifecycle.ts) asks the core to shut down. The core keeps a registration *)
(* per client, which lapses unless it is renewed; it refuses to shut down  *)
(* for one client while another is registered. Time is counted in          *)
(* intervals of the heartbeat.                                             *)
(***************************************************************************)
EXTENDS Naturals, FiniteSets

CONSTANTS
  Stop,  \* commands that stop the server, of `atc` or of the terminal UI
  TTL    \* how many intervals a registration lasts without a heartbeat

ASSUME LeaseAssumption == TTL \in Nat /\ TTL > 1

VARIABLES
  server,  \* the core: "up", "closing", "gone"
  lease,   \* intervals left of each client's registration; 0: the core has none
  app,     \* a client that is not of this program is registered
  force,   \* the stops run with --force
  await,   \* the await a stop is at
  verdict, \* what the core answered to its shutdown request
  timer,   \* the stops whose heartbeat interval runs
  due,     \* those whose timer is to fire now
  beat,    \* those with a heartbeat in flight
  late     \* history: an answer of the core to it took a whole interval, or a heartbeat failed

leaseVars == <<server, lease, app, force, await, verdict, timer, due, beat, late>>
client == <<timer, due, beat>>

Phases == {"off", "registering", "work", "settle", "leave", "release", "ended", "dead"}
Over == {"ended", "dead"}
Verdicts == {"none", "accepted", "refused", "failed", "stopped", "timed out"}

LeaseTypeOK ==
  /\ server \in {"up", "closing", "gone"}
  /\ lease \in [Stop -> 0..TTL] /\ app \in BOOLEAN
  /\ await \in [Stop -> Phases]
  /\ verdict \in [Stop -> Verdicts]
  /\ force \subseteq Stop /\ timer \subseteq Stop /\ due \subseteq Stop
  /\ beat \subseteq Stop /\ late \subseteq Stop

LeaseInit ==
  /\ server = "up" /\ app \in BOOLEAN /\ force \in SUBSET Stop
  /\ lease = [c \in Stop |-> 0]
  /\ await = [c \in Stop |-> "off"] /\ verdict = [c \in Stop |-> "none"]
  /\ timer = {} /\ due = {} /\ beat = {} /\ late = {}

Await(c, next) == await' = [await EXCEPT ![c] = next]
Answer(c, v) == verdict' = [verdict EXCEPT ![c] = v]

-----------------------------------------------------------------------------
(* withLease.                                                              *)

\* client.register arrives; a core that is gone refuses the connection.
Register(c) ==
  /\ await[c] = "off"
  /\ IF server = "up"
     THEN /\ lease' = [lease EXCEPT ![c] = TTL]
          /\ Await(c, "registering") /\ UNCHANGED verdict
     ELSE Await(c, "ended") /\ Answer(c, "failed") /\ UNCHANGED lease
  /\ UNCHANGED <<server, app, force, client, late>>

\* The answer; from here the interval runs beside the work.
Registered(c) ==
  /\ await[c] = "registering"
  /\ Await(c, "work")
  /\ timer' = timer \cup {c}
  /\ UNCHANGED <<server, lease, app, force, verdict, due, beat, late>>

\* Mutant: a timeout where the interval belongs.
HeartbeatOnce(c) ==
  /\ c \in due
  /\ due' = due \ {c} /\ timer' = timer \ {c}
  /\ beat' = beat \cup {c}
  /\ UNCHANGED <<server, lease, app, force, await, verdict, late>>

\* The interval: at most one heartbeat in flight.
Heartbeat(c) ==
  /\ c \in due
  /\ due' = due \ {c}
  /\ beat' = beat \cup {c}
  /\ UNCHANGED <<server, lease, app, force, await, verdict, timer, late>>

\* It renews a registration that has not lapsed; any error is only logged.
HeartbeatAnswered(c) ==
  /\ c \in beat
  /\ beat' = beat \ {c}
  /\ lease' = [lease EXCEPT ![c] = IF server = "up" /\ @ > 0 THEN TTL ELSE @]
  /\ UNCHANGED <<server, app, force, await, verdict, timer, due, late>>

HeartbeatLost(c) ==
  /\ c \in beat
  /\ beat' = beat \ {c} /\ late' = late \cup {c}
  /\ UNCHANGED <<server, lease, app, force, await, verdict, timer, due>>

OthersAttached(c) == app \/ \E d \in Stop \ {c} : lease[d] > 0

\* The work of a stop: client.shutdown. However it ends, the interval is cleared.
Shutdown(c) ==
  /\ await[c] = "work"
  /\ IF server # "up" THEN Answer(c, "failed") /\ UNCHANGED server
     ELSE IF OthersAttached(c) /\ c \notin force THEN Answer(c, "refused") /\ UNCHANGED server
     ELSE Answer(c, "accepted") /\ server' = "closing"
  /\ Await(c, "settle")
  /\ timer' = timer \ {c} /\ due' = due \ {c}
  /\ UNCHANGED <<lease, app, force, beat, late>>

\* Mutant: the heartbeat in flight is not waited for.
SettleAtOnce(c) ==
  /\ await[c] = "settle" /\ Await(c, "leave")
  /\ UNCHANGED <<server, lease, app, force, verdict, client, late>>

\* await inflight
Settle(c) ==
  /\ await[c] = "settle" /\ c \notin beat
  /\ Await(c, "leave")
  /\ UNCHANGED <<server, lease, app, force, verdict, client, late>>

\* client.unregister, whose failure is swallowed; then what stopDaemon does with the verdict.
Leave(c) ==
  /\ await[c] = "leave"
  /\ Await(c, IF verdict[c] = "accepted" THEN "release" ELSE "ended")
  /\ \/ server = "up" /\ lease' = [lease EXCEPT ![c] = 0]
     \/ UNCHANGED lease
  /\ UNCHANGED <<server, app, force, verdict, client, late>>

-----------------------------------------------------------------------------
(* waitForRelease, seen from outside: DaemonLifecycle has its steps.       *)

\* Mutant: without a deadline.
ReleaseOnly(c) ==
  /\ await[c] = "release" /\ server = "gone"
  /\ Await(c, "ended") /\ Answer(c, "stopped")
  /\ UNCHANGED <<server, lease, app, force, client, late>>

Release(c) ==
  /\ await[c] = "release"
  /\ Await(c, "ended")
  /\ Answer(c, IF server = "gone" THEN "stopped" ELSE "timed out")
  /\ UNCHANGED <<server, lease, app, force, client, late>>

\* The process dies; the core hears nothing of it, and a heartbeat may still be under way.
StopDies(c) ==
  /\ await[c] \notin Over
  /\ Await(c, "dead")
  /\ timer' = timer \ {c} /\ due' = due \ {c}
  /\ UNCHANGED <<server, lease, app, force, verdict, beat, late>>

-----------------------------------------------------------------------------
(* The core and the clock.                                                 *)

CoreExits ==
  /\ server = "closing" /\ server' = "gone"
  /\ lease' = [c \in Stop |-> 0] /\ app' = FALSE
  /\ UNCHANGED <<force, await, verdict, client, late>>

Attach ==
  /\ server = "up" /\ app' = ~app
  /\ UNCHANGED <<server, lease, force, await, verdict, client, late>>

\* An interval has passed. Timers fire on time; who was still waiting for an answer is late.
Tick ==
  /\ due = {} /\ (timer # {} \/ \E c \in Stop : lease[c] > 0)
  /\ lease' = [c \in Stop |-> IF lease[c] > 0 THEN lease[c] - 1 ELSE 0]
  /\ due' = timer
  /\ late' = late \cup beat \cup {c \in Stop : await[c] = "registering"}
  /\ UNCHANGED <<server, app, force, await, verdict, timer, beat>>

StopStep(c) ==
  \/ Register(c) \/ Registered(c) \/ Shutdown(c) \/ Settle(c) \/ Leave(c) \/ Release(c)
Requests(c) == HeartbeatAnswered(c) \/ HeartbeatLost(c)

LeaseNext ==
  \/ \E c \in Stop : StopStep(c) \/ Heartbeat(c) \/ Requests(c) \/ StopDies(c)
  \/ CoreExits \/ Attach \/ Tick

LeaseSpec == LeaseInit /\ [][LeaseNext]_leaseVars

\* A command goes on, timers fire, requests are answered or fail. (Whether the core exits is its own affair.)
LeaseFairSpec ==
  /\ LeaseSpec
  /\ \A c \in Stop : WF_leaseVars(Registered(c)) /\ WF_leaseVars(Shutdown(c)) /\ WF_leaseVars(Settle(c))
                     /\ WF_leaseVars(Leave(c)) /\ WF_leaseVars(Release(c)) /\ WF_leaseVars(Heartbeat(c)) /\ WF_leaseVars(Requests(c))

-----------------------------------------------------------------------------
(* Properties.                                                             *)

\* While a stop works, the core counts it among its clients, unless an answer of the core took
\* longer than the interval: the interval of withLease outlives any work (link.ts:179-189).
LeaseCoversWork ==
  \A c \in Stop : await[c] = "work" /\ server = "up" /\ c \notin late => lease[c] > 0

\* A stop that has ended leaves nothing behind that renews its registration, whether it was
\* accepted, refused or failed, and even where the core did not hear it leave: the stops after
\* it are refused on its account for no longer than the TTL (link.ts:190-199).
LeaseOnlyLapses == [][\A c \in Stop : await[c] = "ended" => lease'[c] <= lease[c]]_leaseVars

\* A stop that has begun ends, whatever the core answers and whoever dies (lifecycle.ts:89-120).
StopsEnd == \A c \in Stop : await[c] = "registering" ~> await[c] \in Over

\* Of two stops without --force, with no other client, one stops the server. (It need not.)
OneStopWins == ~ \A c \in Stop : verdict[c] = "refused" /\ ~app
=============================================================================
