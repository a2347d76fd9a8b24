-------------------------------- MODULE AdminPage --------------------------------
(***************************************************************************)
(* The admin page on top of its event stream: the status store             *)
(* (packages/admin-ui/src/stores/status-store.ts), the root layout that    *)
(* chooses between sign-in and shell (routes/__root.tsx), the shell that   *)
(* keeps the status live while it is mounted (useLiveStatus), and          *)
(* GET /api/status, whose answer is what the daemon was when it was taken. *)
(*                                                                         *)
(* A status is identified by the daemon it is of and by how many events    *)
(* that daemon had published when it was taken.                            *)
(***************************************************************************)
EXTENDS AdminRelay

CONSTANT Slot    \* requests for the status that may be on their way

VARIABLES
  stage,    \* of the page load: "new", "fetching" the first status, "booted"
  status,   \* the store's status: a Shown, or NoStatus
  error,    \* the store has an error to show
  unauthorized,
  inflight, \* a refresh() is running
  queued,   \* another is to follow it
  timer,    \* refreshSoon() has set its timer
  mounted,  \* the shell's handlers are subscribed
  since,    \* history: events published when they were
  signedOut, \* history: signed out and not in again
  request   \* [Slot -> Request]

pageVars == <<stage, status, error, unauthorized, inflight, queued, timer, mounted, since, signedOut, request>>
storeVars == <<status, error, unauthorized>>
allVars == <<relayVars, pageVars>>

Shown == [epoch : Nat, asof : Nat]
NoStatus == [epoch |-> 0, asof |-> 0]
Request == [state : {"free", "sent", "ok", "401", "error"}, cookie : Nat \cup {NoId}, answer : Shown]
Free == [state |-> "free", cookie |-> NoId, answer |-> NoStatus]

PageTypeOK ==
  /\ TypeOK
  /\ stage \in {"new", "fetching", "booted"}
  /\ status \in Shown
  /\ error \in BOOLEAN /\ unauthorized \in BOOLEAN
  /\ inflight \in BOOLEAN /\ queued \in BOOLEAN /\ timer \in BOOLEAN /\ mounted \in BOOLEAN
  /\ since \in Nat /\ signedOut \in BOOLEAN
  /\ request \in [Slot -> Request]

PageInit ==
  /\ Init
  /\ stage = "new" /\ status = NoStatus /\ error = FALSE /\ unauthorized = FALSE
  /\ inflight = FALSE /\ queued = FALSE /\ timer = FALSE /\ mounted = FALSE /\ since = 0
  /\ signedOut = FALSE
  /\ request = [i \in Slot |-> Free]

\* RootLayout: the splash until there is something to show, then sign-in or shell.
Splash == stage # "booted" /\ status = NoStatus
SignInShown == ~Splash /\ unauthorized /\ status = NoStatus
ShellShown == ~Splash /\ ~SignInShown

-----------------------------------------------------------------------------
(* The status store.                                                       *)

Send(i, c) ==
  request' = [request EXCEPT ![i] = [state |-> "sent", cookie |-> c, answer |-> NoStatus]]

\* Mutant: every call sends a request of its own.
RefreshAtOnce(c) ==
  /\ \E i \in Slot : request[i].state = "free" /\ Send(i, c)
  /\ inflight' = TRUE
  /\ UNCHANGED queued

\* refresh(): one request at a time, and one more if asked meanwhile.
Refresh(c) ==
  IF inflight
  THEN queued' = TRUE /\ UNCHANGED <<inflight, request>>
  ELSE /\ \E i \in Slot : request[i].state = "free" /\ Send(i, c)
       /\ inflight' = TRUE
       /\ UNCHANGED queued

\* The daemon answers: status() takes a snapshot, which may fail.
Serve(i) ==
  /\ request[i].state = "sent" /\ up
  /\ \/ /\ request[i].cookie = epoch
        /\ request' = [request EXCEPT ![i].state = "ok",
                                      ![i].answer = [epoch |-> epoch, asof |-> seq]]
     \/ /\ request[i].cookie = epoch
        /\ request' = [request EXCEPT ![i].state = "error"]
     \/ /\ request[i].cookie # epoch
        /\ request' = [request EXCEPT ![i].state = "401"]
  /\ UNCHANGED <<stage, status, error, unauthorized, inflight, queued, timer, mounted, since, signedOut>>
  /\ UNCHANGED relayVars

Unreachable(i) ==
  /\ request[i].state = "sent" /\ ~up
  /\ request' = [request EXCEPT ![i].state = "error"]
  /\ UNCHANGED <<stage, status, error, unauthorized, inflight, queued, timer, mounted, since, signedOut>>
  /\ UNCHANGED relayVars

\* What refresh() sets when its answer is in.
Store(outcome, answer) ==
  /\ status' = IF outcome = "ok" THEN answer ELSE IF outcome = "401" THEN NoStatus ELSE status
  /\ error' = (outcome = "error")
  /\ unauthorized' = IF outcome = "error" THEN unauthorized ELSE outcome = "401"

\* Mutant: what was asked for during the request is forgotten with its answer.
SettleForgetful(i) ==
  /\ request[i].state \in {"ok", "401", "error"}
  /\ Store(request[i].state, request[i].answer)
  /\ request' = [request EXCEPT ![i] = Free] /\ inflight' = FALSE
  /\ queued' = FALSE
  /\ stage' = "booted"
  /\ UNCHANGED <<timer, mounted, since, signedOut>> /\ UNCHANGED relayVars

Settle(i) ==
  /\ request[i].state \in {"ok", "401", "error"}
  /\ Store(request[i].state, request[i].answer)
  /\ IF queued
     THEN Send(i, cookie) /\ UNCHANGED inflight
     ELSE request' = [request EXCEPT ![i] = Free] /\ inflight' = FALSE
  /\ queued' = FALSE
  /\ stage' = "booted"
  /\ UNCHANGED <<timer, mounted, since, signedOut>> /\ UNCHANGED relayVars

\* refreshSoon()'s timer.
TimerFires ==
  /\ timer /\ timer' = FALSE
  /\ Refresh(cookie)
  /\ UNCHANGED <<stage, status, error, unauthorized, mounted, since, signedOut>> /\ UNCHANGED relayVars

-----------------------------------------------------------------------------
(* The page.                                                               *)

\* bootstrap(): sign in with the fragment's token, if there is one, then ask.
Bootstrap ==
  /\ stage = "new"
  /\ Login \/ UNCHANGED relayVars
  /\ Refresh(cookie')
  /\ stage' = "fetching"
  /\ UNCHANGED <<status, error, unauthorized, timer, mounted, since, signedOut>>

\* The sign-in form.
SignIn ==
  /\ SignInShown
  /\ Login
  /\ Refresh(cookie')
  /\ signedOut' = FALSE
  /\ UNCHANGED <<stage, status, error, unauthorized, timer, mounted, since>>

\* useLiveStatus() subscribes; subscribe() opens the stream unless it is alive.
Mount ==
  /\ ShellShown /\ ~mounted
  /\ mounted' = TRUE /\ since' = seq
  /\ Open
  /\ UNCHANGED <<stage, status, error, unauthorized, inflight, queued, timer, signedOut, request>>

Unmount ==
  /\ ~ShellShown /\ mounted
  /\ mounted' = FALSE /\ since' = 0
  /\ UNCHANGED <<stage, status, error, unauthorized, inflight, queued, timer, signedOut, request>>
  /\ UNCHANGED relayVars

\* Mutant: an event is taken to be covered by the request already on its way.
DeliverUnlessBusy ==
  /\ Receive
  /\ timer' = (timer \/ (mounted /\ ~inflight /\ Head(pipe).kind # "other"))
  /\ UNCHANGED <<stage, status, error, unauthorized, inflight, queued, mounted, since, signedOut, request>>

\* A frame arrives; the shell's handlers listen to the status events and to `resync`.
Deliver ==
  /\ Receive
  /\ timer' = (timer \/ (mounted /\ Head(pipe).kind # "other"))
  /\ UNCHANGED <<stage, status, error, unauthorized, inflight, queued, mounted, since, signedOut, request>>

\* The dashboard's Refresh button.
PressRefresh ==
  /\ mounted /\ ~inflight
  /\ Refresh(cookie)
  /\ UNCHANGED <<stage, status, error, unauthorized, timer, mounted, since, signedOut>> /\ UNCHANGED relayVars

\* signOut(): DELETE the session, drop the stream, reset() the store.
SignOut ==
  /\ mounted /\ ShellShown
  /\ Close
  /\ status' = NoStatus /\ error' = FALSE /\ unauthorized' = TRUE
  /\ queued' = FALSE /\ timer' = FALSE
  /\ signedOut' = TRUE
  /\ UNCHANGED <<stage, inflight, mounted, since, request>>

PageStep ==
  \/ Mount \/ Unmount \/ Deliver \/ TimerFires
  \/ \E i \in Slot : Serve(i) \/ Unreachable(i) \/ Settle(i)

DaemonStep ==
  /\ \/ \E k \in Kind : Publish(k)
     \/ StopDaemon \/ StartDaemon \/ (Expire /\ ~inflight) \/ Connect \/ Break
  /\ since' = IF epoch' = epoch THEN since ELSE 0
  /\ UNCHANGED <<stage, status, error, unauthorized, inflight, queued, timer, mounted, signedOut, request>>

PageNext == PageStep \/ DaemonStep \/ Bootstrap \/ SignIn \/ PressRefresh \/ SignOut

PageSpec == PageInit /\ [][PageNext]_allVars

\* Browser and daemon answer what they are asked; a person need not do anything.
PageFairSpec ==
  /\ PageSpec
  /\ WF_allVars(PageStep)
  /\ WF_allVars(Connect /\ UNCHANGED pageVars)
  /\ SF_allVars(Deliver) /\ SF_allVars(TimerFires)
  /\ \A i \in Slot : SF_allVars(Serve(i) \/ Unreachable(i)) /\ SF_allVars(Settle(i))

-----------------------------------------------------------------------------
(* What the page promises.                                                 *)

Quiet == pipe = <<>> /\ ~timer /\ ~inflight
Live == mounted /\ ShellShown /\ source = "open"

\* The status on the screen takes the i-th event of this daemon into account.
Reflects(i) == status.epoch = epoch /\ status.asof >= i

\* The page is to be brought the i-th event: it changes the status, and it was published
\* after the handlers and the stream were there, and after the last break in which the
\* stream had no frame yet to resume from.
Due(i) == log[i] = "status" /\ i > base /\ i > since /\ i > lost

\* With nothing left to do, the page shows what the daemon is, or an error: every event
\* due is reflected, across breaks that have a cursor, replays, a ring that has moved on,
\* events during a fetch and bursts of them.  What goes by in a break before the first
\* frame is lost to the page (BreaksAreMadeGood).
LiveStatusIsCurrent ==
  (Live /\ Quiet /\ ~error) => \A i \in 1..seq : Due(i) => Reflects(i)

\* The screen never goes back to an older status, or to an older daemon's.
ShownNeverGoesBack ==
  [][(status # NoStatus /\ status' # NoStatus) =>
       \/ status'.epoch > status.epoch
       \/ status'.epoch = status.epoch /\ status'.asof >= status.asof]_allVars

\* And it gets there, unless a request fails, the person signs out, or the daemon
\* and its stream go away.
StatusCatchesUp ==
  \A i \in 1..MaxEvents :
    (Live /\ i \in DOMAIN log /\ Due(i))
      ~> (Reflects(i) \/ error \/ ~Live \/ ~up)

-----------------------------------------------------------------------------
(* What the comments and the documentation say and the code does not do.   *)

\* "Keeps the status store live for as long as the caller is mounted".
KeepsStatusLive ==
  (Live /\ Quiet /\ ~error) => \A i \in 1..seq : log[i] = "status" => Reflects(i)

\* "numbered by this relay so a reconnecting page can resume with `Last-Event-ID`": what
\* is published once the stream was open is made good, whenever it breaks.
BreaksAreMadeGood ==
  (Live /\ Quiet /\ ~error) =>
    \A i \in 1..seq : (log[i] = "status" /\ i > base /\ i > since) => Reflects(i)

\* "the daemon replays from its ring or sends `resync`, on which the page
\* re-fetches": a page learns that another daemon has taken over.
LearnsOfNewDaemon ==
  (mounted /\ status.epoch < epoch /\ epoch = MaxEpoch)
    ~> (status.epoch = epoch \/ error \/ ~mounted \/ ~up)

\* "Signing out drops the stream too; the next page load opens a fresh one with
\* its new cookie."
SignedOutStaysOut == signedOut => source = "none"
=============================================================================
