--------------------------- MODULE AdminStreamProofs ---------------------------
(***************************************************************************)
(* The admin's event stream and the page on top of it, for every ring      *)
(* size, number of events, of daemons and of request slots.                *)
(*                                                                         *)
(* The relay implements EventStream.  The invariant behind it says what is *)
(* on the wire: consecutive numbers up to the newest event, joined to the  *)
(* page's cursor unless a `resync` stands in front.                        *)
(*                                                                         *)
(* Every step of the page is a step of the relay or leaves it alone, so    *)
(* all this holds under the page too: its screen never goes back, and with *)
(* nothing left to do it shows every event it was given.  For an event the *)
(* page owes its reader is always with somebody: the wire has it, the      *)
(* timer is set, a request that will see it is on its way, or the status   *)
(* has it already, unless the page shows an error or sign-in.              *)
(***************************************************************************)
EXTENDS AdminPage, TLAPS

\* What a step leaves alone is always asked of the single variables.
USE DEF history

\* The ring holds a suffix of what was published; only an open stream has a wire.
RingInv ==
  /\ first \in 1..(seq + 1)
  /\ lastEpoch <= epoch
  /\ ~up => source # "open"
  /\ source # "open" => pipe = <<>>

\* The wire holds the newest events, in order, and at most one `resync`, in front.
Wire ==
  /\ Len(pipe) <= seq
  /\ \A i \in 1..Len(pipe) : pipe[i].id = seq - Len(pipe) + i
  /\ \A i \in 2..Len(pipe) : pipe[i].kind # "resync"

\* What is on the wire goes on where the page's cursor stands.
Joined ==
  Cursor # NoId =>
    /\ last <= seq
    /\ source = "open" =>
         IF pipe # <<>> /\ pipe[1].kind = "resync" THEN last <= pipe[1].id
         ELSE last + Len(pipe) = seq

IInv == TypeOK /\ RingInv /\ Wire /\ Joined

-----------------------------------------------------------------------------
\* What a request with a cursor is answered: nothing when it is not behind, one
\* `resync`, or all the events after it.
LEMMA Replayed ==
  ASSUME TypeOK, RingInv, NEW n \in Nat \cup {NoId}
  PROVE  LET p == ReplayAfter(n) IN
         /\ p \in Seq(Frame)
         /\ Len(p) <= seq
         /\ \A i \in 1..Len(p) : p[i].id = seq - Len(p) + i
         /\ \A i \in 2..Len(p) : p[i].kind # "resync"
         /\ n \in Nat /\ n <= seq =>
              IF p # <<>> /\ p[1].kind = "resync" THEN n <= p[1].id ELSE n + Len(p) = seq
<1> USE RelayAssumption DEF TypeOK, RingInv, seq
<1>1. CASE n = NoId
  BY <1>1 DEF ReplayAfter
<1>2. CASE n \in Nat /\ n >= seq
  BY <1>2 DEF ReplayAfter
<1>3. CASE n \in Nat /\ n < seq /\ first > n + 1
  <2>1. ReplayAfter(n) = <<Expired>>
    BY <1>3 DEF ReplayAfter
  <2>2. Expired \in Frame /\ Expired.id = seq /\ Expired.kind = "resync"
    BY DEF Expired, Frame
  <2>3. QED
    BY <1>3, <2>1, <2>2
<1>4. CASE n \in Nat /\ n < seq /\ ~(first > n + 1)
  <2>1. ReplayAfter(n) = EventsAfter(n)
    BY <1>4 DEF ReplayAfter
  <2>2. \A i \in 1..(seq - n) : log[n + i] \in Kind
    BY <1>4
  <2>3. EventsAfter(n) \in Seq(Frame) /\ Len(EventsAfter(n)) = seq - n
    BY <1>4, <2>2 DEF EventsAfter, Frame
  <2>4. \A i \in 1..(seq - n) : /\ EventsAfter(n)[i].id = n + i
                                /\ EventsAfter(n)[i].kind # "resync"
    BY <1>4, <2>2 DEF EventsAfter, Kind
  <2>5. QED
    BY <1>4, <2>1, <2>3, <2>4
<1>5. QED
  BY <1>1, <1>2, <1>3, <1>4

\* An empty log and an empty wire are in their types, and stay so as frames are added.
LEMMA WireTypes ==
  /\ <<>> \in Seq(Frame) /\ <<>> \in Seq(Kind)
  /\ \A l \in Seq(Kind), k \in Kind : Append(l, k) \in Seq(Kind) /\ Len(l) \in Nat
  /\ \A w \in Seq(Frame), f \in Frame : Append(w, f) \in Seq(Frame)
OBVIOUS

\* The steps that put nothing new into the log or on the wire keep the types.
LEMMA StopTypes ==
  ASSUME TypeOK, StopDaemon
  PROVE  TypeOK'
<1>1. log' \in Seq(Kind) /\ pipe' \in Seq(Frame)
  BY WireTypes DEF StopDaemon
<1>2. epoch' \in Nat
  BY DEF TypeOK, StopDaemon
<1>6. up' \in BOOLEAN
  BY DEF StopDaemon
<1>7. first' \in Nat \ {0} /\ base' \in Nat /\ lost' \in Nat
  BY DEF StopDaemon
<1>8. opened' \in BOOLEAN
  BY DEF StopDaemon
<1>3. source' \in {"none", "connecting", "open", "closed"}
  BY DEF TypeOK, StopDaemon
<1>4. /\ cookie' \in Nat \cup {NoId} /\ last' \in Nat \cup {NoId} /\ lastEpoch' \in Nat
      /\ said' \in {"nothing", "event", "resync"}
  BY DEF TypeOK, StopDaemon
<1>5. QED
  BY <1>1, <1>2, <1>3, <1>4, <1>6, <1>7, <1>8 DEF TypeOK

\* A page that forgets its stream knows nothing of it.
LEMMA ForgetTypes ==
  ASSUME Forget
  PROVE  /\ last' \in Nat \cup {NoId} /\ lastEpoch' \in Nat /\ pipe' \in Seq(Frame)
         /\ said' \in {"nothing", "event", "resync"}
         /\ opened' \in BOOLEAN /\ base' \in Nat /\ lost' \in Nat
<1>1. opened' \in BOOLEAN
  BY DEF Forget
<1>2. QED
  BY <1>1, WireTypes DEF Forget

LEMMA OpenTypes == TypeOK /\ Open => TypeOK'
<1>1. CASE source \in {"connecting", "open"}
  BY <1>1 DEF TypeOK, Open, relayVars
<1>2. CASE source \notin {"connecting", "open"}
  BY <1>2, ForgetTypes DEF TypeOK, Open
<1>3. QED
  BY <1>1, <1>2

LEMMA CloseTypes == TypeOK /\ Close => TypeOK'
<1>1. ASSUME TypeOK, Close PROVE cookie' \in Nat \cup {NoId}
  BY <1>1 DEF TypeOK, Close
<1>2. QED
  BY <1>1, ForgetTypes DEF TypeOK, Close

LEMMA BreakTypes == TypeOK /\ Break => TypeOK'
BY WireTypes DEF TypeOK, Break

LEMMA ConnectTypes == TypeOK /\ RingInv /\ Connect => TypeOK'
<1>1. ASSUME TypeOK, RingInv, Connect PROVE pipe' \in Seq(Frame)
  <2>1. last \in Nat \cup {NoId} /\ pipe \in Seq(Frame)
    BY <1>1 DEF TypeOK
  <2>2. ReplayAfter(last) \in Seq(Frame)
    BY <1>1, <2>1, Replayed
  <2>3. QED
    BY <1>1, <2>1, <2>2 DEF Connect
<1>2. ASSUME TypeOK, Connect
      PROVE /\ opened' \in BOOLEAN /\ base' \in Nat /\ lost' \in Nat
            /\ source' \in {"none", "connecting", "open", "closed"}
  <2>1. /\ source' \in {"none", "connecting", "open", "closed"}
        /\ base' \in {base, Len(log)} /\ lost' \in {lost, Len(log)}
    BY <1>2 DEF Connect, seq
  <2>2. opened' \in BOOLEAN
    BY <1>2 DEF TypeOK, Connect
  <2>3. base \in Nat /\ lost \in Nat /\ Len(log) \in Nat
    BY <1>2 DEF TypeOK
  <2>4. QED
    BY <2>1, <2>2, <2>3
<1>3. QED
  BY <1>1, <1>2 DEF TypeOK, Connect

\* Every variable keeps its type.
LEMMA TypeInductive ==
  ASSUME TypeOK, RingInv, [Next]_relayVars
  PROVE  TypeOK'
<1>1. CASE UNCHANGED relayVars
  BY <1>1 DEF relayVars, TypeOK
<1>2. ASSUME NEW k \in Kind, Publish(k) PROVE TypeOK'
  <2>1. [kind |-> k, id |-> seq + 1] \in Frame
    BY DEF Frame, seq, TypeOK
  <2>2. log' \in Seq(Kind) /\ pipe' \in Seq(Frame)
    BY <1>2, <2>1, WireTypes DEF Publish, TypeOK
  <2>3. first' \in Nat \ {0}
    BY <1>2 DEF Publish, RingInv, seq, TypeOK
  <2>4. QED
    BY <1>2, <2>2, <2>3 DEF Publish, TypeOK
<1>4. CASE StartDaemon \/ Login \/ Expire
  BY <1>4 DEF StartDaemon, Login, Expire, TypeOK
<1>6. CASE Receive
  <2>1. Head(pipe) \in Frame /\ Tail(pipe) \in Seq(Frame)
    BY <1>6 DEF Receive, TypeOK
  <2>2. QED
    BY <1>6, <2>1 DEF Receive, Frame, TypeOK
<1>7. QED
  BY <1>1, <1>2, <1>4, <1>6, StopTypes, OpenTypes, CloseTypes, BreakTypes, ConnectTypes
     DEF Next

\* The ring holds a suffix of what was published, and only an open stream has a wire.
LEMMA RingInductive ==
  ASSUME TypeOK, RingInv, [Next]_relayVars
  PROVE  RingInv'
<1> USE RelayAssumption DEF TypeOK, RingInv, seq
<1>1. CASE UNCHANGED relayVars
  BY <1>1 DEF relayVars
<1>2. ASSUME NEW k \in Kind, Publish(k) PROVE RingInv'
  BY <1>2 DEF Publish
<1>3. CASE StopDaemon \/ StartDaemon \/ Login \/ Expire \/ Break
  BY <1>3 DEF StopDaemon, StartDaemon, Login, Expire, Break
<1>4. CASE Open \/ Close
  BY <1>4 DEF Open, Close, Forget, relayVars
<1>5. CASE Connect
  BY <1>5 DEF Connect
<1>6. CASE Receive
  BY <1>6 DEF Receive
<1>7. QED
  BY <1>1, <1>2, <1>3, <1>4, <1>5, <1>6 DEF Next

\* No step breaks the row of numbers on the wire, or parts it from the cursor.
LEMMA WireInductive ==
  ASSUME TypeOK, RingInv, Wire, Joined, [Next]_relayVars
  PROVE  Wire' /\ Joined'
<1> USE RelayAssumption DEF TypeOK, RingInv, Wire, Joined, Cursor, seq
<1>1. CASE UNCHANGED relayVars
  BY <1>1 DEF relayVars
<1>2. ASSUME NEW k \in Kind, Publish(k) PROVE Wire' /\ Joined'
  <2>1. k # "resync" /\ Len(log') = Len(log) + 1
    BY <1>2 DEF Publish, Kind
  <2>2. CASE source = "open"
    <3>1. pipe' = Append(pipe, [kind |-> k, id |-> seq + 1])
      BY <1>2, <2>2 DEF Publish
    <3>6. /\ Len(pipe') = Len(pipe) + 1
          /\ \A i \in 1..Len(pipe) : pipe'[i] = pipe[i]
          /\ pipe'[Len(pipe) + 1] = [kind |-> k, id |-> seq + 1]
          /\ Len(log') = seq + 1
      BY <2>1, <3>1
    <3>7. \A i \in 1..Len(pipe') : i \in 1..Len(pipe) \/ i = Len(pipe) + 1
      BY <3>6
    <3>2. Wire'
      <4>1. Len(pipe') <= seq'
        BY <3>6
      <4>2. ASSUME NEW i \in 1..Len(pipe) PROVE pipe'[i].id = seq' - Len(pipe') + i
        <5>1. pipe'[i] = pipe[i] /\ pipe[i].id = seq - Len(pipe) + i
          BY <3>6
        <5>2. Len(pipe) \in Nat /\ Len(log) \in Nat /\ i \in Nat
          OBVIOUS
        <5>3. QED
          BY <3>6, <5>1, <5>2
      <4>3. pipe'[Len(pipe) + 1].id = seq' - Len(pipe') + (Len(pipe) + 1)
        BY <3>6
      <4>4. ASSUME NEW i \in 2..Len(pipe') PROVE pipe'[i].kind # "resync"
        <5>1. i \in 1..Len(pipe') /\ Len(pipe) \in Nat
          OBVIOUS
        <5>2. CASE i = Len(pipe) + 1
          BY <2>1, <3>6, <5>2
        <5>3. CASE i \in 1..Len(pipe)
          <6>1. i \in 2..Len(pipe) /\ pipe'[i] = pipe[i]
            BY <3>6, <5>1, <5>3
          <6>2. QED
            BY <6>1
        <5>4. QED
          BY <3>7, <5>1, <5>2, <5>3
      <4>5. QED
        BY <3>7, <4>1, <4>2, <4>3, <4>4
    <3>3. /\ Len(pipe') = Len(pipe) + 1
          /\ pipe # <<>> => pipe'[1] = pipe[1]
          /\ pipe = <<>> => pipe'[1].kind = k
          /\ Cursor' = Cursor /\ last' = last
      BY <1>2, <3>1 DEF Publish
    <3>4. UNCHANGED <<source, epoch, last, lastEpoch>> /\ Len(log') = seq + 1
      BY <1>2, <2>1 DEF Publish
    <3>5. ASSUME Cursor # NoId
          PROVE  /\ last <= seq'
                 /\ IF pipe' # <<>> /\ pipe'[1].kind = "resync" THEN last <= pipe'[1].id
                    ELSE last + Len(pipe') = seq'
      <4>1. last \in Nat /\ last <= seq /\ seq \in Nat /\ Len(pipe) \in Nat /\ pipe' # <<>>
        BY <3>3, <3>5
      <4>2. CASE pipe = <<>>
        BY <2>1, <2>2, <3>3, <3>4, <3>5, <4>1, <4>2
      <4>3. CASE pipe # <<>>
        <5>1. IF pipe[1].kind = "resync" THEN last <= pipe[1].id ELSE last + Len(pipe) = seq
          BY <2>2, <3>5, <4>3
        <5>2. /\ pipe'[1] = pipe[1] /\ Len(pipe') = Len(pipe) + 1
              /\ seq' = seq + 1 /\ last \in Nat /\ seq \in Nat /\ Len(pipe) \in Nat
          BY <3>3, <3>4, <4>1, <4>3
        <5> HIDE DEF seq, TypeOK, RingInv, Wire, Joined, Cursor
        <5>3. CASE pipe[1].kind = "resync"
          BY <4>1, <5>1, <5>2, <5>3
        <5>4. CASE pipe[1].kind # "resync"
          BY <4>1, <5>1, <5>2, <5>4
        <5>5. QED
          BY <5>3, <5>4
      <4>4. QED
        BY <4>2, <4>3
    <3>8. Joined'
      BY <3>3, <3>4, <3>5
    <3>9. QED
      BY <3>2, <3>8
  <2>3. CASE source # "open"
    BY <1>2, <2>1, <2>3 DEF Publish
  <2>4. QED
    BY <2>2, <2>3
<1>3. CASE StopDaemon \/ Break
  BY <1>3 DEF StopDaemon, Break
<1>4. CASE StartDaemon \/ Login \/ Expire
  BY <1>4 DEF StartDaemon, Login, Expire
<1>8. CASE Close
  BY <1>8 DEF Close, Forget
<1>9. CASE Open /\ source \in {"connecting", "open"}
  BY <1>9 DEF Open, relayVars
<1>10. CASE Open /\ source \notin {"connecting", "open"}
  BY <1>10 DEF Open, Forget
<1>5. CASE Connect
  <2>1. CASE Authorised
    BY <1>5, <2>1, Replayed DEF Connect
  <2>2. CASE ~Authorised
    BY <1>5, <2>2 DEF Connect
  <2>3. QED
    BY <2>1, <2>2
<1>6. CASE Receive
  <2>1. /\ pipe \in Seq(Frame) /\ pipe # <<>> /\ pipe' = Tail(pipe) /\ Len(pipe) >= 1
        /\ last' = pipe[1].id /\ log' = log /\ source' = "open"
    BY <1>6 DEF Receive
  <2>2. /\ Len(pipe') = Len(pipe) - 1
        /\ \A i \in 1..Len(pipe') : pipe'[i] = pipe[i + 1]
    BY <2>1
  <2>3. Wire'
    BY <2>1, <2>2
  <2>4. Joined'
    BY <2>1, <2>2
  <2>5. QED
    BY <2>3, <2>4
<1>7. QED
  BY <1>1, <1>2, <1>3, <1>4, <1>5, <1>6, <1>8, <1>9, <1>10 DEF Next

\* A page that has no stream, and a daemon that has published nothing.
LEMMA InitHolds ==
  ASSUME Init
  PROVE  IInv
<1>1. up \in BOOLEAN /\ opened \in BOOLEAN
  BY DEF Init
<1>2. TypeOK
  BY <1>1, WireTypes DEF Init, TypeOK
<1>3. RingInv /\ Wire /\ Joined
  BY RelayAssumption DEF Init, RingInv, Wire, Joined, Cursor, seq
<1>4. QED
  BY <1>2, <1>3 DEF IInv

\* The layers together are an invariant of the relay.
THEOREM Invariance == Spec => []IInv
<1>1. Init => IInv
  BY InitHolds
<1>2. IInv /\ [Next]_relayVars => IInv'
  BY TypeInductive, RingInductive, WireInductive DEF IInv
<1>3. QED
  BY <1>1, <1>2, PTL DEF Spec

\* Types hold in every reachable state.
THEOREM TypeCorrect == Spec => []TypeOK
<1>1. IInv => TypeOK
  BY DEF IInv
<1>2. QED
  BY <1>1, Invariance, PTL

\* A stream that has nothing on its way and has a cursor has delivered everything.
THEOREM NothingIsMissed == Spec => []NothingMissed
<1>1. IInv => NothingMissed
  BY RelayAssumption DEF IInv, TypeOK, Joined, NothingMissed, Cursor, seq
<1>2. QED
  BY <1>1, Invariance, PTL
-----------------------------------------------------------------------------
(* The relay implements the stream it promises.                            *)

\* A frame received is the first of the stream, the next, or a resync onwards.
LEMMA ReceiveStep ==
  ASSUME IInv, Receive
  PROVE  Stream!Begin \/ Stream!Follow \/ Stream!Resync
<1> USE RelayAssumption
<1>1. /\ pipe \in Seq(Frame) /\ pipe # <<>> /\ log \in Seq(Kind)
      /\ last \in Nat \cup {NoId} /\ source = "open"
      /\ Len(pipe) \in 1..seq /\ seq \in Nat
  BY DEF IInv, TypeOK, Wire, Receive, seq
<1>2. Head(pipe) = pipe[1] /\ pipe[1] \in Frame /\ pipe[1].id = seq - Len(pipe) + 1
  BY <1>1 DEF IInv, Wire
<1>3. pipe[1].id \in 1..seq
  BY <1>1, <1>2
<1>4. seq' = seq /\ Cursor' = pipe[1].id
  BY <1>2 DEF Receive, Cursor, seq
<1>5. said' = IF pipe[1].kind = "resync" THEN "resync" ELSE "event"
  BY <1>2 DEF Receive
<1>6. CASE Cursor = NoId
  BY <1>3, <1>4, <1>5, <1>6 DEF Stream!Begin
<1>7. CASE Cursor # NoId
  <2>1. Cursor = last /\ last \in Nat
    BY <1>1, <1>7 DEF Cursor
  <2>2. CASE pipe[1].kind = "resync"
    <3>1. last <= pipe[1].id
      BY <1>1, <1>7, <2>2 DEF IInv, Joined
    <3>2. pipe[1].id \in last..seq
      BY <1>3, <2>1, <3>1
    <3>3. QED
      BY <1>4, <1>5, <1>7, <2>1, <2>2, <3>2 DEF Stream!Resync
  <2>3. CASE pipe[1].kind # "resync"
    <3>1. last + Len(pipe) = seq
      BY <1>1, <1>7, <2>3 DEF IInv, Joined
    <3>2. pipe[1].id = last + 1
      BY <1>1, <1>2, <2>1, <3>1
    <3>3. QED
      BY <1>3, <1>4, <1>5, <1>7, <2>1, <2>3, <3>2 DEF Stream!Follow
  <2>4. QED
    BY <2>2, <2>3
<1>8. QED
  BY <1>6, <1>7

\* Every step of the relay and the page is a step of the stream or stutters in it.
LEMMA StreamStep ==
  ASSUME IInv, [Next]_relayVars
  PROVE  [Stream!Next]_(Stream!vars)
<1>1. CASE UNCHANGED relayVars
  BY <1>1 DEF relayVars, Stream!vars, seq, Cursor
<1>2. ASSUME NEW k \in Kind, Publish(k) PROVE Stream!Publish
  <2>1. Len(log') = Len(log) + 1
    BY <1>2 DEF Publish, IInv, TypeOK
  <2>2. QED
    BY <1>2, <2>1 DEF Publish, Stream!Publish, seq, Cursor
<1>3. ASSUME StopDaemon PROVE Stream!Restart
  <2>1. lastEpoch # epoch + 1
    BY DEF IInv, TypeOK, RingInv
  <2>2. QED
    BY <1>3, <2>1 DEF StopDaemon, Stream!Restart, seq, Cursor
<1>4. CASE StartDaemon \/ Login \/ Expire
  BY <1>4 DEF StartDaemon, Login, Expire, Stream!vars, seq, Cursor
<1>5. CASE Connect
  BY <1>5 DEF Connect, Stream!vars, seq, Cursor
<1>6. CASE Break
  BY <1>6 DEF Break, Stream!vars, seq, Cursor
<1>7. CASE Open /\ source \in {"connecting", "open"}
  BY <1>7 DEF Open, relayVars, Stream!vars, seq, Cursor
<1>8. ASSUME (Open /\ source \notin {"connecting", "open"}) \/ Close PROVE Stream!Leave
  BY <1>8 DEF Open, Close, Forget, Stream!Leave, seq, Cursor
<1>9. CASE Receive
  BY <1>9, ReceiveStep DEF Stream!Next
<1>10. QED
  BY <1>1, <1>2, <1>3, <1>4, <1>5, <1>6, <1>7, <1>8, <1>9 DEF Next, Stream!Next

\* The relay implements EventStream: whatever breaks, whoever expires and however far
\* the ring has moved on, a page is given every event in order or told to resync.
THEOREM StreamIsKept == Spec => StreamKept
<1>1. Init => Stream!Init
  BY DEF Init, Stream!Init, seq, Cursor
<1>2. IInv /\ [Next]_relayVars => [Stream!Next]_(Stream!vars)
  BY StreamStep
<1>3. QED
  BY <1>1, <1>2, Invariance, PTL DEF Spec, StreamKept, Stream!Spec

-----------------------------------------------------------------------------
(* The page's invariant.                                                   *)

\* What is on the wire is what was published, and a stream that has not told the page
\* anything of this daemon yet still carries all that was published since it was opened, first or last.
Carried ==
  /\ \A i \in 1..Len(pipe) : pipe[i].kind # "resync" => pipe[i].kind = log[pipe[i].id]
  /\ source = "open" /\ Cursor = NoId => seq - base <= Len(pipe) \/ seq - lost <= Len(pipe)

Busy(i) == request[i].state # "free"

\* One request at a time, and one asked for meanwhile.
Requests ==
  /\ \A i, j \in Slot : Busy(i) /\ Busy(j) => i = j
  /\ inflight <=> \E i \in Slot : Busy(i)
  /\ queued => inflight

\* Of two statuses, b is not from before a.
NotOlder(a, b) == b.epoch > a.epoch \/ (b.epoch = a.epoch /\ b.asof >= a.asof)
Now == [epoch |-> epoch, asof |-> seq]

\* An answer on its way is not older than what is shown, and neither is from the future.
Answers ==
  /\ NotOlder(status, Now)
  /\ \A i \in Slot : request[i].state = "ok" =>
       NotOlder(status, request[i].answer) /\ NotOlder(request[i].answer, Now)

\* The page has been told of the i-th event of this daemon.
Told(i) == Cursor # NoId /\ Cursor >= i
Sees(a, i) == a.epoch = epoch /\ a.asof >= i
SignedOff == status = NoStatus /\ unauthorized

\* Somebody will bring the i-th event to the screen, or it is there, or the page has
\* something else to say.
Covered(i) ==
  \/ ~Told(i)
  \/ timer \/ queued
  \/ \E s \in Slot : request[s].state = "sent"
  \/ \E s \in Slot : request[s].state = "ok" /\ Sees(request[s].answer, i)
  \/ \E s \in Slot : request[s].state \in {"error", "401"}
  \/ (\A s \in Slot : request[s].state # "ok") /\ (error \/ SignedOff)
  \/ Sees(status, i)

Owed(i) == i \in 1..seq /\ Due(i)
NothingForgotten == mounted => \A i \in 1..seq : Owed(i) => Covered(i)

PageInv == PageTypeOK /\ IInv /\ Carried /\ Requests /\ Answers /\ NothingForgotten

-----------------------------------------------------------------------------
(* The relay under the page.                                               *)

\* A step of the page is a step of the relay, or the relay does not move.
LEMMA RelayStep ==
  ASSUME [PageNext]_allVars
  PROVE  [Next]_relayVars
<1>1. CASE UNCHANGED allVars
  BY <1>1 DEF allVars
<1>2. CASE PageStep
  BY <1>2 DEF PageStep, Mount, Unmount, Deliver, TimerFires, Serve, Unreachable, Settle, Next
<1>3. CASE DaemonStep
  BY <1>3 DEF DaemonStep, Next
<1>4. CASE Bootstrap \/ SignIn \/ PressRefresh \/ SignOut
  BY <1>4 DEF Bootstrap, SignIn, PressRefresh, SignOut, Next
<1>5. QED
  BY <1>1, <1>2, <1>3, <1>4 DEF PageNext

\* What a replay carries is what was published.
LEMMA ReplayCarries ==
  ASSUME TypeOK, RingInv, NEW n \in Nat \cup {NoId}
  PROVE  \A i \in 1..Len(ReplayAfter(n)) :
           ReplayAfter(n)[i].kind # "resync" => ReplayAfter(n)[i].kind = log[ReplayAfter(n)[i].id]
<1> USE RelayAssumption DEF TypeOK, RingInv, seq
<1>1. CASE n = NoId \/ (n \in Nat /\ n >= seq)
  <2>1. ReplayAfter(n) = <<>>
    BY <1>1 DEF ReplayAfter
  <2>2. QED
    BY <2>1
<1>2. CASE n \in Nat /\ n < seq /\ first > n + 1
  <2>1. ReplayAfter(n) = <<Expired>>
    BY <1>2 DEF ReplayAfter
  <2>2. QED
    BY <2>1 DEF Expired
<1>3. CASE n \in Nat /\ n < seq /\ ~(first > n + 1)
  <2>1. ReplayAfter(n) = EventsAfter(n)
    BY <1>3 DEF ReplayAfter
  <2>2. QED
    BY <1>3, <2>1 DEF EventsAfter
<1>4. QED
  BY <1>1, <1>2, <1>3

\* An admitted request notes what the stream will not be told: what was there before it was
\* first opened, and when it has no cursor to resume from, what went by in the break.
LEMMA ConnectIs ==
  ASSUME Connect
  PROVE  /\ UNCHANGED <<log, epoch, last, lastEpoch>>
         /\ ~opened /\ Authorised => base' = Len(log) /\ lost' = lost
         /\ opened /\ Authorised => base' = base /\ lost' = IF Cursor = NoId THEN Len(log) ELSE lost
         /\ ~Authorised => UNCHANGED <<base, lost>>
<1>1. CASE Authorised /\ opened
  BY <1>1 DEF Connect, seq
<1>2. CASE Authorised /\ ~opened
  BY <1>2 DEF Connect, seq
<1>3. CASE ~Authorised
  BY <1>3 DEF Connect
<1>4. QED
  BY <1>1, <1>2, <1>3 DEF Connect

\* No step of the relay puts anything else on the wire, or less.
LEMMA CarriedInductive ==
  ASSUME IInv, Carried, [Next]_relayVars
  PROVE  Carried'
<1> USE RelayAssumption DEF Carried, Cursor, seq
<1>t. /\ log \in Seq(Kind) /\ pipe \in Seq(Frame) /\ last \in Nat \cup {NoId} /\ lastEpoch \in Nat
      /\ epoch \in Nat /\ base \in Nat /\ lost \in Nat /\ lastEpoch <= epoch
      /\ Len(pipe) \in Nat /\ Len(log) \in Nat /\ Len(pipe) <= Len(log)
      /\ \A i \in 1..Len(pipe) : pipe[i].id \in 1..Len(log)
  BY DEF IInv, TypeOK, RingInv, Wire
<1>1. CASE UNCHANGED relayVars
  BY <1>1 DEF relayVars
<1>2. ASSUME NEW k \in Kind, Publish(k) PROVE Carried'
  <2>1. /\ Len(log') = Len(log) + 1 /\ log'[Len(log) + 1] = k
        /\ \A i \in 1..Len(log) : log'[i] = log[i]
    BY <1>t, <1>2 DEF Publish
  <2>2. CASE source = "open"
    <3>1. pipe' = Append(pipe, [kind |-> k, id |-> Len(log) + 1])
      BY <1>2, <2>2 DEF Publish
    <3>2. /\ Len(pipe') = Len(pipe) + 1 /\ pipe'[Len(pipe) + 1] = [kind |-> k, id |-> Len(log) + 1]
          /\ \A i \in 1..Len(pipe) : pipe'[i] = pipe[i]
      BY <1>t, <3>1
    <3>3. ASSUME NEW i \in 1..Len(pipe'), pipe'[i].kind # "resync"
          PROVE  pipe'[i].kind = log'[pipe'[i].id]
      <4>1. CASE i = Len(pipe) + 1
        BY <2>1, <3>2, <4>1
      <4>2. CASE i # Len(pipe) + 1
        BY <1>t, <2>1, <3>2, <3>3, <4>2
      <4>3. QED
        BY <4>1, <4>2
    <3>4. QED
      BY <1>t, <1>2, <2>1, <3>2, <3>3 DEF Publish
  <2>3. CASE source # "open"
    BY <1>t, <1>2, <2>1, <2>3 DEF Publish
  <2>4. QED
    BY <2>2, <2>3
<1>3. CASE StopDaemon \/ Break
  BY <1>3 DEF StopDaemon, Break
<1>4. CASE StartDaemon \/ Login \/ Expire
  BY <1>4 DEF StartDaemon, Login, Expire
<1>5. CASE Open \/ Close
  BY <1>5 DEF Open, Close, Forget, relayVars
<1>6. CASE Connect
  <2>1. CASE Authorised
    <3>1. /\ pipe' = ReplayAfter(last) /\ Len(ReplayAfter(last)) \in Nat
          /\ UNCHANGED <<log, epoch, last, lastEpoch>>
          /\ Cursor = NoId => base' = Len(log) \/ lost' = Len(log)
      <4>1. pipe' = ReplayAfter(last)
        BY <1>6, <2>1 DEF Connect
      <4>2. ReplayAfter(last) \in Seq(Frame)
        BY <1>t, Replayed DEF IInv
      <4>3. Cursor = NoId => base' = Len(log) \/ lost' = Len(log)
        BY <1>6, <2>1, ConnectIs
      <4>4. QED
        BY <1>6, <4>1, <4>2, <4>3, ConnectIs
    <3>2. \A i \in 1..Len(pipe') : pipe'[i].kind # "resync" => pipe'[i].kind = log'[pipe'[i].id]
      BY <3>1, <1>t, ReplayCarries DEF IInv
    <3>3. QED
      BY <1>t, <3>1, <3>2
  <2>2. CASE ~Authorised
    BY <1>6, <2>2 DEF Connect
  <2>3. QED
    BY <2>1, <2>2
<1>7. CASE Receive
  <2>1. /\ pipe # <<>> /\ pipe' = Tail(pipe) /\ last' = pipe[1].id /\ lastEpoch' = epoch
        /\ UNCHANGED <<log, epoch, base, lost>>
    BY <1>7, <1>t DEF Receive
  <2>2. /\ Len(pipe') = Len(pipe) - 1
        /\ \A i \in 1..Len(pipe') : pipe'[i] = pipe[i + 1] /\ i + 1 \in 1..Len(pipe)
    BY <1>t, <2>1
  <2>3. last' # NoId
    BY <1>t, <2>1
  <2>4. QED
    BY <2>1, <2>2, <2>3
<1>8. QED
  BY <1>1, <1>2, <1>3, <1>4, <1>5, <1>6, <1>7 DEF Next

-----------------------------------------------------------------------------
(* The requests.                                                           *)

\* A request that is sent has nothing of an earlier one.
LEMMA SendIs ==
  ASSUME PageTypeOK, NEW i \in Slot, NEW c \in Nat \cup {NoId}, Send(i, c)
  PROVE  /\ request' = [request EXCEPT ![i] = [state |-> "sent", cookie |-> c, answer |-> NoStatus]]
         /\ request' \in [Slot -> Request]
<1>1. NoStatus \in Shown
  BY DEF NoStatus, Shown
<1>2. QED
  BY <1>1 DEF Send, PageTypeOK, Request

\* What refresh() does: ask again after the answer on its way, or ask now.
LEMMA RefreshIs ==
  ASSUME PageTypeOK, Requests, NEW c \in Nat \cup {NoId}, Refresh(c)
  PROVE  \/ inflight /\ queued' /\ UNCHANGED <<inflight, request>>
         \/ /\ ~inflight /\ inflight' /\ UNCHANGED queued
            /\ \E i \in Slot :
                 request' = [request EXCEPT ![i] = [state |-> "sent", cookie |-> c, answer |-> NoStatus]]
            /\ request' \in [Slot -> Request]
            /\ \A i \in Slot : ~Busy(i)
BY SendIs DEF Refresh, Requests

\* An answer comes to the request that waits for it.
LEMMA AnswerIs ==
  ASSUME PageTypeOK, NEW i \in Slot, Serve(i) \/ Unreachable(i)
  PROVE  /\ request[i].state = "sent" /\ request'[i].state \in {"ok", "401", "error"}
         /\ request'[i].state = "ok" => request'[i].answer = Now
         /\ \A j \in Slot \ {i} : request'[j] = request[j]
         /\ request' \in [Slot -> Request]
         /\ UNCHANGED <<stage, status, error, unauthorized, inflight, queued, timer, mounted, since, signedOut>>
         /\ UNCHANGED relayVars
<1>1. seq \in Nat /\ epoch \in Nat /\ Now \in Shown /\ i \in DOMAIN request /\ request[i] \in Request
  BY DEF PageTypeOK, TypeOK, seq, Now, Shown
<1>2. request[i].state = "sent"
        /\ UNCHANGED <<stage, status, error, unauthorized, inflight, queued, timer, mounted, since, signedOut>>
        /\ UNCHANGED relayVars
  BY DEF Serve, Unreachable
<1>3. CASE request' = [request EXCEPT ![i].state = "ok", ![i].answer = Now]
  <2> DEFINE r == [request EXCEPT ![i].state = "ok"]
  <2>1. r \in [Slot -> Request] /\ r[i].state = "ok" /\ \A j \in Slot \ {i} : r[j] = request[j]
    BY <1>1 DEF PageTypeOK, Request
  <2>2. request' = [r EXCEPT ![i].answer = Now]
    BY <1>3
  <2> HIDE DEF r
  <2>3. QED
    BY <1>1, <1>2, <2>1, <2>2 DEF Request
<1>4. CASE \E st \in {"401", "error"} : request' = [request EXCEPT ![i].state = st]
  BY <1>1, <1>2, <1>4 DEF PageTypeOK, Request
<1>5. QED
  BY <1>3, <1>4 DEF Serve, Unreachable, Now

\* What a settled request leaves: its outcome in the store, and the next request or none.
LEMMA SettleIs ==
  ASSUME PageTypeOK, Requests, NEW i \in Slot, Settle(i)
  PROVE  /\ request[i].state \in {"ok", "401", "error"} /\ Store(request[i].state, request[i].answer)
         /\ \A j \in Slot \ {i} : ~Busy(j) /\ request'[j] = request[j]
         /\ IF queued THEN request'[i].state = "sent" /\ inflight' = inflight
            ELSE request'[i].state = "free" /\ inflight' = FALSE
         /\ request' \in [Slot -> Request]
         /\ queued' = FALSE /\ stage' = "booted"
         /\ UNCHANGED <<timer, mounted, since, signedOut>> /\ UNCHANGED relayVars
<1>1. Free \in Request /\ Free.state = "free"
  BY DEF Free, Request, NoStatus, Shown
<1>2. cookie \in Nat \cup {NoId}
  BY DEF PageTypeOK, TypeOK
<1>3. CASE queued
  BY <1>2, <1>3, SendIs DEF Settle, Requests, Busy, PageTypeOK, Request
<1>4. CASE ~queued
  BY <1>1, <1>4 DEF Settle, Requests, Busy, PageTypeOK, Request
<1>5. QED
  BY <1>3, <1>4

LEMMA PageTypeInductive ==
  ASSUME PageTypeOK, IInv, Requests, [PageNext]_allVars
  PROVE  PageTypeOK'
<1>t. TypeOK' /\ cookie \in Nat \cup {NoId} /\ cookie' \in Nat \cup {NoId} /\ Len(log) \in Nat
  BY RelayStep, TypeInductive DEF IInv, TypeOK
<1>1. CASE UNCHANGED allVars
  BY <1>1, <1>t DEF allVars, pageVars, PageTypeOK
<1>2. CASE Mount \/ Unmount \/ SignOut
  <2>1. CASE Mount
    BY <1>t, <2>1 DEF Mount, PageTypeOK, seq
  <2>2. CASE Unmount
    BY <1>t, <2>2 DEF Unmount, PageTypeOK
  <2>3. CASE SignOut
    BY <1>t, <2>3 DEF SignOut, PageTypeOK, Shown, NoStatus
  <2>4. QED
    BY <1>2, <2>1, <2>2, <2>3
<1>9. CASE Deliver
  <2>1. timer' \in BOOLEAN
    BY <1>9 DEF Deliver
  <2>2. QED
    BY <1>9, <1>t, <2>1 DEF Deliver, PageTypeOK
<1>3. CASE DaemonStep
  BY <1>3, <1>t DEF DaemonStep, PageTypeOK
<1>4. ASSUME NEW c \in Nat \cup {NoId}, Refresh(c)
      PROVE  inflight' \in BOOLEAN /\ queued' \in BOOLEAN /\ request' \in [Slot -> Request]
  BY <1>4, RefreshIs DEF PageTypeOK
<1>5. CASE TimerFires \/ PressRefresh \/ Bootstrap \/ SignIn
  BY <1>4, <1>5, <1>t DEF TimerFires, PressRefresh, Bootstrap, SignIn, PageTypeOK
<1>6. ASSUME NEW i \in Slot, Serve(i) \/ Unreachable(i) PROVE PageTypeOK'
  BY <1>6, <1>t, AnswerIs DEF PageTypeOK
<1>7. ASSUME NEW i \in Slot, Settle(i) PROVE PageTypeOK'
  <2>1. request[i].answer \in Shown /\ NoStatus \in Shown
    BY DEF PageTypeOK, Request, NoStatus, Shown
  <2>2. status' \in Shown /\ error' \in BOOLEAN /\ unauthorized' \in BOOLEAN
    BY <1>7, <2>1 DEF Settle, Store, PageTypeOK
  <2>3. inflight' \in BOOLEAN
    BY <1>7, SettleIs DEF PageTypeOK
  <2>4. QED
    BY <1>7, <1>t, <2>2, <2>3, SettleIs DEF PageTypeOK
<1>8. QED
  BY <1>1, <1>2, <1>3, <1>5, <1>6, <1>7, <1>9 DEF PageNext, PageStep

LEMMA RequestsInductive ==
  ASSUME PageTypeOK, IInv, Requests, [PageNext]_allVars
  PROVE  Requests'
<1>t. cookie \in Nat \cup {NoId} /\ cookie' \in Nat \cup {NoId}
  BY RelayStep, TypeInductive DEF IInv, TypeOK
<1>1. CASE UNCHANGED <<inflight, queued, request>>
  BY <1>1 DEF Requests, Busy
<1>2. CASE SignOut
  BY <1>2 DEF SignOut, Requests, Busy
<1>3. ASSUME NEW c \in Nat \cup {NoId}, Refresh(c) PROVE Requests'
  BY <1>3, RefreshIs DEF Requests, Busy, PageTypeOK
<1>4. ASSUME NEW i \in Slot, Serve(i) \/ Unreachable(i) PROVE Requests'
  BY <1>4, AnswerIs DEF Requests, Busy
<1>5. ASSUME NEW i \in Slot, Settle(i) PROVE Requests'
  <2>1. \A j \in Slot \ {i} : ~Busy(j) /\ request'[j] = request[j]
    BY <1>5, SettleIs
  <2>2. Busy(i) /\ inflight
    BY <1>5, SettleIs DEF Busy, Requests
  <2>3. CASE queued
    <3>1. request'[i].state = "sent" /\ inflight' = inflight /\ queued' = FALSE
      BY <1>5, <2>3, SettleIs
    <3>2. QED
      BY <2>1, <2>2, <3>1 DEF Requests, Busy
  <2>4. CASE ~queued
    <3>1. request'[i].state = "free" /\ inflight' = FALSE /\ queued' = FALSE
      BY <1>5, <2>4, SettleIs
    <3>2. QED
      BY <2>1, <3>1 DEF Requests, Busy
  <2>5. QED
    BY <2>3, <2>4
<1>6. QED
  BY <1>t, <1>1, <1>2, <1>3, <1>4, <1>5
     DEF PageNext, PageStep, DaemonStep, allVars, pageVars, Mount, Unmount, Deliver, TimerFires,
         PressRefresh, Bootstrap, SignIn

-----------------------------------------------------------------------------
(* The screen never goes back.                                             *)

\* Daemons follow one another, and each publishes more and more.
LEMMA TimeGoesOn ==
  ASSUME TypeOK, [Next]_relayVars
  PROVE  NotOlder(Now, Now')
<1> USE DEF TypeOK, NotOlder, Now, seq
<1>1. CASE StopDaemon
  BY <1>1 DEF StopDaemon
<1>2. ASSUME NEW k \in Kind, Publish(k) PROVE NotOlder(Now, Now')
  BY <1>2 DEF Publish
<1>3. CASE UNCHANGED <<epoch, log>>
  BY <1>3
<1>4. QED
  BY <1>1, <1>2, <1>3 DEF Next, relayVars, StartDaemon, Login, Expire, Open, Close, Connect, Break, Receive

\* What is not older stays so.
LEMMA OlderStill ==
  ASSUME NEW a \in Shown, NEW b \in Shown, NEW c \in Shown, NotOlder(a, b), NotOlder(b, c)
  PROVE  NotOlder(a, c)
BY DEF Shown, NotOlder

\* An answer on its way is not older than the screen, and no step makes it so: there is
\* one request at a time.
LEMMA AnswersInductive ==
  ASSUME PageTypeOK, IInv, Requests, Answers, [PageNext]_allVars
  PROVE  Answers'
<1>t. /\ Now \in Shown /\ Now' \in Shown /\ status \in Shown /\ NoStatus \in Shown
      /\ \A i \in Slot : request[i].answer \in Shown
      /\ NotOlder(Now, Now')
  <2>1. TypeOK'
    BY RelayStep, TypeInductive DEF IInv
  <2>2. QED
    BY <2>1, RelayStep, TimeGoesOn DEF IInv, TypeOK, PageTypeOK, Request, Shown, Now, NoStatus, seq
<1>1. \A a \in Shown : NotOlder(a, Now) => NotOlder(a, Now)'
  BY <1>t, OlderStill DEF NotOlder
<1>2. \A a \in Shown : NotOlder(NoStatus, a)
  BY DEF NotOlder, NoStatus, Shown
<1>3. CASE UNCHANGED <<status, request>>
  BY <1>3, <1>t, <1>1 DEF Answers, NotOlder
<1>4. CASE SignOut
  BY <1>4, <1>t, <1>1, <1>2 DEF SignOut, Answers, NotOlder
<1>5. ASSUME UNCHANGED status, NEW c \in Nat \cup {NoId}, Refresh(c) PROVE Answers'
  <2>1. \A i \in Slot : request'[i] = request[i] \/ request'[i].state = "sent"
    BY <1>5, RefreshIs DEF PageTypeOK
  <2>2. QED
    BY <1>5, <1>t, <1>1, <2>1 DEF Answers, NotOlder
<1>6. ASSUME NEW i \in Slot, Serve(i) \/ Unreachable(i) PROVE Answers'
  <2>1. /\ UNCHANGED <<status, epoch, log>> /\ (request'[i].state = "ok" => request'[i].answer = Now)
        /\ \A j \in Slot \ {i} : request'[j] = request[j]
    BY <1>6, AnswerIs DEF relayVars
  <2>2. NotOlder(Now, Now) /\ Now' = Now
    BY <1>t, <2>1 DEF NotOlder, Now, Shown, seq
  <2>3. QED
    BY <2>1, <2>2 DEF Answers, NotOlder
<1>7. ASSUME NEW i \in Slot, Settle(i) PROVE Answers'
  <2>1. \A j \in Slot : request'[j].state # "ok"
    BY <1>7, SettleIs DEF Busy
  <2>2. status' \in {status, NoStatus} \/ (request[i].state = "ok" /\ status' = request[i].answer)
    BY <1>7 DEF Settle, Store
  <2>3. NotOlder(status', Now)
    BY <1>t, <1>2, <2>2 DEF Answers
  <2>4. NotOlder(status', Now')
    BY <1>1, <1>t, <2>2, <2>3 DEF NotOlder
  <2>5. QED
    BY <2>1, <2>4 DEF Answers, NotOlder
<1>8. cookie \in Nat \cup {NoId} /\ cookie' \in Nat \cup {NoId}
  BY RelayStep, TypeInductive DEF IInv, TypeOK
<1>9. QED
  BY <1>3, <1>4, <1>5, <1>6, <1>7, <1>8
     DEF PageNext, PageStep, DaemonStep, allVars, pageVars, Mount, Unmount, Deliver, TimerFires,
         PressRefresh, Bootstrap, SignIn

-----------------------------------------------------------------------------
(* Nothing is forgotten.                                                   *)

\* A page is told of an event after it was published and since its stream was opened, and
\* only by a frame that is that event or a `resync`.
LEMMA ToldByFrames ==
  ASSUME IInv, Carried, [Next]_relayVars,
         NEW i \in 1..Len(log'), i > base', i > lost', log'[i] = "status", Told(i)'
  PROVE  /\ epoch' = epoch /\ i \in 1..Len(log) /\ log[i] = "status" /\ i > base /\ i > lost
         /\ Told(i) \/ (Receive /\ Head(pipe).kind # "other")
<1> USE RelayAssumption DEF Told, Cursor
<1>t. /\ log \in Seq(Kind) /\ pipe \in Seq(Frame) /\ last \in Nat \cup {NoId} /\ lastEpoch \in Nat
      /\ epoch \in Nat /\ base \in Nat /\ lost \in Nat /\ lastEpoch <= epoch
      /\ Len(pipe) \in Nat /\ Len(log) \in Nat /\ Len(pipe) <= Len(log)
      /\ \A j \in 1..Len(pipe) : pipe[j].id = Len(log) - Len(pipe) + j
  <2>1. TypeOK /\ RingInv /\ Wire
    BY DEF IInv
  <2>2. /\ log \in Seq(Kind) /\ pipe \in Seq(Frame) /\ last \in Nat \cup {NoId} /\ lastEpoch \in Nat
        /\ epoch \in Nat /\ base \in Nat /\ lost \in Nat
    BY <2>1 DEF TypeOK
  <2>3. lastEpoch <= epoch
    BY <2>1 DEF RingInv
  <2>4. Len(pipe) \in Nat /\ Len(log) \in Nat
    BY <2>2
  <2>5. Len(pipe) <= Len(log) /\ \A j \in 1..Len(pipe) : pipe[j].id = Len(log) - Len(pipe) + j
    BY <2>1 DEF Wire, seq
  <2>6. QED
    BY <2>2, <2>3, <2>4, <2>5
<1>c. Cursor # NoId => last \in Nat /\ last <= Len(log)
  BY <1>t DEF IInv, Joined, seq
<1>1. CASE UNCHANGED relayVars
  BY <1>1, <1>t, <1>c DEF relayVars
<1>2. ASSUME NEW k \in Kind, Publish(k)
      PROVE  /\ epoch' = epoch /\ i \in 1..Len(log) /\ log[i] = "status" /\ i > base /\ i > lost /\ Told(i)
  <2>1. Len(log') = Len(log) + 1 /\ \A j \in 1..Len(log) : log'[j] = log[j]
    BY <1>t, <1>c, <1>2 DEF Publish
  <2>2. UNCHANGED <<epoch, base, lost, last, lastEpoch>>
    BY <1>2 DEF Publish
  <2>3. Cursor # NoId /\ Cursor = last /\ last >= i
    BY <2>2
  <2>4. i <= Len(log) /\ i \in Nat
    BY <1>t, <1>c, <2>3
  <2>5. QED
    BY <1>t, <2>1, <2>2, <2>3, <2>4
<1>3. CASE StopDaemon
  BY <1>3, <1>t, <1>c DEF StopDaemon
<1>4. CASE StartDaemon \/ Login \/ Expire \/ Break
  BY <1>4, <1>t, <1>c DEF StartDaemon, Login, Expire, Break
<1>5. CASE Open \/ Close
  BY <1>5, <1>t, <1>c DEF Open, Close, Forget, relayVars
<1>6. CASE Connect
  <2>1. UNCHANGED <<log, epoch, last, lastEpoch>>
    BY <1>6, ConnectIs
  <2>2. Told(i) /\ Cursor # NoId /\ i \in 1..Len(log) /\ log[i] = "status"
    BY <2>1
  <2>3. ~opened /\ Authorised => i > Len(log)
    BY <1>6, ConnectIs
  <2>4. base' = base /\ lost' = lost
    BY <1>6, <1>t, <2>2, <2>3, ConnectIs
  <2>5. QED
    BY <2>1, <2>2, <2>4
<1>7. CASE Receive
  <2>1. /\ pipe # <<>> /\ source = "open" /\ last' = pipe[1].id /\ lastEpoch' = epoch /\ Head(pipe) = pipe[1]
        /\ UNCHANGED <<log, epoch, base, lost>>
    BY <1>7, <1>t, <1>c DEF Receive
  <2>2. Len(pipe) >= 1 /\ pipe[1].id = Len(log) - Len(pipe) + 1 /\ last' \in Nat /\ i <= last'
    BY <1>t, <1>c, <2>1
  <2>3. ASSUME ~Told(i), pipe[1].kind # "resync" PROVE i = pipe[1].id
    <3>1. CASE Cursor = NoId
      <4>1. Len(log) - base <= Len(pipe) \/ Len(log) - lost <= Len(pipe)
        BY <2>1, <3>1 DEF Carried, seq
      <4>2. i > base /\ i > lost /\ i <= pipe[1].id /\ i \in Nat
        BY <2>1, <2>2
      <4>3. base \in Nat /\ lost \in Nat /\ Len(log) \in Nat /\ Len(pipe) \in Nat
        BY <1>t
      <4>4. pipe[1].id = Len(log) - Len(pipe) + 1
        BY <2>2
      <4>5. QED
        BY <4>1, <4>2, <4>3, <4>4
    <3>2. CASE Cursor # NoId
      <4>1. last + Len(pipe) = Len(log) /\ i > last
        BY <1>t, <1>c, <2>1, <2>3, <3>2 DEF IInv, Joined, seq
      <4>2. QED
        BY <1>t, <1>c, <2>1, <2>2, <3>2, <4>1
    <3>3. QED
      BY <3>1, <3>2
  <2>4. pipe[1].kind # "resync" => pipe[1].kind = log[pipe[1].id]
    BY <1>t, <1>c, <2>2 DEF Carried
  <2>5. QED
    BY <1>7, <1>t, <1>c, <2>1, <2>3, <2>4
<1>8. QED
  BY <1>1, <1>2, <1>3, <1>4, <1>5, <1>6, <1>7 DEF Next

\* Whoever has an event brings it to the screen, hands it on, or says something else.
LEMMA CoveredInductive ==
  ASSUME PageTypeOK, IInv, Carried, Requests, Answers, NothingForgotten, [PageNext]_allVars,
         mounted', NEW i \in 1..Len(log'), Owed(i)', Told(i)'
  PROVE  Covered(i)'
<1>1. /\ [Next]_relayVars
      /\ epoch' = epoch /\ i \in 1..Len(log) /\ log[i] = "status" /\ i > base /\ i > lost
      /\ Told(i) \/ (Receive /\ Head(pipe).kind # "other")
  BY RelayStep, ToldByFrames DEF Owed, Due
<1>t. cookie \in Nat \cup {NoId} /\ cookie' \in Nat \cup {NoId} /\ seq = Len(log) /\ Len(log) \in Nat
  BY <1>1, TypeInductive DEF IInv, TypeOK, seq
<1>2. mounted /\ since' = since
  <2>1. CASE Mount
    <3>1. since' = Len(log)
      BY <2>1 DEF Mount, seq
    <3>2. QED
      BY <1>1, <1>t, <3>1 DEF Owed, Due
  <2>2. CASE ~Mount
    BY <1>1, <2>2 DEF PageNext, PageStep, DaemonStep, allVars, pageVars, Unmount, Deliver, TimerFires,
         Serve, Unreachable, Settle, PressRefresh, Bootstrap, SignIn, SignOut
  <2>3. QED
    BY <2>1, <2>2
<1>3. Owed(i) /\ Covered(i)
  BY <1>1, <1>2, <1>t DEF Owed, Due, NothingForgotten
<1>s. \A a : Sees(a, i) => Sees(a, i)'
  BY <1>1 DEF Sees
<1>4. CASE Told(i) /\ UNCHANGED <<status, error, unauthorized, request, queued>> /\ (timer => timer')
  BY <1>3, <1>4, <1>s DEF Covered, SignedOff, Sees
<1>5. CASE Deliver
  <2>1. UNCHANGED <<status, error, unauthorized, request, queued>> /\ (timer => timer')
    BY <1>5 DEF Deliver
  <2>2. Receive /\ (timer' \/ ~(mounted /\ Head(pipe).kind # "other"))
    BY <1>5 DEF Deliver
  <2>3. CASE Told(i)
    BY <1>4, <2>1, <2>3
  <2>4. CASE Head(pipe).kind # "other"
    BY <1>2, <2>2, <2>4 DEF Covered
  <2>5. QED
    BY <1>1, <2>3, <2>4
<1>6. ASSUME UNCHANGED <<status, error, unauthorized>>, Refresh(cookie') \/ Refresh(cookie) PROVE Covered(i)'
  BY <1>6, <1>t, RefreshIs DEF Covered, PageTypeOK
<1>7. CASE SignOut
  <2>1. last' = NoId
    BY <1>7 DEF SignOut, Close, Forget
  <2>2. QED
    BY <2>1 DEF Told, Cursor
<1>8. ASSUME NEW s \in Slot, Serve(s) \/ Unreachable(s) PROVE Covered(i)'
  <2>1. \/ request'[s].state \in {"error", "401"}
        \/ request'[s].state = "ok" /\ request'[s].answer = Now
    BY <1>8, AnswerIs
  <2>2. Sees(Now, i)
    BY <1>1, <1>t DEF Sees, Now
  <2>3. request'[s].state = "ok" => (Sees(request[s].answer, i))'
    BY <1>1, <2>1, <2>2 DEF Sees
  <2>4. QED
    BY <2>1, <2>3 DEF Covered
<1>9. ASSUME NEW s \in Slot, Settle(s) PROVE Covered(i)'
  <2>1. /\ request[s].state \in {"ok", "401", "error"} /\ Store(request[s].state, request[s].answer)
        /\ \A j \in Slot \ {s} : request[j].state = "free" /\ request'[j] = request[j]
        /\ UNCHANGED timer /\ UNCHANGED relayVars
    BY <1>9, SettleIs DEF Busy
  <2>2. CASE queued
    <3>1. request'[s].state = "sent"
      BY <1>9, <2>2, SettleIs
    <3>2. QED
      BY <3>1 DEF Covered
  <2>3. CASE ~queued
    <3>1. request'[s].state = "free"
      BY <1>9, <2>3, SettleIs
    <3>2. \A j \in Slot : request'[j].state # "ok"
      BY <2>1, <3>1
    <3>3. CASE request[s].state # "ok"
      <4>1. error' \/ (SignedOff)'
        BY <2>1, <3>3 DEF Store, SignedOff
      <4>2. QED
        BY <3>2, <4>1 DEF Covered
    <3>4. CASE request[s].state = "ok"
      <4>1. status' = request[s].answer
        BY <2>1, <3>4 DEF Store
      <4>2. timer \/ Sees(request[s].answer, i) \/ Sees(status, i)
        <5>1. Told(i)
          BY <1>9, <2>1 DEF relayVars, Told, Cursor
        <5>2. QED
          BY <1>3, <2>1, <2>3, <3>4, <5>1 DEF Covered
      <4>3. Sees(status, i) => Sees(request[s].answer, i)
        <5>1. NotOlder(status, request[s].answer) /\ NotOlder(request[s].answer, Now)
          BY <3>4 DEF Answers
        <5>2. status \in Shown /\ request[s].answer \in Shown /\ epoch \in Nat
          BY DEF PageTypeOK, Request, TypeOK
        <5>3. QED
          BY <5>1, <5>2 DEF Sees, NotOlder, Now, Shown
      <4>4. QED
        BY <1>s, <2>1, <4>1, <4>2, <4>3 DEF Covered
    <3>5. QED
      BY <3>3, <3>4
  <2>4. QED
    BY <2>2, <2>3
<1>10. CASE Mount \/ Unmount \/ DaemonStep \/ UNCHANGED allVars
  <2>1. UNCHANGED <<status, error, unauthorized, request, queued, timer>>
    BY <1>10 DEF Mount, Unmount, DaemonStep, allVars, pageVars
  <2>2. ~Receive
    <3>1. ASSUME Receive
          PROVE  /\ pipe' # pipe /\ source = "open"
                 /\ log' = log /\ source' = source /\ Len(log) \in Nat /\ Len(log) + 1 # Len(log)
      BY <3>1 DEF Receive, IInv, TypeOK
    <3>2. \A k \in Kind : Publish(k) => Len(log') = Len(log) + 1
      BY DEF Publish, IInv, TypeOK
    <3>3. StopDaemon => source' # source \/ source # "open"
      BY DEF StopDaemon
    <3>4. QED
      BY <1>10, <3>1, <3>2, <3>3 DEF Mount, Open, Unmount, DaemonStep, allVars, relayVars, StartDaemon,
         Expire, Connect, Break
  <2>3. QED
    BY <1>1, <1>4, <2>1, <2>2
<1>12. QED
  BY <1>1, <1>5, <1>6, <1>7, <1>8, <1>9, <1>10
     DEF PageNext, PageStep, TimerFires, PressRefresh, Bootstrap, SignIn

-----------------------------------------------------------------------------
(* The theorems.                                                           *)

\* The page's parts hold in every reachable state.
THEOREM PageInvariance == PageSpec => []PageInv
<1>1. ASSUME PageInit PROVE PageInv
  <2> USE <1>1 DEF PageInit, Init
  <2>1. PageTypeOK
    <3>1. TypeOK
      BY <1>1, InitHolds DEF PageInit, IInv
    <3>2. Free \in Request /\ NoStatus \in Shown
      BY DEF Free, NoStatus, Request, Shown
    <3>3. QED
      BY <3>1, <3>2 DEF PageTypeOK
  <2>2. IInv
    BY <1>1, InitHolds DEF PageInit
  <2>3. Carried
    BY DEF Carried
  <2>4. Requests
    BY DEF Requests, Busy, Free
  <2>5. Answers
    BY DEF Answers, NotOlder, Now, NoStatus, Free
  <2>6. NothingForgotten
    BY DEF NothingForgotten
  <2>7. QED
    BY <2>1, <2>2, <2>3, <2>4, <2>5, <2>6 DEF PageInv
<1>2. ASSUME PageInv, [PageNext]_allVars PROVE PageInv'
  <2>1. PageTypeOK' /\ Requests' /\ Answers'
    BY <1>2, PageTypeInductive, RequestsInductive, AnswersInductive DEF PageInv
  <2>2. IInv' /\ Carried'
    BY <1>2, RelayStep, TypeInductive, RingInductive, WireInductive, CarriedInductive DEF PageInv, IInv
  <2>3. NothingForgotten'
    <3>1. ASSUME mounted', NEW i \in 1..Len(log'), Owed(i)' PROVE Covered(i)'
      BY <1>2, <3>1, CoveredInductive DEF PageInv, Covered
    <3>2. QED
      BY <3>1 DEF NothingForgotten, seq
  <2>4. QED
    BY <2>1, <2>2, <2>3 DEF PageInv
<1>3. QED
  BY <1>1, <1>2, PTL DEF PageSpec

\* Every variable of the page and its stream keeps its type.
THEOREM PageTypeCorrect == PageSpec => []PageTypeOK
<1>1. PageInv => PageTypeOK
  BY DEF PageInv
<1>2. QED
  BY <1>1, PageInvariance, PTL

\* The screen never goes back to an older status or to an older daemon's, whatever order
\* answers, events, breaks, sign-outs and restarts come in.
THEOREM ScreenGoesOn == PageSpec => ShownNeverGoesBack
<1>1. ASSUME PageInv, [PageNext]_allVars, status' # NoStatus
      PROVE  status'.epoch > status.epoch \/ (status'.epoch = status.epoch /\ status'.asof >= status.asof)
  <2>1. status \in Shown
    BY <1>1 DEF PageInv, PageTypeOK
  <2>2. CASE status' = status
    BY <2>1, <2>2 DEF Shown
  <2>3. ASSUME NEW i \in Slot, Settle(i), status' # status
        PROVE  NotOlder(status, status')
    <3>1. request[i].state = "ok" /\ status' = request[i].answer
      BY <1>1, <2>3 DEF Settle, Store
    <3>2. QED
      BY <1>1, <3>1 DEF PageInv, Answers
  <2>4. QED
    BY <1>1, <2>2, <2>3 DEF PageNext, PageStep, DaemonStep, allVars, pageVars, Mount, Unmount, Deliver,
       TimerFires, Serve, Unreachable, PressRefresh, Bootstrap, SignIn, SignOut, NotOlder
<1>2. PageInv /\ [PageNext]_allVars
      => [(status # NoStatus /\ status' # NoStatus) =>
            \/ status'.epoch > status.epoch
            \/ status'.epoch = status.epoch /\ status'.asof >= status.asof]_allVars
  BY <1>1
<1>3. QED
  BY <1>2, PageInvariance, PTL DEF PageSpec, ShownNeverGoesBack

\* With nothing left to do, the page shows what the daemon is, or an error: every status event
\* since its handlers and its stream were there is on the screen, but for what went by in a
\* break before the first frame.
THEOREM NothingLeftBehind == PageSpec => []LiveStatusIsCurrent
<1>1. ASSUME PageInv, Live, Quiet, ~error, NEW i \in 1..seq, Due(i)
      PROVE  Reflects(i)
  <2>1. Owed(i) /\ Covered(i)
    BY <1>1 DEF PageInv, NothingForgotten, Owed, Live
  <2>2. Told(i)
    <3>1. log \in Seq(Kind) /\ pipe = <<>> /\ source = "open" /\ base \in Nat /\ lost \in Nat /\ Len(log) \in Nat
      BY <1>1 DEF PageInv, IInv, TypeOK, Quiet, Live
    <3>2. Cursor # NoId
      BY <1>1, <3>1 DEF PageInv, Carried, Due, seq
    <3>3. Cursor = Len(log)
      BY <1>1, <3>1, <3>2, RelayAssumption DEF PageInv, IInv, TypeOK, Joined, Cursor, seq
    <3>4. QED
      BY <3>1, <3>2, <3>3 DEF Told, seq
  <2>3. ~timer /\ ~queued /\ \A s \in Slot : request[s].state = "free"
    BY <1>1 DEF Quiet, PageInv, Requests, Busy
  <2>4. ~SignedOff
    BY <1>1 DEF Live, ShellShown, SignInShown, SignedOff, Splash
  <2>5. QED
    BY <1>1, <2>1, <2>2, <2>3, <2>4 DEF Covered, Sees, Reflects
<1>2. PageInv => LiveStatusIsCurrent
  BY <1>1 DEF LiveStatusIsCurrent
<1>3. QED
  BY <1>2, PageInvariance, PTL

\* The page uses its stream as the relay allows, so it is given every event in order or
\* told to resync.
THEOREM PageStreamIsKept == PageSpec => StreamKept
<1>1. PageInit => Init
  BY DEF PageInit
<1>2. [PageNext]_allVars => [Next]_relayVars
  BY RelayStep
<1>3. PageSpec => Spec
  BY <1>1, <1>2, PTL DEF PageSpec, Spec
<1>4. QED
  BY <1>3, StreamIsKept, PTL
=============================================================================
