------------------------------ MODULE EventStream ------------------------------
(***************************************************************************)
(* What the admin's event relay promises one reader while one daemon       *)
(* lives: every event, once and in the order of publication, or a `resync` *)
(* that says where the reader stands again.  A reader that starts afresh   *)
(* starts anywhere; nothing is ever passed over in silence after that.     *)
(***************************************************************************)
EXTENDS Naturals

CONSTANT NoId

VARIABLES published,  \* how many events this daemon has published
          position,   \* the number of the last one the reader knows of, or NoId
          said        \* what the reader was told last

vars == <<published, position, said>>

Init == published = 0 /\ position = NoId /\ said = "nothing"

Publish ==
  /\ published' = published + 1
  /\ UNCHANGED <<position, said>>

Begin ==
  /\ position = NoId
  /\ position' \in 1..published
  /\ said' \in {"event", "resync"}
  /\ UNCHANGED published

Follow ==
  /\ position # NoId
  /\ position + 1 \in 1..published
  /\ position' = position + 1
  /\ said' = "event"
  /\ UNCHANGED published

Resync ==
  /\ position # NoId
  /\ position' \in position..published
  /\ said' = "resync"
  /\ UNCHANGED published

\* The reader forgets where it was: a new stream.
Leave ==
  /\ position' = NoId
  /\ said' = "nothing"
  /\ UNCHANGED published

\* A new daemon numbers its events from one again.
Restart ==
  /\ published' = 0 /\ position' = NoId
  /\ UNCHANGED said

Next == Publish \/ Begin \/ Follow \/ Resync \/ Leave \/ Restart

Spec == Init /\ [][Next]_vars
=============================================================================
