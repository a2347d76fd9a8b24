--------------------------- MODULE HostStepsProofs ---------------------------
(***************************************************************************)
(* What the host-step journal never says falsely, for any number of steps, *)
(* of calls in flight, of crashes and of helper runs, races included.      *)
(* The argument follows an entry through the copies upsert makes of it:    *)
(* what is true of the journal file stays true of what is loaded, of the   *)
(* temporary file, and of the file again, because a request file, a run    *)
(* and a receipt are never taken back.                                     *)
(* Then, while no two upserts interleave: every repeated run of the helper *)
(* has a cause, by an account of the runs done and those still claimed.    *)
(***************************************************************************)
EXTENDS HostSteps, FiniteSetTheorems, TLAPS

\* Every entry of a journal has its request file, and `posted` its receipt.
JournalTrue(j) ==
  \A s \in Step : /\ j.state[s] # "none" => s \in requests
                  /\ j.state[s] = "posted" => Receipted(s)

CopiesTrue ==
  /\ JournalTrue(file)
  /\ tmp # None => JournalTrue(tmp)
  /\ \A t \in Task : JournalTrue(mem[t])

\* What a call may rely on at each of its awaits.
CallsTrue ==
  \A t \in Task :
    /\ pc[t] \notin {"load", "open", "write", "rename"} => put[t] = "none"
    /\ put[t] # "none" => step[t] \in requests
    /\ put[t] = "ran" => outcome[t] # "none"
    /\ put[t] = "posted" => Receipted(step[t])
    /\ pc[t] \in {"run", "post"} => step[t] \in requests
    /\ pc[t] = "post" => outcome[t] # "none"
    /\ outcome[t] = "result" => step[t] \in results
    /\ outcome[t] # "none" => pc[t] = "post" \/ put[t] = "ran"

\* A call past its first await, other than a poll between two entries, has a step.
StepsKnown == \A t \in Task : pc[t] \notin {"idle", "next"} => step[t] \in Step

\* Results come from runs.
ResultsTrue == \A s \in results : runs[s] >= 1

IInv == TypeOK /\ StepsKnown /\ CopiesTrue /\ CallsTrue /\ ResultsTrue /\ NoReceiptWithoutRun

-----------------------------------------------------------------------------
\* upsert replaces one entry of a journal and keeps the others.
LEMMA UpsertedEntry ==
  ASSUME NEW j \in Journal, NEW s \in Step, NEW st \in JState
  PROVE  /\ Upserted(j, s, st) \in Journal
         /\ \A r \in Step : Upserted(j, s, st).state[r] = IF r = s THEN st ELSE j.state[r]
BY DEF Upserted, Journal

\* What checkPendingResults walks over, and what is left of it, are journals.
LEMMA PendingJournal ==
  ASSUME NEW j \in Journal, NEW s
  PROVE  Pending(j) \in Journal /\ Rest(j, s) \in Journal
BY DEF Pending, PendingIn, Rest, Journal, JState

\* A missing or unreadable file is a journal without entries.
LEMMA EmptyJournalType == EmptyJournal \in Journal
BY DEF EmptyJournal, Journal, JState

\* Nor does what two calls have written over each other have any.
LEMMA TornType == Torn \in Journal /\ \A s \in Step : Torn.state[s] = "none"
BY DEF Torn, Journal, JState

\* What is found in a file after a write is the text written, or nothing.
LEMMA WrittenOverType ==
  ASSUME NEW old, NEW new, NEW j \in WrittenOver(old, new)
  PROVE  j = new \/ j = Torn
BY DEF WrittenOver

\* A finished call leaves its variables in their types.
LEMMA ReturnTypes ==
  ASSUME TypeOK, NEW t \in Task, Return(t)
  PROVE  /\ pc' \in [Task -> Point] /\ kind' \in [Task -> Kind]
         /\ step' \in [Task -> Step \cup {None}] /\ put' \in [Task -> JState]
         /\ mem' \in [Task -> Journal] /\ seen' \in [Task -> Journal]
         /\ outcome' \in [Task -> Outcome] /\ to' \in [Task -> Target]
BY EmptyJournalType DEF TypeOK, Return, Goto, Point, Kind, JState, Outcome

\* Every variable keeps its type, and a call past its first await knows its step.
LEMMA TypedInductive ==
  ASSUME TypeOK, StepsKnown, [Next]_vars
  PROVE  TypeOK' /\ StepsKnown'
<1> USE DEF TypeOK, StepsKnown, files, taskVars, histories
<1>1. CASE UNCHANGED vars
  BY <1>1 DEF vars
<1>2. ASSUME NEW s \in Step, Ask(s) \/ Cancel(s) PROVE TypeOK' /\ StepsKnown'
  BY <1>2 DEF Ask, Cancel, Need
<1>3. ASSUME NEW s \in Step, RunByHand(s) PROVE TypeOK' /\ StepsKnown'
  BY <1>3 DEF RunByHand, RunHelper
<1>4. ASSUME NEW t \in Task, NEW s \in Step, Handle(t, s) PROVE TypeOK' /\ StepsKnown'
  BY <1>4 DEF Handle, Goto, Point, Kind
<1>5. ASSUME NEW t \in Task, Poll(t) PROVE TypeOK' /\ StepsKnown'
  BY <1>5, PendingJournal DEF Poll, Goto, Point, Kind
<1>6. ASSUME NEW t \in Task, Lookup(t) PROVE TypeOK' /\ StepsKnown'
  <2>1. CASE Return(t)
    <3>1. overlaps' \in [Step -> Nat]
      BY <1>6, <2>1 DEF Lookup, GoOn
    <3>2. QED
      BY <1>6, <2>1, <3>1, ReturnTypes DEF Lookup, Return, Goto
  <2>2. CASE GoOn(t)
    <3>1. overlaps' \in [Step -> Nat]
      BY <1>6, <2>2 DEF Lookup, GoOn
    <3>2. QED
      BY <1>6, <2>2, <3>1 DEF Lookup, GoOn, Goto, Point
  <2>3. QED
    BY <1>6, <2>1, <2>2 DEF Lookup
<1>7. ASSUME NEW t \in Task, WriteRequest(t) PROVE TypeOK' /\ StepsKnown'
  BY <1>7 DEF WriteRequest, Upsert, Goto, Point, JState
<1>8. ASSUME NEW t \in Task, Load(t) \/ OpenTmp(t) PROVE TypeOK' /\ StepsKnown'
  BY <1>8, EmptyJournalType DEF Load, OpenTmp, Goto, Point, Target
<1>9. ASSUME NEW t \in Task, WriteTmp(t) PROVE TypeOK' /\ StepsKnown'
  <2>1. step[t] \in Step /\ mem[t] \in Journal /\ put[t] \in JState
    BY <1>9 DEF WriteTmp
  <2>2. Upserted(mem[t], step[t], put[t]) \in Journal
    BY <2>1, UpsertedEntry
  <2>3. file' \in Journal /\ tmp' \in Journal \cup {None}
    BY <1>9, <2>2, TornType, WrittenOverType DEF WriteTmp
  <2>4. pc' \in [Task -> Point] /\ to' \in [Task -> Target]
    BY <1>9 DEF WriteTmp, Goto, Point, Target
  <2>5. StepsKnown'
    BY <1>9 DEF WriteTmp, Goto
  <2>6. QED
    BY <1>9, <2>3, <2>4, <2>5 DEF WriteTmp
<1>10. ASSUME NEW t \in Task, Rename(t) PROVE TypeOK' /\ StepsKnown'
  <2>1. CASE Return(t) /\ UNCHANGED <<file, tmp>>
    BY <1>10, <2>1, ReturnTypes DEF Rename, Return, Goto
  <2>2. CASE tmp # None
    <3>1. to' \in [Task -> Target]
      BY <1>10, <2>2 DEF Rename, Renamed, Target
    <3>2. QED
      BY <1>10, <2>2, <3>1, EmptyJournalType DEF Rename, Goto, After, Point, JState, Kind, Outcome
  <2>3. QED
    BY <1>10, <2>1, <2>2 DEF Rename
<1>11. ASSUME NEW t \in Task, RunStep(t) PROVE TypeOK' /\ StepsKnown'
  <2>1. CASE Return(t) /\ UNCHANGED <<runs, results>>
    BY <1>11, <2>1, ReturnTypes DEF RunStep, Return, Goto
  <2>2. CASE Upsert(t, "ran") /\ (RunHelper(step[t]) \/ UNCHANGED <<runs, results>>)
             /\ outcome' = [outcome EXCEPT ![t] = IF step[t] \in results' THEN "result" ELSE "failed"]
    BY <1>11, <2>2 DEF RunStep, RunHelper, Upsert, Goto, Point, JState, Outcome
  <2>3. CASE Upsert(t, "pending-manual") /\ UNCHANGED <<runs, results, outcome>>
    BY <1>11, <2>3 DEF RunStep, Upsert, Goto, Point, JState
  <2>4. QED
    BY <1>11, <2>1, <2>2, <2>3 DEF RunStep
<1>12. ASSUME NEW t \in Task, Post(t) PROVE TypeOK' /\ StepsKnown'
  <2>1. CASE Return(t) /\ UNCHANGED <<need, receipt>>
    BY <1>12, <2>1, ReturnTypes DEF Post, Return, Goto
  <2>2. CASE Accept(step[t], outcome[t]) /\ Upsert(t, "posted") /\ outcome' = [outcome EXCEPT ![t] = "none"]
    BY <1>12, <2>2 DEF Post, Accept, Upsert, Goto, Need, Point, JState, Outcome
  <2>3. QED
    BY <1>12, <2>1, <2>2 DEF Post
<1>13. ASSUME NEW t \in Task, NextEntry(t) PROVE TypeOK' /\ StepsKnown'
  <2>1. CASE Return(t)
    BY <1>13, <2>1, ReturnTypes DEF NextEntry, Return, Goto
  <2>2. ASSUME NEW s \in Step, seen' = [seen EXCEPT ![t] = Rest(@, s)],
               pc[t] = "next", UNCHANGED <<need, receipt, files, strategy, kind, put, mem, to, histories>>
        PROVE  \/ /\ step' = [step EXCEPT ![t] = s] /\ outcome' = [outcome EXCEPT ![t] = "result"]
                  /\ Goto(t, "post")
               \/ step' = [step EXCEPT ![t] = None] /\ UNCHANGED <<pc, outcome>>
               => TypeOK' /\ StepsKnown'
    <3>1. seen' \in [Task -> Journal]
      BY <2>2, PendingJournal
    <3>2. QED
      BY <2>2, <3>1 DEF Goto, Point, Outcome
  <2>3. QED
    BY <1>13, <2>1, <2>2 DEF NextEntry
<1>14. CASE Crash
  BY <1>14, EmptyJournalType DEF Crash, Point, Kind, JState, Outcome, Target
<1>15. QED
  BY <1>1, <1>2, <1>3, <1>4, <1>5, <1>6, <1>7, <1>8, <1>9, <1>10, <1>11, <1>12, <1>13, <1>14
     DEF Next, TaskStep

-----------------------------------------------------------------------------
Facts == CopiesTrue /\ CallsTrue /\ ResultsTrue /\ NoReceiptWithoutRun

\* No step makes a journal, one of its copies, or a call in flight say a thing
\* that has not happened.
LEMMA FactsInductive ==
  ASSUME TypeOK, StepsKnown, Facts, [Next]_vars
  PROVE  Facts'
<1> USE DEF TypeOK, StepsKnown, Facts, CopiesTrue, CallsTrue, ResultsTrue,
            NoReceiptWithoutRun, JournalTrue, Receipted, files, taskVars, histories
<1>1. CASE UNCHANGED vars
  BY <1>1 DEF vars
<1>2. ASSUME NEW s \in Step, Ask(s) \/ Cancel(s) PROVE Facts'
  BY <1>2 DEF Ask, Cancel
<1>3. ASSUME NEW s \in Step, RunByHand(s) PROVE Facts'
  BY <1>3 DEF RunByHand, RunHelper
<1>4. ASSUME NEW t \in Task, NEW s \in Step, Handle(t, s) PROVE Facts'
  BY <1>4 DEF Handle, Goto
<1>5. ASSUME NEW t \in Task, Poll(t) PROVE Facts'
  BY <1>5 DEF Poll, Goto
<1>6. ASSUME NEW t \in Task, Lookup(t) PROVE Facts'
  <2>1. CASE Return(t)
    BY <1>6, <2>1 DEF Lookup, Goto, Return, EmptyJournal
  <2>2. CASE ~Return(t)
    BY <1>6, <2>2 DEF Lookup, GoOn, Goto
  <2>3. QED
    BY <2>1, <2>2
<1>7. ASSUME NEW t \in Task, WriteRequest(t) PROVE Facts'
  BY <1>7 DEF WriteRequest, Upsert, Goto
<1>8. ASSUME NEW t \in Task, Load(t) \/ OpenTmp(t) PROVE Facts'
  <2>1. CASE Load(t)
    <3>1. JournalTrue(mem'[t])
      BY <1>8, <2>1 DEF Load, EmptyJournal
    <3>2. QED
      BY <2>1, <3>1 DEF Load, Goto
  <2>2. CASE OpenTmp(t)
    BY <2>2 DEF OpenTmp, Goto, EmptyJournal
  <2>3. QED
    BY <1>8, <2>1, <2>2
<1>9. ASSUME NEW t \in Task, WriteTmp(t) PROVE Facts'
  <2>1. step[t] \in Step /\ mem[t] \in Journal /\ put[t] \in JState
    BY <1>9 DEF WriteTmp
  <2> DEFINE new == Upserted(mem[t], step[t], put[t])
  <2>2. JournalTrue(new)
    <3>1. \A r \in Step : new.state[r] = IF r = step[t] THEN put[t] ELSE mem[t].state[r]
      BY <2>1, UpsertedEntry
    <3>2. QED
      BY <3>1
  <2>3. JournalTrue(Torn)
    BY TornType
  <2>4. /\ file' = file \/ file' = new \/ file' = Torn
        /\ tmp' = tmp \/ tmp' = new \/ tmp' = Torn
    BY <1>9, WrittenOverType DEF WriteTmp
  <2>5. UNCHANGED <<requests, receipt, results, runs, put, step, outcome, mem>>
    BY <1>9 DEF WriteTmp
  <2> HIDE DEF new
  <2>6. CopiesTrue'
    BY <2>2, <2>3, <2>4, <2>5
  <2>7. QED
    BY <1>9, <2>5, <2>6 DEF WriteTmp, Goto
<1>10. ASSUME NEW t \in Task, Rename(t) PROVE Facts'
  <2>1. CASE Return(t) /\ UNCHANGED <<file, tmp>>
    BY <1>10, <2>1 DEF Rename, Goto, Return, EmptyJournal
  <2>2. CASE tmp # None
    BY <1>10, <2>2 DEF Rename, Goto, After, EmptyJournal
  <2>3. QED
    BY <1>10, <2>1, <2>2 DEF Rename
<1>11. ASSUME NEW t \in Task, RunStep(t) PROVE Facts'
  <2>1. CASE Return(t) /\ UNCHANGED <<runs, results>>
    BY <1>11, <2>1 DEF RunStep, Goto, Return, EmptyJournal
  <2>2. CASE Upsert(t, "ran") /\ (RunHelper(step[t]) \/ UNCHANGED <<runs, results>>)
             /\ outcome' = [outcome EXCEPT ![t] = IF step[t] \in results' THEN "result" ELSE "failed"]
    <3>1. pc[t] = "run" /\ step[t] \in Step /\ step[t] \in requests
      BY <1>11 DEF RunStep
    <3>2. /\ results \subseteq results' /\ \A s \in results' : runs'[s] >= 1
          /\ \A s \in Step : runs'[s] >= 1 => s \in requests
      BY <2>2, <3>1 DEF RunHelper
    <3>3. \A s \in results : s \in results' /\ runs'[s] >= 1
      BY <3>2
    <3>4. UNCHANGED <<need, receipt, requests, file, tmp, mem, seen, step>>
      BY <1>11, <2>2 DEF RunStep, Upsert
    <3>5. CallsTrue'
      BY <2>2, <3>1, <3>3, <3>4 DEF Upsert, Goto
    <3>6. QED
      BY <3>2, <3>3, <3>4, <3>5
  <2>3. CASE Upsert(t, "pending-manual") /\ UNCHANGED <<runs, results, outcome>>
    BY <1>11, <2>3 DEF RunStep, Upsert, Goto
  <2>4. QED
    BY <1>11, <2>1, <2>2, <2>3 DEF RunStep
<1>12. ASSUME NEW t \in Task, Post(t) PROVE Facts'
  <2>1. CASE Return(t) /\ UNCHANGED <<need, receipt>>
    BY <1>12, <2>1 DEF Post, Goto, Return, EmptyJournal
  <2>2. CASE Accept(step[t], outcome[t]) /\ Upsert(t, "posted") /\ outcome' = [outcome EXCEPT ![t] = "none"]
    BY <1>12, <2>2 DEF Post, Accept, Upsert, Goto
  <2>3. QED
    BY <1>12, <2>1, <2>2 DEF Post
<1>13. ASSUME NEW t \in Task, NextEntry(t) PROVE Facts'
  <2>1. CASE Return(t)
    BY <1>13, <2>1 DEF NextEntry, Goto, Return, EmptyJournal
  <2>2. CASE ~Return(t)
    BY <1>13, <2>2 DEF NextEntry, Goto
  <2>3. QED
    BY <2>1, <2>2
<1>14. CASE Crash
  BY <1>14 DEF Crash, EmptyJournal
<1>15. QED
  BY <1>1, <1>2, <1>3, <1>4, <1>5, <1>6, <1>7, <1>8, <1>9, <1>10, <1>11, <1>12, <1>13, <1>14
     DEF Next, TaskStep

\* The three layers together are an invariant of the executor.
THEOREM Invariance == Spec => []IInv
<1>1. ASSUME Init PROVE IInv
  <2>1. TypeOK /\ StepsKnown
    BY <1>1, EmptyJournalType DEF Init, TypeOK, StepsKnown, Need, Point, Kind, JState, Outcome, Target
  <2>2. CopiesTrue
    BY <1>1 DEF Init, CopiesTrue, JournalTrue, EmptyJournal, Receipted
  <2>3. CallsTrue /\ ResultsTrue /\ NoReceiptWithoutRun
    BY <1>1 DEF Init, CallsTrue, ResultsTrue, NoReceiptWithoutRun, Receipted
  <2>4. QED
    BY <2>1, <2>2, <2>3 DEF IInv
<1>2. IInv /\ [Next]_vars => IInv'
  BY TypedInductive, FactsInductive DEF IInv, Facts
<1>3. QED
  BY <1>1, <1>2, PTL DEF Spec

\* Every variable of the executor keeps its type.
THEOREM TypeCorrect == Spec => []TypeOK
<1>1. IInv => TypeOK
  BY DEF IInv
<1>2. QED
  BY <1>1, Invariance, PTL

\* The core never gets a receipt that reports a result no helper has left, and no helper
\* runs without its request file, however the calls interleave or the daemon dies.
THEOREM ReceiptsComeFromRuns == Spec => []NoReceiptWithoutRun
<1>1. IInv => NoReceiptWithoutRun
  BY DEF IInv
<1>2. QED
  BY <1>1, Invariance, PTL

\* An entry the journal calls `posted` has its receipt with the core.
THEOREM PostedIsReceipted == Spec => []PostedMeansReceipted
<1>1. IInv => PostedMeansReceipted
  BY DEF IInv, CopiesTrue, JournalTrue, PostedMeansReceipted
<1>2. QED
  BY <1>1, Invariance, PTL

-----------------------------------------------------------------------------
(* What holds while no two upserts interleave: what a call has read of the *)
(* journal is still so when it writes.                                     *)

\* What kind of call is where, and what it may be writing.
KindsTrue ==
  \A t \in Task :
    /\ kind[t] = "none" => pc[t] = "idle"
    /\ pc[t] = "idle" => kind[t] = "none"
    /\ kind[t] = "handle" => pc[t] # "next" /\ step[t] \in Step
    /\ kind[t] = "poll" => pc[t] \in {"next", "post", "load", "open", "write", "rename"}
                           /\ put[t] \in {"none", "posted"}
    /\ pc[t] \in {"load", "open", "write", "rename"} => put[t] # "none"

Handles(t, s) == kind[t] = "handle" /\ step[t] = s

\* One upsert at a time, of the journal as it is on disk.
Alone ==
  /\ \A t \in Task : Upserting(t) => mem[t].state = file.state
  /\ \A t \in Task : pc[t] = "write" => to[t] = "tmp" /\ tmp = EmptyJournal
  /\ \A t \in Task : pc[t] = "rename" => tmp # None /\ tmp.state = [file.state EXCEPT ![step[t]] = put[t]]
  /\ \A t, u \in Task : Upserting(t) /\ Upserting(u) => t = u

\* One handler at work on a step that has had no overlaps.
OneAtWork ==
  \A s \in Step : overlaps[s] = 0 => \A t, u \in AtWork(s) : t = u

\* How far the journal has a step when a call for it is where it is.
Expects(t, st) ==
  IF kind[t] = "poll" THEN st \in {"pending-manual", "posted"}
  ELSE /\ pc[t] = "request" \/ put[t] = "requested" => st \in {"none", "requested"}
       /\ pc[t] = "run" \/ put[t] \in {"ran", "pending-manual"} => st = "requested"
       /\ pc[t] = "post" \/ put[t] = "posted" => st = "ran"

InOrder ==
  \A t \in Task :
    /\ pc[t] \notin {"idle", "next"} /\ overlaps[step[t]] = 0 => Expects(t, file.state[step[t]])
    /\ \A s \in Step : seen[t].state[s] = "pending-manual" /\ overlaps[s] = 0
                       => file.state[s] \in {"pending-manual", "posted"}

\* The calls of handle() that may still run the helper, or leave it to a person.
Open(t, s) == Handles(t, s) /\ (pc[t] \in {"request", "run"} \/ put[t] \in {"requested", "pending-manual"})
Claims(s) == {t \in Task : Open(t, s)}

\* The helper's outcome is on its way to the journal.
Journalling(s) == \E t \in Task : Handles(t, s) /\ put[t] = "ran"

\* A run that nobody has claimed: a person's, or that of the next call of handle().
Vacant(s) ==
  \/ file.state[s] = "pending-manual" /\ s \notin results
  \/ file.state[s] \in {"none", "requested"} /\ Claims(s) = {} /\ ~Journalling(s)

\* The runs of the helper, those claimed and the vacant one all have a cause.
Account(s) == runs[s] + Cardinality(Claims(s)) + (IF Vacant(s) THEN 1 ELSE 0)
RunsCounted == \A s \in Step : Account(s) <= 1 + cut[s] + overlaps[s]

Undisturbed == Alone /\ OneAtWork /\ InOrder /\ RunsCounted
OrderInv == KindsTrue /\ (~mixed => Undisturbed)

\* A call stays of the kind it was started as until it returns.
LEMMA KindsInductive ==
  ASSUME TypeOK, StepsKnown, CallsTrue, KindsTrue, [Next]_vars
  PROVE  KindsTrue'
<1> USE DEF TypeOK, KindsTrue, files, taskVars, histories
<1>1. CASE UNCHANGED vars
  BY <1>1 DEF vars
<1>2. ASSUME NEW s \in Step, Ask(s) \/ Cancel(s) \/ RunByHand(s) PROVE KindsTrue'
  BY <1>2 DEF Ask, Cancel, RunByHand
<1>3. ASSUME NEW t \in Task, NEW s \in Step, Handle(t, s) PROVE KindsTrue'
  BY <1>3 DEF Handle, Goto
<1>4. ASSUME NEW t \in Task, Poll(t) PROVE KindsTrue'
  BY <1>4 DEF Poll, Goto, CallsTrue
<1>5. ASSUME NEW t \in Task, Return(t) PROVE KindsTrue'
  BY <1>5 DEF Return, Goto
<1>6. ASSUME NEW t \in Task, Lookup(t), ~Return(t) PROVE KindsTrue'
  BY <1>6 DEF Lookup, GoOn, Goto
<1>7. ASSUME NEW t \in Task, WriteRequest(t) PROVE KindsTrue'
  BY <1>7 DEF WriteRequest, Upsert, Goto
<1>8. ASSUME NEW t \in Task, Load(t) \/ OpenTmp(t) \/ WriteTmp(t) PROVE KindsTrue'
  BY <1>8 DEF Load, OpenTmp, WriteTmp, Goto
<1>9. ASSUME NEW t \in Task, Rename(t), ~Return(t) PROVE KindsTrue'
  BY <1>9 DEF Rename, Goto, After, StepsKnown
<1>10. ASSUME NEW t \in Task, RunStep(t), ~Return(t) PROVE KindsTrue'
  BY <1>10 DEF RunStep, Upsert, Goto
<1>11. ASSUME NEW t \in Task, Post(t), ~Return(t) PROVE KindsTrue'
  BY <1>11 DEF Post, Upsert, Goto
<1>12. ASSUME NEW t \in Task, NextEntry(t), ~Return(t) PROVE KindsTrue'
  BY <1>12 DEF NextEntry, Goto
<1>13. CASE Crash
  BY <1>13 DEF Crash
<1>14. QED
  BY <1>1, <1>2, <1>3, <1>4, <1>5, <1>6, <1>7, <1>8, <1>9, <1>10, <1>11, <1>12, <1>13 DEF Next, TaskStep

\* What an undisturbed rename does to the journal: it never throws, and it changes the
\* entry of its own step alone.
LEMMA RenameIs ==
  ASSUME TypeOK, StepsKnown, Alone, NEW t \in Task, Rename(t)
  PROVE  /\ pc[t] = "rename" /\ step[t] \in Step
         /\ file' = tmp /\ tmp' = None
         /\ \A s \in Step : file'.state[s] = IF s = step[t] THEN put[t] ELSE file.state[s]
<1>1. pc[t] = "rename" /\ step[t] \in Step /\ put[t] \in JState
  BY DEF Rename, StepsKnown, TypeOK
<1>2. tmp # None /\ tmp.state = [file.state EXCEPT ![step[t]] = put[t]]
  BY <1>1 DEF Alone
<1>3. file.state \in [Step -> JState]
  BY DEF TypeOK, Journal
<1>4. QED
  BY <1>1, <1>2, <1>3 DEF Rename

\* What an undisturbed write does: the whole text goes into the temporary file.
LEMMA WriteIs ==
  ASSUME TypeOK, StepsKnown, Alone, NEW t \in Task, WriteTmp(t)
  PROVE  /\ pc[t] = "write" /\ step[t] \in Step
         /\ UNCHANGED file /\ tmp' = Upserted(mem[t], step[t], put[t])
<1>1. pc[t] = "write" /\ step[t] \in Step
  BY DEF WriteTmp, StepsKnown
<1>2. to[t] = "tmp" /\ tmp = EmptyJournal
  BY <1>1 DEF Alone
<1>3. QED
  BY <1>1, <1>2 DEF WriteTmp, WrittenOver

\* As long as no two upserts have interleaved, they stay one at a time.
LEMMA AloneInductive ==
  ASSUME TypeOK, StepsKnown, CallsTrue, KindsTrue, Alone, [Next]_vars, ~mixed'
  PROVE  Alone'
<1> USE DEF TypeOK, Alone, Upserting, files, taskVars, histories
<1>1. CASE UNCHANGED vars
  BY <1>1 DEF vars
<1>2. ASSUME NEW s \in Step, Ask(s) \/ Cancel(s) \/ RunByHand(s) PROVE Alone'
  BY <1>2 DEF Ask, Cancel, RunByHand
<1>3. ASSUME NEW t \in Task, NEW s \in Step, Handle(t, s) PROVE Alone'
  BY <1>3 DEF Handle, Goto
<1>4. ASSUME NEW t \in Task, Poll(t) PROVE Alone'
  BY <1>4 DEF Poll, Goto
<1>5. ASSUME NEW t \in Task, Return(t), UNCHANGED <<file, tmp>> PROVE Alone'
  BY <1>5 DEF Return, Goto
<1>6. ASSUME NEW t \in Task, Lookup(t), ~Return(t) PROVE Alone'
  BY <1>6 DEF Lookup, GoOn, Goto
<1>7. ASSUME NEW t \in Task, WriteRequest(t) PROVE Alone'
  BY <1>7 DEF WriteRequest, Upsert, Goto
<1>8. ASSUME NEW t \in Task, Load(t) PROVE Alone'
  <2>1. mem'[t].state = file.state
    BY <1>8 DEF Load, Torn, EmptyJournal
  <2>2. \A u \in Task \ {t} : ~Upserting(u)
    BY <1>8 DEF Load
  <2>3. QED
    BY <1>8, <2>1, <2>2 DEF Load, Goto
<1>9. ASSUME NEW t \in Task, OpenTmp(t) PROVE Alone'
  BY <1>9 DEF OpenTmp, Goto
<1>10. ASSUME NEW t \in Task, WriteTmp(t) PROVE Alone'
  <2>1. /\ pc[t] = "write" /\ step[t] \in Step
        /\ UNCHANGED file /\ tmp' = Upserted(mem[t], step[t], put[t])
    BY <1>10, WriteIs
  <2>2. tmp' # None
    BY <2>1, UpsertedEntry, NoneIsNoJournal
  <2>3. tmp'.state = [file.state EXCEPT ![step[t]] = put[t]]
    BY <2>1 DEF Upserted
  <2>4. QED
    BY <1>10, <2>1, <2>2, <2>3 DEF WriteTmp, Goto
<1>11. ASSUME NEW t \in Task, Rename(t) PROVE Alone'
  BY <1>11 DEF Rename, Return, Goto, After
<1>12. ASSUME NEW t \in Task, RunStep(t), ~Return(t) PROVE Alone'
  BY <1>12 DEF RunStep, Upsert, Goto
<1>13. ASSUME NEW t \in Task, Post(t), ~Return(t) PROVE Alone'
  BY <1>13 DEF Post, Upsert, Goto
<1>14. ASSUME NEW t \in Task, NextEntry(t), ~Return(t) PROVE Alone'
  <2>1. pc[t] = "next" /\ pc'[t] \in {"next", "post"} /\ UNCHANGED <<file, tmp, mem, put, to>>
    BY <1>14 DEF NextEntry, Goto
  <2>2. \A u \in Task \ {t} : UNCHANGED <<pc[u], step[u]>>
    BY <1>14 DEF NextEntry, Goto
  <2>3. QED
    BY <2>1, <2>2
<1>15. CASE Crash
  BY <1>15 DEF Crash
<1>16. QED
  BY <1>1, <1>2, <1>3, <1>4, <1>5, <1>6, <1>7, <1>8, <1>9, <1>10, <1>11, <1>12, <1>13, <1>14, <1>15
     DEF Next, TaskStep, Lookup, RunStep, Post, NextEntry

\* A call gets past the lookup beside another one only by counting as an overlap.
LEMMA OneAtWorkInductive ==
  ASSUME TypeOK, StepsKnown, KindsTrue, OneAtWork, [Next]_vars
  PROVE  OneAtWork'
<1> USE DEF TypeOK, OneAtWork, files, taskVars, histories
<1>1. ASSUME UNCHANGED overlaps, NEW t \in Task, pc[t] # "lookup" \/ pc'[t] = "lookup" \/ Return(t),
             \A u \in Task \ {t} : UNCHANGED <<kind[u], step[u], pc[u]>>,
             kind'[t] = "handle" => (UNCHANGED <<kind[t], step[t]>> \/ pc'[t] = "lookup")
      PROVE  OneAtWork'
  <2>1. \A s \in Step : AtWork(s)' \subseteq AtWork(s)
    BY <1>1 DEF AtWork, Return
  <2>2. QED
    BY <1>1, <2>1
<1>2. CASE UNCHANGED vars
  BY <1>2 DEF vars, AtWork
<1>3. ASSUME NEW s \in Step, Ask(s) \/ Cancel(s) \/ RunByHand(s) PROVE OneAtWork'
  BY <1>3 DEF Ask, Cancel, RunByHand, AtWork
<1>4. ASSUME NEW t \in Task, NEW s \in Step, Handle(t, s) PROVE OneAtWork'
  BY <1>4, <1>1 DEF Handle, Goto
<1>5. ASSUME NEW t \in Task, Poll(t) PROVE OneAtWork'
  BY <1>5, <1>1 DEF Poll, Goto
<1>6. ASSUME NEW t \in Task, Return(t), UNCHANGED overlaps PROVE OneAtWork'
  BY <1>6, <1>1 DEF Return, Goto
<1>7. ASSUME NEW t \in Task, Lookup(t), GoOn(t) PROVE OneAtWork'
  <2>1. \A s \in Step : AtWork(s)' \subseteq AtWork(s) \cup (IF s = step[t] THEN {t} ELSE {})
    BY <1>7 DEF GoOn, Goto, AtWork
  <2>2. CASE AtWork(step[t]) = {} /\ UNCHANGED overlaps
    BY <2>1, <2>2
  <2>3. CASE overlaps' = [overlaps EXCEPT ![step[t]] = @ + 1]
    BY <1>7, <2>1, <2>3 DEF Lookup, StepsKnown
  <2>4. QED
    BY <1>7, <2>2, <2>3 DEF GoOn
<1>8. ASSUME NEW t \in Task, WriteRequest(t) PROVE OneAtWork'
  BY <1>8, <1>1 DEF WriteRequest, Upsert, Goto
<1>9. ASSUME NEW t \in Task, Load(t) \/ OpenTmp(t) \/ WriteTmp(t) PROVE OneAtWork'
  BY <1>9, <1>1 DEF Load, OpenTmp, WriteTmp, Goto
<1>10. ASSUME NEW t \in Task, Rename(t), ~Return(t) PROVE OneAtWork'
  BY <1>10, <1>1 DEF Rename, Goto
<1>11. ASSUME NEW t \in Task, RunStep(t), ~Return(t) PROVE OneAtWork'
  BY <1>11, <1>1 DEF RunStep, Upsert, Goto
<1>12. ASSUME NEW t \in Task, Post(t), ~Return(t) PROVE OneAtWork'
  BY <1>12, <1>1 DEF Post, Upsert, Goto
<1>13. ASSUME NEW t \in Task, NextEntry(t), ~Return(t) PROVE OneAtWork'
  BY <1>13, <1>1 DEF NextEntry, Goto, KindsTrue
<1>14. CASE Crash
  BY <1>14 DEF Crash, AtWork
<1>15. QED
  BY <1>2, <1>3, <1>4, <1>5, <1>6, <1>7, <1>8, <1>9, <1>10, <1>11, <1>12, <1>13, <1>14
     DEF Next, TaskStep, Lookup, Rename, RunStep, Post, NextEntry

\* Overlaps and interleavings are never forgotten.
LEMMA HistoriesGrow ==
  ASSUME TypeOK, StepsKnown, [Next]_vars
  PROVE  /\ ~mixed' => ~mixed
         /\ \A s \in Step : overlaps'[s] \in Nat /\ (overlaps'[s] = 0 => overlaps[s] = 0)
<1>1. ~mixed' => ~mixed
  BY DEF Next, TaskStep, vars, files, taskVars, histories, Ask, Cancel, RunByHand, Handle, Poll, Lookup,
         WriteRequest, Load, OpenTmp, WriteTmp, Rename, RunStep, Post, NextEntry, Crash
<1>2. ASSUME NEW t \in Task, Lookup(t), ~UNCHANGED overlaps
      PROVE  overlaps' = [overlaps EXCEPT ![step[t]] = @ + 1]
  BY <1>2 DEF Lookup, GoOn
<1>3. UNCHANGED overlaps \/ \E t \in Task : Lookup(t)
  BY DEF Next, TaskStep, vars, files, taskVars, histories, Ask, Cancel, RunByHand, Handle, Poll,
         WriteRequest, Load, OpenTmp, WriteTmp, Rename, RunStep, Post, NextEntry, Crash
<1>4. QED
  BY <1>1, <1>2, <1>3 DEF TypeOK, StepsKnown

\* As long as no two upserts have interleaved, the journal has a step as far as its calls
\* expect, if they are one at a time.
LEMMA InOrderInductive ==
  ASSUME TypeOK, StepsKnown, CallsTrue, KindsTrue, Alone, OneAtWork, InOrder, [Next]_vars, ~mixed'
  PROVE  InOrder'
<1> USE DEF TypeOK, InOrder, Expects, files, taskVars, histories
<1>1. CASE UNCHANGED vars
  BY <1>1 DEF vars
<1>2. ASSUME NEW s \in Step, Ask(s) \/ Cancel(s) \/ RunByHand(s) PROVE InOrder'
  BY <1>2 DEF Ask, Cancel, RunByHand
<1>3. ASSUME NEW t \in Task, NEW s \in Step, Handle(t, s) PROVE InOrder'
  BY <1>3 DEF Handle, Goto, CallsTrue
<1>4. ASSUME NEW t \in Task, Poll(t) PROVE InOrder'
  BY <1>4 DEF Poll, Goto, Pending, PendingIn
<1>5. ASSUME NEW t \in Task, Return(t), UNCHANGED <<file, overlaps>> PROVE InOrder'
  BY <1>5 DEF Return, Goto, EmptyJournal
<1>6. ASSUME NEW t \in Task, Lookup(t), ~Return(t) PROVE InOrder'
  <2>1. /\ pc[t] = "lookup" /\ file.state[step[t]] \in {"none", "requested"}
        /\ Goto(t, "request") /\ UNCHANGED <<kind, step, put, seen, file>>
    BY <1>6 DEF Lookup, GoOn
  <2>2. kind[t] = "handle" /\ put[t] = "none"
    BY <2>1 DEF KindsTrue, CallsTrue, Kind
  <2>3. \A s \in Step : overlaps'[s] = 0 => overlaps[s] = 0
    BY HistoriesGrow
  <2>4. \A u \in Task : pc'[u] \notin {"idle", "next"} => step[u] \in Step
    BY <2>1 DEF Goto, StepsKnown
  <2>5. QED
    BY <2>1, <2>2, <2>3, <2>4 DEF Goto
<1>7. ASSUME NEW t \in Task, WriteRequest(t) PROVE InOrder'
  BY <1>7 DEF WriteRequest, Upsert, Goto, KindsTrue
<1>8. ASSUME NEW t \in Task, Load(t) \/ OpenTmp(t) PROVE InOrder'
  BY <1>8 DEF Load, OpenTmp, Goto
<1>9. ASSUME NEW t \in Task, WriteTmp(t) PROVE InOrder'
  <2>1. pc[t] = "write" /\ UNCHANGED <<file, kind, step, put, seen, overlaps>>
    BY <1>9, WriteIs DEF WriteTmp
  <2>2. pc' = [pc EXCEPT ![t] = "rename"]
    BY <1>9 DEF WriteTmp, Goto
  <2>3. QED
    BY <2>1, <2>2
<1>10. ASSUME NEW t \in Task, Rename(t) PROVE InOrder'
  <2>1. /\ pc[t] = "rename" /\ step[t] \in Step /\ put[t] # "none" /\ put[t] \in JState
        /\ kind[t] \in {"handle", "poll"}
        /\ \A s \in Step : file'.state[s] = IF s = step[t] THEN put[t] ELSE file.state[s]
    BY <1>10, RenameIs DEF KindsTrue, Kind
  <2>2. UNCHANGED overlaps /\ \A u \in Task \ {t} : UNCHANGED <<pc[u], kind[u], step[u], put[u], seen[u]>>
    BY <1>10 DEF Rename, Return, Goto
  <2>3. /\ pc'[t] \notin {"idle", "next"} => UNCHANGED <<kind[t], step[t]>>
        /\ put'[t] = "none" /\ pc'[t] = After(t)
    <3>1. tmp # None
      BY <2>1 DEF Alone
    <3>2. QED
      BY <1>10, <3>1 DEF Rename, Goto, After
  <2>4. \A u \in Task, s \in Step : seen'[u].state[s] = "pending-manual" => seen[u].state[s] = "pending-manual"
    BY <1>10 DEF Rename, Return, Goto, EmptyJournal
  <2>5. ASSUME NEW u \in Task, pc'[u] \notin {"idle", "next"}, (overlaps[step[u]] = 0)'
        PROVE  (Expects(u, file.state[step[u]]))'
    <3>1. CASE u = t
      BY <2>1, <2>3, <2>5, <3>1 DEF After, KindsTrue
    <3>2. CASE u # t
      <4>1. pc'[u] = pc[u] /\ kind'[u] = kind[u] /\ step'[u] = step[u] /\ put'[u] = put[u]
        BY <2>2, <3>2
      <4>2. step[u] \in Step /\ Expects(u, file.state[step[u]])
        BY <2>2, <2>5, <4>1 DEF StepsKnown
      <4>3. CASE step[u] # step[t]
        BY <2>1, <4>1, <4>2, <4>3
      <4>4. CASE step[u] = step[t]
        <5>1. Expects(t, file.state[step[t]])
          BY <2>1, <2>2, <2>5, <4>1, <4>4
        <5>2. kind[u] \in {"handle", "poll"}
          BY <2>5, <4>1 DEF KindsTrue, Kind
        <5>3. CASE kind[t] = "handle" /\ kind[u] = "handle"
          <6>1. pc[u] = "lookup"
            BY <2>1, <2>2, <2>5, <3>2, <4>1, <4>2, <4>4, <5>3 DEF OneAtWork, AtWork
          <6>2. QED
            BY <4>1, <5>3, <6>1 DEF CallsTrue
        <5>4. CASE kind[t] = "poll"
          BY <2>1, <4>1, <4>2, <4>4, <5>1, <5>2, <5>4 DEF KindsTrue, JState
        <5>5. CASE kind[t] = "handle" /\ kind[u] = "poll"
          BY <2>1, <4>2, <4>4, <5>1, <5>5 DEF JState
        <5>6. QED
          BY <2>1, <5>2, <5>3, <5>4, <5>5
      <4>5. QED
        BY <4>3, <4>4
    <3>3. QED
      BY <3>1, <3>2
  <2>6. ASSUME NEW u \in Task, NEW s \in Step, seen'[u].state[s] = "pending-manual", overlaps[s] = 0
        PROVE  file'.state[s] \in {"pending-manual", "posted"}
    <3>1. file.state[s] \in {"pending-manual", "posted"}
      BY <2>4, <2>6
    <3>2. s = step[t] => Expects(t, file.state[step[t]])
      BY <2>1, <2>6
    <3>3. QED
      BY <2>1, <3>1, <3>2 DEF KindsTrue, JState
  <2>7. QED
    BY <2>2, <2>5, <2>6
<1>11. ASSUME NEW t \in Task, RunStep(t), ~Return(t) PROVE InOrder'
  BY <1>11 DEF RunStep, Upsert, Goto, KindsTrue, CallsTrue
<1>12. ASSUME NEW t \in Task, Post(t), ~Return(t) PROVE InOrder'
  BY <1>12 DEF Post, Upsert, Goto, KindsTrue
<1>13. ASSUME NEW t \in Task, NextEntry(t), ~Return(t) PROVE InOrder'
  <2>1. PICK s \in Step :
          /\ First(seen[t], s)
          /\ seen' = [seen EXCEPT ![t] = Rest(@, s)]
          /\ \/ step' = [step EXCEPT ![t] = s] /\ Goto(t, "post")
             \/ step' = [step EXCEPT ![t] = None] /\ UNCHANGED pc
    BY <1>13 DEF NextEntry
  <2>2. overlaps[s] = 0 => file.state[s] \in {"pending-manual", "posted"}
    BY <2>1 DEF First, PendingIn
  <2>3. pc[t] = "next" /\ kind[t] = "poll" /\ UNCHANGED <<kind, put, file, overlaps>>
    BY <1>13 DEF NextEntry, KindsTrue, Kind
  <2>4. \A u \in Task, r \in Step : seen'[u].state[r] = "pending-manual" => seen[u].state[r] = "pending-manual"
    BY <2>1 DEF Rest, Journal
  <2>5. \A u \in Task : pc'[u] \notin {"idle", "next"} /\ (overlaps[step[u]] = 0)'
                        => (Expects(u, file.state[step[u]]))'
    BY <2>1, <2>2, <2>3 DEF Goto
  <2>6. QED
    BY <2>3, <2>4, <2>5
<1>14. CASE Crash
  BY <1>14 DEF Crash, EmptyJournal
<1>15. ASSUME NEW t \in Task, Lookup(t) \/ RunStep(t) \/ Post(t) \/ NextEntry(t) PROVE InOrder'
  <2>1. Return(t) => UNCHANGED <<file, overlaps>>
    BY <1>15 DEF Lookup, RunStep, Post, NextEntry, Return, Goto, GoOn
  <2>2. QED
    BY <1>5, <1>6, <1>11, <1>12, <1>13, <1>15, <2>1
<1>16. QED
  BY <1>1, <1>2, <1>3, <1>4, <1>7, <1>8, <1>9, <1>10, <1>14, <1>15 DEF Next, TaskStep

-----------------------------------------------------------------------------
\* Sets of calls are finite, and counted one call at a time.
LEMMA CallsCounted ==
  ASSUME NEW C \in SUBSET Task
  PROVE  /\ Cardinality(C) \in Nat
         /\ C = {} <=> Cardinality(C) = 0
         /\ \A t \in C : Cardinality(C \ {t}) = Cardinality(C) - 1
         /\ \A t \in Task \ C : Cardinality(C \cup {t}) = Cardinality(C) + 1
<1>1. IsFiniteSet(C)
  BY HostStepsAssumption, FS_Subset
<1>2. QED
  BY <1>1, FS_CardinalityType, FS_EmptySet, FS_AddElement, FS_RemoveElement

\* A step of one call changes its own claims alone.
LEMMA ClaimsOfOne ==
  ASSUME NEW t \in Task, \A u \in Task \ {t} : UNCHANGED <<kind[u], step[u], pc[u], put[u]>>,
         NEW s \in Step
  PROVE  /\ Claims(s)' \ {t} = Claims(s) \ {t}
         /\ (Open(t, s)' <=> Open(t, s)) => Claims(s)' = Claims(s)
         /\ ((Handles(t, s) /\ put[t] = "ran")' <=> (Handles(t, s) /\ put[t] = "ran"))
            => (Journalling(s)' <=> Journalling(s))
BY DEF Claims, Open, Handles, Journalling

\* The account of a step is settled as it was when nothing in it has grown.
LEMMA AccountKept ==
  ASSUME TypeOK, RunsCounted, UNCHANGED <<runs, cut>>, NEW s \in Step,
         overlaps'[s] \in Nat, overlaps'[s] >= overlaps[s],
         Claims(s)' = Claims(s), Vacant(s)' => Vacant(s)
  PROVE  Account(s)' <= 1 + cut'[s] + overlaps'[s]
<1>1. Account(s) <= 1 + cut[s] + overlaps[s]
  BY DEF RunsCounted
<1>2. Claims(s) \in SUBSET Task
  BY DEF Claims
<1>3. Cardinality(Claims(s)) \in Nat /\ Cardinality(Claims(s))' = Cardinality(Claims(s))
  BY <1>2, CallsCounted
<1>4. runs[s] \in Nat /\ cut[s] \in Nat /\ overlaps[s] \in Nat
  BY DEF TypeOK
<1>5. runs'[s] = runs[s] /\ cut'[s] = cut[s]
  OBVIOUS
<1> HIDE DEF Vacant, Claims
<1>6. QED
  BY <1>1, <1>3, <1>4, <1>5 DEF Account

\* A call that gives its claim up pays for a run, or for what it leaves vacant.
LEMMA AccountReleased ==
  ASSUME TypeOK, RunsCounted, UNCHANGED <<cut, overlaps>>, NEW s \in Step, NEW t \in Claims(s),
         Claims(s)' = Claims(s) \ {t},
         \/ runs'[s] = runs[s]
         \/ runs'[s] = runs[s] + 1 /\ (Vacant(s)' => Vacant(s))
  PROVE  Account(s)' <= 1 + cut'[s] + overlaps'[s]
<1>1. Account(s) <= 1 + cut[s] + overlaps[s]
  BY DEF RunsCounted
<1>2. Claims(s) \in SUBSET Task
  BY DEF Claims
<1>3. Cardinality(Claims(s)) \in Nat /\ Cardinality(Claims(s))' = Cardinality(Claims(s)) - 1
  BY <1>2, CallsCounted
<1>4. runs[s] \in Nat /\ cut[s] \in Nat /\ overlaps[s] \in Nat
  BY DEF TypeOK
<1>5. cut'[s] = cut[s] /\ overlaps'[s] = overlaps[s]
  OBVIOUS
<1>6. QED
  BY <1>1, <1>3, <1>4, <1>5 DEF Account

\* A step of one call that touches neither the journal nor the helper and makes or gives
\* up no claim leaves every account as it was.
LEMMA QuietCall ==
  ASSUME TypeOK, RunsCounted, NEW t \in Task,
         \A u \in Task \ {t} : UNCHANGED <<kind[u], step[u], pc[u], put[u]>>,
         \A s \in Step : Open(t, s)' <=> Open(t, s),
         \A s \in Step : (Handles(t, s) /\ put[t] = "ran")' <=> (Handles(t, s) /\ put[t] = "ran"),
         UNCHANGED <<file, results, runs, cut, overlaps>>
  PROVE  RunsCounted'
<1>1. ASSUME NEW s \in Step PROVE Account(s)' <= 1 + cut'[s] + overlaps'[s]
  <2>1. Claims(s)' = Claims(s) /\ (Journalling(s)' <=> Journalling(s))
    BY ClaimsOfOne
  <2>2. Vacant(s)' => Vacant(s)
    BY <2>1 DEF Vacant
  <2>3. overlaps[s] \in Nat
    BY DEF TypeOK
  <2>4. QED
    BY <2>1, <2>2, <2>3, AccountKept
<1>2. QED
  BY <1>1 DEF RunsCounted

\* As long as no two upserts have interleaved, the account of every step balances: whoever
\* runs the helper has claimed the run, or found it vacant.
LEMMA RunsCountedInductive ==
  ASSUME TypeOK, StepsKnown, CallsTrue, KindsTrue, Alone, RunsCounted, [Next]_vars, ~mixed'
  PROVE  RunsCounted'
<1> USE DEF TypeOK, files, taskVars, histories
<1>1. CASE UNCHANGED vars
  BY <1>1 DEF vars, RunsCounted, Account, Claims, Open, Handles, Vacant, Journalling
<1>2. ASSUME NEW s \in Step, Ask(s) \/ Cancel(s) PROVE RunsCounted'
  BY <1>2 DEF Ask, Cancel, RunsCounted, Account, Claims, Open, Handles, Vacant, Journalling
<1>3. ASSUME NEW r \in Step, RunByHand(r) PROVE RunsCounted'
  <2>1. /\ file.state[r] = "pending-manual" /\ r \notin results /\ r \in results'
        /\ runs' = [runs EXCEPT ![r] = @ + 1] /\ results \subseteq results'
        /\ UNCHANGED <<file, kind, step, pc, put, cut, overlaps>>
    BY <1>3 DEF RunByHand, RunHelper
  <2>2. ASSUME NEW s \in Step PROVE Account(s)' <= 1 + cut'[s] + overlaps'[s]
    <3>1. Claims(s)' = Claims(s) /\ (Journalling(s)' <=> Journalling(s))
      BY <2>1 DEF Claims, Open, Handles, Journalling
    <3>2. Cardinality(Claims(s)) \in Nat /\ Cardinality(Claims(s))' = Cardinality(Claims(s))
      BY <3>1, CallsCounted DEF Claims
    <3>3. (Vacant(s)' => Vacant(s)) /\ (s = r => Vacant(s) /\ ~Vacant(s)')
      BY <2>1, <3>1 DEF Vacant
    <3>4. Account(s) <= 1 + cut[s] + overlaps[s]
      BY DEF RunsCounted
    <3>5. runs[s] \in Nat /\ runs'[s] = IF s = r THEN runs[s] + 1 ELSE runs[s]
      BY <2>1
    <3>6. cut[s] \in Nat /\ overlaps[s] \in Nat /\ cut'[s] = cut[s] /\ overlaps'[s] = overlaps[s]
      BY <2>1
    <3>7. QED
      BY <3>2, <3>3, <3>4, <3>5, <3>6 DEF Account
  <2>3. QED
    BY <2>2 DEF RunsCounted
<1>4. ASSUME NEW t \in Task, NEW s \in Step, Handle(t, s) PROVE RunsCounted'
  BY <1>4, QuietCall DEF Handle, Goto, Open, Handles, CallsTrue, KindsTrue
<1>5. ASSUME NEW t \in Task, Poll(t) PROVE RunsCounted'
  BY <1>5, QuietCall DEF Poll, Goto, Open, Handles, CallsTrue, KindsTrue
<1>6. ASSUME NEW t \in Task, Return(t), put[t] = "none", pc[t] \notin {"request", "run"},
             UNCHANGED <<file, results, runs, cut, overlaps>>
      PROVE  RunsCounted'
  BY <1>6, QuietCall DEF Return, Goto, Open, Handles
<1>7. ASSUME NEW t \in Task, Lookup(t), GoOn(t) PROVE RunsCounted'
  <2>1. /\ pc[t] = "lookup" /\ kind[t] = "handle" /\ step[t] \in Step /\ put[t] = "none"
        /\ UNCHANGED <<kind, step, put, file, results, runs, cut>> /\ pc' = [pc EXCEPT ![t] = "request"]
    BY <1>7 DEF Lookup, GoOn, Goto, StepsKnown, CallsTrue, KindsTrue, Kind
  <2>2. ASSUME NEW s \in Step PROVE Account(s)' <= 1 + cut'[s] + overlaps'[s]
    <3>1. CASE s # step[t]
      <4>1. Claims(s)' = Claims(s) /\ (Journalling(s)' <=> Journalling(s))
        BY <2>1, <3>1, ClaimsOfOne DEF Open, Handles
      <4>2. Vacant(s)' => Vacant(s)
        BY <2>1, <4>1 DEF Vacant
      <4>3. overlaps[s] \in Nat /\ overlaps'[s] = overlaps[s]
        BY <1>7, <3>1 DEF GoOn
      <4>4. QED
        BY <2>1, <4>1, <4>2, <4>3, AccountKept
    <3>2. CASE s = step[t]
      <4>1. ~Open(t, s) /\ Open(t, s)'
        BY <2>1, <3>2 DEF Open, Handles
      <4>2. Claims(s)' = Claims(s) \cup {t} /\ t \notin Claims(s)
        BY <2>1, <4>1, ClaimsOfOne DEF Claims
      <4>3. Cardinality(Claims(s)) \in Nat /\ Cardinality(Claims(s))' = Cardinality(Claims(s)) + 1
        <5>1. Claims(s) \in SUBSET Task
          BY DEF Claims
        <5>2. QED
          BY <4>2, <5>1, CallsCounted
      <4>4. Account(s) <= 1 + cut[s] + overlaps[s]
        BY DEF RunsCounted
      <4>5. runs[s] \in Nat /\ cut[s] \in Nat /\ runs'[s] = runs[s] /\ cut'[s] = cut[s] /\ overlaps[s] \in Nat
        BY <2>1
      <4>6. CASE overlaps'[s] = overlaps[s] + 1
        <5>1. Vacant(s)' => Vacant(s)
          BY <2>1, <4>2 DEF Vacant
        <5>2. QED
          BY <4>3, <4>4, <4>5, <4>6, <5>1 DEF Account
      <4>7. CASE AtWork(s) = {} /\ overlaps'[s] = overlaps[s]
        <5>1. Claims(s) = {} /\ ~Journalling(s)
          BY <4>7 DEF Claims, Open, Handles, Journalling, AtWork, CallsTrue
        <5>2. file.state[s] \in {"none", "requested"}
          BY <1>7, <3>2 DEF Lookup, Return, GoOn, Goto
        <5>3. Vacant(s) /\ ~Vacant(s)'
          BY <2>1, <4>2, <5>1, <5>2 DEF Vacant
        <5>4. QED
          BY <4>3, <4>4, <4>5, <4>7, <5>3 DEF Account
      <4>8. QED
        BY <1>7, <3>2, <4>5, <4>6, <4>7 DEF GoOn
    <3>3. QED
      BY <3>1, <3>2
  <2>3. QED
    BY <2>2 DEF RunsCounted
<1>8. ASSUME NEW t \in Task, WriteRequest(t) PROVE RunsCounted'
  BY <1>8, QuietCall DEF WriteRequest, Upsert, Goto, Open, Handles, CallsTrue
<1>9. ASSUME NEW t \in Task, Load(t) \/ OpenTmp(t) PROVE RunsCounted'
  BY <1>9, QuietCall DEF Load, OpenTmp, Goto, Open, Handles
<1>10. ASSUME NEW t \in Task, WriteTmp(t) PROVE RunsCounted'
  <2>1. UNCHANGED <<file, kind, step, put, results, runs, cut, overlaps>>
    BY <1>10, WriteIs DEF WriteTmp
  <2>2. pc[t] = "write" /\ pc' = [pc EXCEPT ![t] = "rename"]
    BY <1>10 DEF WriteTmp, Goto
  <2>3. QED
    BY <2>1, <2>2, QuietCall DEF Open, Handles
<1>11. ASSUME NEW t \in Task, Rename(t) PROVE RunsCounted'
  <2>1. /\ pc[t] = "rename" /\ step[t] \in Step /\ put[t] \in JState \ {"none"}
        /\ \A s \in Step : file'.state[s] = IF s = step[t] THEN put[t] ELSE file.state[s]
    BY <1>11, RenameIs DEF KindsTrue
  <2>2. UNCHANGED <<runs, results, cut, overlaps>>
    BY <1>11 DEF Rename
  <2>3. \A u \in Task \ {t} : UNCHANGED <<kind[u], step[u], pc[u], put[u]>>
    BY <1>11 DEF Rename, Return, Goto
  <2>4. /\ put'[t] = "none" /\ pc'[t] = After(t)
        /\ kind'[t] = "none" \/ UNCHANGED <<kind[t], step[t]>>
        /\ After(t) # "idle" => UNCHANGED <<kind[t], step[t]>>
    <3>1. tmp # None
      BY <2>1 DEF Alone
    <3>2. QED
      BY <1>11, <3>1 DEF Rename, Goto
  <2>5. kind[t] = "poll" => put[t] = "posted"
    BY <2>1 DEF KindsTrue
  <2>6. ASSUME NEW s \in Step PROVE Account(s)' <= 1 + cut'[s] + overlaps'[s]
    <3>1. overlaps[s] \in Nat /\ overlaps'[s] = overlaps[s]
      BY <2>2
    <3>2. CASE s # step[t]
      <4>1. Claims(s)' = Claims(s) /\ (Journalling(s)' <=> Journalling(s))
        BY <2>3, <2>4, <3>2, ClaimsOfOne DEF Open, Handles
      <4>2. Vacant(s)' => Vacant(s)
        BY <2>1, <2>2, <3>2, <4>1 DEF Vacant
      <4>3. QED
        BY <2>2, <3>1, <4>1, <4>2, AccountKept
    <3>3. CASE s = step[t] /\ put[t] = "pending-manual"
      <4>1. Open(t, s) /\ ~Open(t, s)'
        BY <2>1, <2>4, <2>5, <3>3 DEF Open, Handles, After, KindsTrue, Kind
      <4>2. t \in Claims(s) /\ Claims(s)' = Claims(s) \ {t}
        BY <2>3, <4>1, ClaimsOfOne DEF Claims
      <4>3. QED
        BY <2>2, <4>2, AccountReleased
    <3>4. CASE s = step[t] /\ put[t] # "pending-manual"
      <4>1. put[t] \in {"requested", "ran", "posted"}
        BY <2>1, <3>4 DEF JState
      <4>2. Open(t, s)' <=> Open(t, s)
        BY <2>1, <2>4, <2>5, <4>1 DEF Open, Handles, After
      <4>3. Claims(s)' = Claims(s)
        BY <2>3, <4>2, ClaimsOfOne
      <4>4. ~Vacant(s)'
        <5>1. CASE put[t] = "requested"
          <6>1. kind[t] = "handle"
            BY <2>1, <2>5, <5>1 DEF KindsTrue, Kind
          <6>2. t \in Claims(s)
            BY <3>4, <5>1, <6>1 DEF Claims, Open, Handles
          <6>3. QED
            BY <2>1, <3>4, <4>3, <5>1, <6>2 DEF Vacant
        <5>2. CASE put[t] \in {"ran", "posted"}
          BY <2>1, <3>4, <5>2 DEF Vacant
        <5>3. QED
          BY <4>1, <5>1, <5>2
      <4>5. QED
        BY <2>2, <3>1, <4>3, <4>4, AccountKept
    <3>5. QED
      BY <3>2, <3>3, <3>4
  <2>7. QED
    BY <2>6 DEF RunsCounted
<1>12. ASSUME NEW t \in Task, RunStep(t) PROVE RunsCounted'
  <2>1. /\ pc[t] = "run" /\ step[t] \in Step /\ put[t] = "none" /\ kind[t] = "handle"
        /\ UNCHANGED <<file, cut, overlaps>>
    BY <1>12 DEF RunStep, StepsKnown, CallsTrue, KindsTrue, Kind
  <2> PICK r \in Step : r = step[t]
    BY <2>1
  <2>2. t \in Claims(r)
    BY <2>1 DEF Claims, Open, Handles
  <2>3. \A u \in Task \ {t} : UNCHANGED <<kind[u], step[u], pc[u], put[u]>>
    BY <1>12 DEF RunStep, Upsert, Return, Goto
  <2>4. ASSUME ~Open(t, r)', NEW s \in Step,
               results \subseteq results', UNCHANGED <<kind[t], step[t]>> \/ kind'[t] = "none",
               \A q \in Step \ {r} : runs'[q] = runs[q] /\ (q \in results' => q \in results),
               \/ runs'[r] = runs[r]
               \/ runs'[r] = runs[r] + 1 /\ (Vacant(r)' => Vacant(r))
        PROVE  Account(s)' <= 1 + cut'[s] + overlaps'[s]
    <3>1. CASE s = r
      <4>1. Claims(s)' = Claims(s) \ {t}
        BY <2>3, <2>4, <3>1, ClaimsOfOne DEF Claims
      <4>2. QED
        BY <2>1, <2>2, <2>4, <3>1, <4>1, AccountReleased
    <3>2. CASE s # r
      <4>1. Claims(s)' = Claims(s) /\ (Journalling(s)' <=> Journalling(s))
        BY <2>1, <2>3, <2>4, <3>2, ClaimsOfOne DEF Open, Handles
      <4>2. Vacant(s)' => Vacant(s)
        BY <2>1, <2>4, <3>2, <4>1 DEF Vacant
      <4>3. Account(s) <= 1 + cut[s] + overlaps[s] /\ runs'[s] = runs[s]
        BY <2>4, <3>2 DEF RunsCounted
      <4>4. Cardinality(Claims(s)) \in Nat /\ Cardinality(Claims(s))' = Cardinality(Claims(s))
        BY <4>1, CallsCounted DEF Claims
      <4>5. runs[s] \in Nat /\ cut[s] \in Nat /\ overlaps[s] \in Nat
        OBVIOUS
      <4>6. QED
        BY <2>1, <4>2, <4>3, <4>4, <4>5 DEF Account
    <3>3. QED
      BY <3>1, <3>2
  <2>5. CASE strategy = "root" /\ RunHelper(step[t]) /\ Upsert(t, "ran")
    <3>1. ~Open(t, r)' /\ UNCHANGED <<kind, step>> /\ put'[t] = "ran"
      BY <2>1, <2>5 DEF Upsert, Goto, Open, Handles
    <3>2. runs'[r] = runs[r] + 1 /\ results \subseteq results'
          /\ \A q \in Step \ {r} : runs'[q] = runs[q] /\ (q \in results' => q \in results)
      BY <2>1, <2>5 DEF RunHelper
    <3>3. Journalling(r)'
      BY <2>1, <3>1 DEF Journalling, Handles
    <3>4. Vacant(r)' => Vacant(r)
      <4>1. file' = file /\ (r \in results => r \in results')
        BY <2>1, <3>2
      <4>2. QED
        BY <3>3, <4>1 DEF Vacant
    <3>5. QED
      BY <2>4, <3>1, <3>2, <3>4 DEF RunsCounted
  <2>6. CASE Upsert(t, "ran") /\ UNCHANGED <<runs, results>>
    <3>1. ~Open(t, r)' /\ UNCHANGED <<kind, step>>
      BY <2>1, <2>6 DEF Upsert, Goto, Open, Handles
    <3>2. QED
      BY <2>4, <2>6, <3>1 DEF RunsCounted
  <2>7. CASE Upsert(t, "pending-manual") /\ UNCHANGED <<runs, results>>
    BY <2>1, <2>7, QuietCall DEF Upsert, Goto, Open, Handles
  <2>8. CASE Return(t) /\ UNCHANGED <<runs, results>>
    <3>1. ~Open(t, r)' /\ kind'[t] = "none"
      BY <2>1, <2>8 DEF Return, Goto, Open, Handles
    <3>2. QED
      BY <2>4, <2>8, <3>1 DEF RunsCounted
  <2>9. QED
    BY <1>12, <2>5, <2>6, <2>7, <2>8 DEF RunStep
<1>13. ASSUME NEW t \in Task, Post(t) PROVE RunsCounted'
  <2>1. pc[t] = "post" /\ put[t] = "none" /\ UNCHANGED <<file, results, runs, cut, overlaps>>
    BY <1>13 DEF Post, CallsTrue
  <2>2. CASE Upsert(t, "posted")
    BY <2>1, <2>2, QuietCall DEF Upsert, Goto, Open, Handles
  <2>3. QED
    BY <1>6, <1>13, <2>1, <2>2 DEF Post
<1>14. ASSUME NEW t \in Task, NextEntry(t) PROVE RunsCounted'
  <2>1. /\ kind[t] = "poll" /\ put[t] = "none" /\ pc[t] = "next"
        /\ UNCHANGED <<file, results, runs, cut, overlaps>>
    BY <1>14 DEF NextEntry, KindsTrue, CallsTrue, Kind
  <2>2. CASE ~Return(t)
    <3>1. UNCHANGED <<kind, put>> /\ \A u \in Task \ {t} : UNCHANGED <<pc[u], step[u]>>
      BY <1>14, <2>2 DEF NextEntry, Goto
    <3>2. QED
      BY <2>1, <3>1, QuietCall DEF Open, Handles
  <2>3. QED
    BY <1>6, <2>1, <2>2
<1>15. CASE Crash
  <2>1. ASSUME NEW s \in Step PROVE Account(s)' <= 1 + cut'[s] + overlaps'[s]
    <3>1. Claims(s)' = {} /\ ~Journalling(s)' /\ UNCHANGED <<file, results, runs, overlaps>>
      BY <1>15 DEF Crash, Claims, Open, Handles, Journalling
    <3>2. cut'[s] = IF \E t \in Task : step[t] = s /\ put[t] = "ran" THEN cut[s] + 1 ELSE cut[s]
      BY <1>15 DEF Crash
    <3>3. Journalling(s) => cut'[s] = cut[s] + 1
      BY <3>2 DEF Journalling, Handles
    <3>4. Cardinality(Claims(s)) \in Nat /\ (Claims(s) # {} => Cardinality(Claims(s)) >= 1)
      <4>1. Claims(s) \in SUBSET Task
        BY DEF Claims
      <4>2. Cardinality(Claims(s)) \in Nat /\ (Claims(s) = {} <=> Cardinality(Claims(s)) = 0)
        BY <4>1, CallsCounted
      <4>3. QED
        BY <4>2
    <3>5. Cardinality(Claims(s))' = 0
      BY <3>1, CallsCounted
    <3>6. Vacant(s)' => Vacant(s) \/ Claims(s) # {} \/ Journalling(s)
      BY <3>1 DEF Vacant
    <3>7. Account(s) <= 1 + cut[s] + overlaps[s]
      BY DEF RunsCounted
    <3>8. /\ runs[s] \in Nat /\ cut[s] \in Nat /\ overlaps[s] \in Nat
          /\ runs'[s] = runs[s] /\ overlaps'[s] = overlaps[s] /\ cut'[s] \in {cut[s], cut[s] + 1}
      BY <3>1, <3>2
    <3>9. QED
      BY <3>3, <3>4, <3>5, <3>6, <3>7, <3>8 DEF Account
  <2>2. QED
    BY <2>1 DEF RunsCounted
<1>16. ASSUME NEW t \in Task, Lookup(t), Return(t), UNCHANGED overlaps PROVE RunsCounted'
  BY <1>6, <1>16 DEF Lookup, CallsTrue
<1>17. QED
  BY <1>1, <1>2, <1>3, <1>4, <1>5, <1>7, <1>8, <1>9, <1>10, <1>11, <1>12, <1>13, <1>14, <1>15, <1>16
     DEF Next, TaskStep, Lookup

\* While no two upserts have interleaved, every call finds the journal as it expects, and
\* every run of the helper is accounted for.
THEOREM UndisturbedInvariance == Spec => [](IInv /\ OrderInv)
<1>1. ASSUME Init PROVE OrderInv
  <2>1. KindsTrue
    BY <1>1 DEF Init, KindsTrue
  <2>2. Alone /\ OneAtWork
    BY <1>1 DEF Init, Alone, OneAtWork, Upserting, AtWork
  <2>3. InOrder
    BY <1>1 DEF Init, InOrder, EmptyJournal
  <2>4. ASSUME NEW s \in Step PROVE Account(s) <= 1 + cut[s] + overlaps[s]
    <3>1. Claims(s) = {}
      BY <1>1 DEF Init, Claims, Open, Handles
    <3>2. Cardinality(Claims(s)) = 0
      BY <3>1, CallsCounted
    <3>3. runs[s] = 0 /\ cut[s] = 0 /\ overlaps[s] = 0
      BY <1>1 DEF Init
    <3>4. QED
      BY <3>2, <3>3 DEF Account
  <2>5. QED
    BY <2>1, <2>2, <2>3, <2>4 DEF OrderInv, Undisturbed, RunsCounted
<1>2. ASSUME IInv, OrderInv, [Next]_vars PROVE OrderInv'
  <2>1. KindsTrue'
    BY <1>2, KindsInductive DEF IInv, OrderInv
  <2>2. ASSUME ~mixed' PROVE Undisturbed'
    <3>1. Alone /\ OneAtWork /\ InOrder /\ RunsCounted
      BY <1>2, <2>2, HistoriesGrow DEF IInv, OrderInv, Undisturbed
    <3>2. QED
      BY <1>2, <2>2, <3>1, AloneInductive, OneAtWorkInductive, InOrderInductive, RunsCountedInductive
         DEF IInv, OrderInv, Undisturbed
  <2>3. QED
    BY <2>1, <2>2 DEF OrderInv
<1>3. QED
  BY <1>1, <1>2, Invariance, PTL DEF Spec

\* As long as no two upserts have interleaved, a helper that runs once more for a step has
\* a crash that kept its outcome out of the journal, or a call beside another, to blame.
THEOREM RerunsAccountedFor == Spec => []RerunsHaveACause
<1>1. ASSUME IInv, OrderInv PROVE RerunsHaveACause
  <2>1. ASSUME ~mixed, NEW s \in Step PROVE runs[s] <= 1 + cut[s] + overlaps[s]
    <3>1. Account(s) <= 1 + cut[s] + overlaps[s]
      BY <1>1, <2>1 DEF OrderInv, Undisturbed, RunsCounted
    <3>2. Cardinality(Claims(s)) \in Nat
      BY CallsCounted DEF Claims
    <3>3. runs[s] \in Nat /\ cut[s] \in Nat /\ overlaps[s] \in Nat
      BY <1>1 DEF IInv, TypeOK
    <3>4. QED
      BY <3>1, <3>2, <3>3 DEF Account
  <2>2. QED
    BY <2>1 DEF RerunsHaveACause
<1>2. QED
  BY <1>1, UndisturbedInvariance, PTL

\* The journal loses no entry and moves none back to an earlier state, as long as no two
\* upserts have interleaved and the step has had one call at a time.
THEOREM JournalAdvances == Spec => JournalOnlyAdvances
<1>1. ASSUME IInv, OrderInv, [Next]_vars, NEW s \in Step, Apart(s)'
      PROVE  Rank(file'.state[s]) >= Rank(file.state[s])
  <2>1. TypeOK /\ StepsKnown /\ KindsTrue /\ Alone /\ InOrder /\ overlaps[s] = 0
    BY <1>1, HistoriesGrow DEF IInv, OrderInv, Undisturbed, Apart
  <2>2. CASE UNCHANGED file
    BY <2>2 DEF Rank
  <2>3. ASSUME NEW t \in Task, Rename(t) PROVE Rank(file'.state[s]) >= Rank(file.state[s])
    <3>1. /\ pc[t] = "rename" /\ step[t] \in Step
          /\ file'.state[s] = IF s = step[t] THEN put[t] ELSE file.state[s]
      BY <2>1, <2>3, RenameIs
    <3>2. CASE s # step[t]
      BY <3>1, <3>2 DEF Rank
    <3>3. CASE s = step[t]
      <4>1. put[t] \in JState \ {"none"} /\ kind[t] \in {"handle", "poll"} /\ Expects(t, file.state[s])
        BY <2>1, <3>1, <3>3 DEF TypeOK, KindsTrue, InOrder, Kind
      <4>2. QED
        BY <2>1, <3>1, <3>3, <4>1 DEF Expects, KindsTrue, JState, Rank
    <3>4. QED
      BY <3>2, <3>3
  <2>4. ASSUME NEW t \in Task, WriteTmp(t) PROVE UNCHANGED file
    BY <2>1, <2>4, WriteIs
  <2>5. QED
    BY <1>1, <2>2, <2>3, <2>4 DEF Next, TaskStep, vars, files, Ask, Cancel, RunByHand, Handle, Poll, Lookup,
       WriteRequest, Load, OpenTmp, RunStep, Post, NextEntry, Crash
<1>2. (IInv /\ OrderInv) /\ [Next]_vars
      => [\A s \in Step : Apart(s)' => Rank(file'.state[s]) >= Rank(file.state[s])]_vars
  BY <1>1
<1>3. QED
  BY <1>2, UndisturbedInvariance, PTL DEF Spec, JournalOnlyAdvances
=============================================================================
