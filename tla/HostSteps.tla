------------------------------ MODULE HostSteps ------------------------------
(***************************************************************************)
(* The daemon's side of a privileged host step: HostStepExecutor and       *)
(* HostStepJournal (src/host/host-step.ts), with the helper it runs, the   *)
(* person who runs it by hand, and the core that asks for the step and     *)
(* takes its receipt.                                                      *)
(*                                                                         *)
(* handle() is started for every `environment:operation` event and         *)
(* checkPendingResults() every two seconds, none waiting for another: each *)
(* is a task, and every await in it is a point where the others may run.   *)
(***************************************************************************)
EXTENDS Naturals, FiniteSets, Functions

CONSTANTS Step,        \* the host steps the core asks for
          Task,        \* how many calls may be in flight at once (a bound)
          Strategies,  \* what Elevator.select may answer on this machine
          MaxRuns,     \* bound on the helper's runs of one step
          MaxCrashes,  \* bound on daemon crashes
          MaxOverlaps, \* bound on the calls that start a step beside another one
          MixAndGoOn,  \* bound: whether calls are started after two upserts interleaved
          None

ASSUME HostStepsAssumption ==
  /\ Strategies \subseteq {"root", "manual", "unavailable"}
  /\ MaxRuns \in Nat /\ MaxCrashes \in Nat /\ MaxOverlaps \in Nat
  /\ MixAndGoOn \in BOOLEAN
  /\ None \notin Step
  /\ IsFiniteSet(Task)

VARIABLES
  need,      \* [Step -> Need]: the core's operation, as far as this step goes
  receipt,   \* [Step -> Outcome]: what the receipt says the core has accepted
  requests,  \* steps with a request file
  results,   \* steps with a result file
  runs,      \* [Step -> Nat]: how often the helper has been run
  file,      \* journal.json
  tmp,       \* journal.json.tmp: a journal, or None
  strategy,  \* the elevation this daemon would use
  pc,        \* [Task -> Point]
  kind,      \* [Task -> Kind]: the call a task is executing
  step,      \* [Task -> Step or None]: the step a task is working on
  put,       \* [Task -> JState]: the state its upsert writes
  mem,       \* [Task -> Journal]: what its upsert has loaded
  seen,      \* [Task -> Journal]: what checkPendingResults is iterating over
  outcome,   \* [Task -> Outcome]: what the receipt it is to post will say
  to,        \* [Task -> Target]: what the file its upsert has open is called by now
  crashes,   \* daemon crashes so far
  cut,       \* history, [Step -> Nat]: crashes between Elevator.run and the `ran` of the journal
  overlaps,  \* history, [Step -> Nat]: calls that passed the lookup beside another one at work
  mixed      \* history: two upserts have interleaved

files == <<requests, results, runs, file, tmp>>
taskVars == <<pc, kind, step, put, mem, seen, outcome, to>>
histories == <<crashes, cut, overlaps, mixed>>
vars == <<need, receipt, files, strategy, taskVars, histories>>

Need == {"none", "pending", "foreign", "answered", "gone"}
JState == {"none", "requested", "pending-manual", "ran", "posted"}
Point == {"idle", "lookup", "request", "run", "post", "load", "open", "write", "rename", "next"}
Kind == {"none", "handle", "poll"}
Outcome == {"none", "failed", "result"}
Target == {"none", "tmp", "file", "gone"}

\* A journal: the state of each entry, and which entry stands before which.
Journal == [state : [Step -> JState], before : SUBSET (Step \X Step)]
EmptyJournal == [state |-> [s \in Step |-> "none"], before |-> {}]

\* Text of two upserts in one file, which is no JSON: load() finds no entries in it.
Torn == [state |-> [s \in Step |-> "none"], before |-> Step \X Step]

ASSUME NoneIsNoJournal == None \notin Journal

\* Mutant: upsert writes its own entry and forgets the others.
OnlyOwnEntry(j, s, st) ==
  [state |-> [r \in Step |-> IF r = s THEN st ELSE "none"], before |-> {}]

\* upsert: the old entry is filtered out, the new one pushed at the end.
Upserted(j, s, st) ==
  [state  |-> [j.state EXCEPT ![s] = st],
   before |-> {p \in j.before : p[1] # s /\ p[2] # s}
              \cup ({t \in Step \ {s} : j.state[t] # "none"} \X {s})]

TypeOK ==
  /\ need \in [Step -> Need]
  /\ receipt \in [Step -> Outcome]
  /\ requests \subseteq Step /\ results \subseteq Step
  /\ runs \in [Step -> Nat]
  /\ file \in Journal /\ tmp \in Journal \cup {None}
  /\ strategy \in Strategies
  /\ pc \in [Task -> Point] /\ kind \in [Task -> Kind]
  /\ step \in [Task -> Step \cup {None}]
  /\ put \in [Task -> JState]
  /\ mem \in [Task -> Journal] /\ seen \in [Task -> Journal]
  /\ outcome \in [Task -> Outcome] /\ to \in [Task -> Target]
  /\ crashes \in Nat /\ cut \in [Step -> Nat] /\ overlaps \in [Step -> Nat]
  /\ mixed \in BOOLEAN

Init ==
  /\ need = [s \in Step |-> "none"]
  /\ receipt = [s \in Step |-> "none"]
  /\ requests = {} /\ results = {}
  /\ runs = [s \in Step |-> 0]
  /\ file = EmptyJournal /\ tmp = None
  /\ strategy \in Strategies
  /\ pc = [t \in Task |-> "idle"] /\ kind = [t \in Task |-> "none"]
  /\ step = [t \in Task |-> None]
  /\ put = [t \in Task |-> "none"]
  /\ mem = [t \in Task |-> EmptyJournal] /\ seen = [t \in Task |-> EmptyJournal]
  /\ outcome = [t \in Task |-> "none"] /\ to = [t \in Task |-> "none"]
  /\ crashes = 0 /\ cut = [s \in Step |-> 0] /\ overlaps = [s \in Step |-> 0]
  /\ mixed = FALSE

-----------------------------------------------------------------------------
(* The core and the person (outside this repository).                      *)

\* An operation asks for the step: one of this daemon's core, or of another core.
Ask(s) ==
  /\ need[s] = "none"
  /\ \E whose \in {"pending", "foreign"} : need' = [need EXCEPT ![s] = whose]
  /\ UNCHANGED <<receipt, files, strategy, taskVars, histories>>

\* The operation is cancelled: no receipt will be accepted any more.
Cancel(s) ==
  /\ need[s] = "pending"
  /\ need' = [need EXCEPT ![s] = "gone"]
  /\ UNCHANGED <<receipt, files, strategy, taskVars, histories>>

\* runHostStepHelper in a process of its own, which may fail before it writes a result.
RunHelper(s) ==
  /\ runs[s] < MaxRuns
  /\ runs' = [runs EXCEPT ![s] = @ + 1]
  /\ results' = results \cup {s} \/ UNCHANGED results

\* Somebody runs the command `atc status` shows for a pending step, until it left a result.
RunByHand(s) ==
  /\ file.state[s] = "pending-manual" /\ s \notin results
  /\ RunHelper(s) /\ s \in results'
  /\ UNCHANGED <<need, receipt, requests, file, tmp, strategy, taskVars, histories>>

-----------------------------------------------------------------------------
(* Tasks.                                                                  *)

Goto(t, point) == pc' = [pc EXCEPT ![t] = point]

\* A finished task leaves nothing behind.
Return(t) ==
  /\ Goto(t, "idle")
  /\ kind' = [kind EXCEPT ![t] = "none"]
  /\ step' = [step EXCEPT ![t] = None]
  /\ put' = [put EXCEPT ![t] = "none"]
  /\ mem' = [mem EXCEPT ![t] = EmptyJournal]
  /\ seen' = [seen EXCEPT ![t] = EmptyJournal]
  /\ outcome' = [outcome EXCEPT ![t] = "none"]
  /\ UNCHANGED to

\* An `environment:operation` event with a pending step: handle().  It ignores the
\* operations of other cores.  (One of a core that is gone is taken over by the next.)
Handle(t, s) ==
  /\ pc[t] = "idle" /\ need[s] = "pending" /\ (mixed => MixAndGoOn)
  /\ Goto(t, "lookup")
  /\ kind' = [kind EXCEPT ![t] = "handle"]
  /\ step' = [step EXCEPT ![t] = s]
  /\ UNCHANGED <<need, receipt, files, strategy, put, mem, seen, outcome, to, histories>>

\* Calls of handle() for a step that have passed the lookup.
AtWork(s) == {u \in Task : kind[u] = "handle" /\ step[u] = s /\ pc[u] # "lookup"}

\* The bound on calls beside another one, all steps together.
OverlapAllowed == FoldFunction(+, 0, overlaps) < MaxOverlaps

\* handle() goes on to write the request.
GoOn(t) ==
  /\ IF AtWork(step[t]) = {} THEN UNCHANGED overlaps
     ELSE /\ OverlapAllowed
          /\ overlaps' = [overlaps EXCEPT ![step[t]] = @ + 1]
  /\ Goto(t, "request")
  /\ UNCHANGED <<kind, step, put, mem, seen, outcome, to>>

\* Mutant: the journal is not consulted.
NoLookup(t) ==
  /\ pc[t] = "lookup"
  /\ GoOn(t)
  /\ UNCHANGED <<need, receipt, files, strategy, crashes, cut, mixed>>

\* journal.load().find(...): done already, pending, refused by validateHostStep, or go.
Lookup(t) ==
  /\ pc[t] = "lookup"
  /\ \/ Return(t) /\ UNCHANGED overlaps
     \/ file.state[step[t]] \in {"none", "requested"} /\ GoOn(t)
  /\ UNCHANGED <<need, receipt, files, strategy, crashes, cut, mixed>>

\* Start an upsert of this task's step.
Upsert(t, st) ==
  /\ Goto(t, "load")
  /\ put' = [put EXCEPT ![t] = st]
  /\ UNCHANGED <<kind, step, mem, seen, to>>

WriteRequest(t) ==
  /\ pc[t] = "request"
  /\ requests' = requests \cup {step[t]}
  /\ Upsert(t, "requested")
  /\ UNCHANGED <<need, receipt, results, runs, file, tmp, strategy, outcome, histories>>

Upserting(t) == pc[t] \in {"open", "write", "rename"}

\* upsert(), first await: this.load().
Load(t) ==
  /\ pc[t] = "load"
  /\ mem' = [mem EXCEPT ![t] = IF file = Torn THEN EmptyJournal ELSE file]
  /\ mixed' = (mixed \/ \E u \in Task \ {t} : Upserting(u))
  /\ Goto(t, "open")
  /\ UNCHANGED <<kind, step, put, seen, outcome, to>>
  /\ UNCHANGED <<need, receipt, files, strategy, crashes, cut, overlaps>>

\* writeFile(tmp), first half: one temporary name for all, created or truncated.
OpenTmp(t) ==
  /\ pc[t] = "open"
  /\ tmp' = EmptyJournal
  /\ to' = [to EXCEPT ![t] = "tmp"]
  /\ Goto(t, "write")
  /\ UNCHANGED <<kind, step, put, mem, seen, outcome>>
  /\ UNCHANGED <<need, receipt, requests, results, runs, file, strategy, histories>>

\* Text written from the start of a file: what was longer in another text stays behind it.
WrittenOver(old, new) == {new} \cup (IF old \in {EmptyJournal, new} THEN {} ELSE {Torn})

\* Second half: the text goes into the file that was opened, whatever its name is now.
WriteTmp(t) ==
  /\ pc[t] = "write"
  /\ LET new == Upserted(mem[t], step[t], put[t]) IN
     \/ to[t] = "tmp" /\ tmp' \in WrittenOver(tmp, new) /\ UNCHANGED file
     \/ to[t] = "file" /\ file' \in WrittenOver(file, new) /\ UNCHANGED tmp
     \/ to[t] = "gone" /\ UNCHANGED <<file, tmp>>
  /\ to' = [to EXCEPT ![t] = "none"]
  /\ Goto(t, "rename")
  /\ UNCHANGED <<kind, step, put, mem, seen, outcome>>
  /\ UNCHANGED <<need, receipt, requests, results, runs, strategy, histories>>

\* Where the task goes on once its upsert is done.
After(t) ==
  IF put[t] = "requested" THEN "run"
  ELSE IF put[t] = "ran" THEN "post"
  ELSE IF put[t] = "posted" /\ kind[t] = "poll" THEN "next" ELSE "idle"

\* An open file keeps to its file when that is renamed.
Renamed(target) == IF target = "tmp" THEN "file" ELSE IF target = "file" THEN "gone" ELSE target

\* rename(tmp, path); it throws when another upsert has already renamed the file away.
Rename(t) ==
  /\ pc[t] = "rename"
  /\ IF tmp # None
     THEN /\ file' = tmp
          /\ tmp' = None
          /\ to' = [u \in Task |-> Renamed(to[u])]
          /\ Goto(t, After(t))
          /\ put' = [put EXCEPT ![t] = "none"]
          /\ mem' = [mem EXCEPT ![t] = EmptyJournal]
          /\ IF After(t) = "idle"
             THEN /\ kind' = [kind EXCEPT ![t] = "none"]
                  /\ step' = [step EXCEPT ![t] = None]
                  /\ seen' = [seen EXCEPT ![t] = EmptyJournal]
                  /\ outcome' = [outcome EXCEPT ![t] = "none"]
             ELSE UNCHANGED <<kind, step, seen, outcome>>
     ELSE Return(t) /\ UNCHANGED <<file, tmp>>
  /\ UNCHANGED <<need, receipt, requests, results, runs, strategy, histories>>

\* Elevator.run: as root the helper runs to its end, or cannot be started, and
\* whether there is a result to read afterwards or not, there is an outcome to report;
\* manual hands out the instructions; the strategies not implemented yet throw.
RunStep(t) ==
  /\ pc[t] = "run"
  /\ \/ /\ strategy = "root"
        /\ RunHelper(step[t]) \/ UNCHANGED <<runs, results>>
        /\ outcome' = [outcome EXCEPT ![t] = IF step[t] \in results' THEN "result" ELSE "failed"]
        /\ Upsert(t, "ran")
     \/ /\ strategy = "manual"
        /\ Upsert(t, "pending-manual")
        /\ UNCHANGED <<runs, results, outcome>>
     \/ /\ strategy = "unavailable"
        /\ Return(t)
        /\ UNCHANGED <<runs, results>>
  /\ UNCHANGED <<need, receipt, requests, file, tmp, strategy, histories>>

\* The core takes a receipt for a pending step, and recognises a repeated one.
Accept(s, out) ==
  /\ need[s] \in {"pending", "answered"}
  /\ need' = [need EXCEPT ![s] = "answered"]
  /\ receipt' = [receipt EXCEPT ![s] = IF @ = "none" THEN out ELSE @]

\* deps.post: accepted, or it throws and the task is over.
Post(t) ==
  /\ pc[t] = "post"
  /\ \/ Accept(step[t], outcome[t]) /\ Upsert(t, "posted") /\ outcome' = [outcome EXCEPT ![t] = "none"]
     \/ Return(t) /\ UNCHANGED <<need, receipt>>
  /\ UNCHANGED <<files, strategy, histories>>

-----------------------------------------------------------------------------
(* checkPendingResults().                                                  *)

PendingIn(j) == {s \in Step : j.state[s] = "pending-manual"}
Pending(j) == [state  |-> [s \in Step |-> IF s \in PendingIn(j) THEN j.state[s] ELSE "none"],
               before |-> j.before \cap (PendingIn(j) \X PendingIn(j))]

\* The timer: load the journal once and walk through its pending entries.
Poll(t) ==
  /\ pc[t] = "idle" /\ (mixed => MixAndGoOn)
  /\ PendingIn(file) # {}
  /\ Goto(t, "next")
  /\ kind' = [kind EXCEPT ![t] = "poll"]
  /\ seen' = [seen EXCEPT ![t] = Pending(file)]
  /\ UNCHANGED <<need, receipt, files, strategy, step, put, mem, outcome, to, histories>>

First(j, s) == s \in PendingIn(j) /\ \A r \in PendingIn(j) \ {s} : <<r, s>> \notin j.before
Rest(j, s) == [state  |-> [j.state EXCEPT ![s] = "none"],
               before |-> {p \in j.before : p[1] # s /\ p[2] # s}]

\* Mutant: a missing result file is not told from a result.
NextEntryUnread(t) ==
  /\ pc[t] = "next"
  /\ \/ PendingIn(seen[t]) = {} /\ Return(t)
     \/ \E s \in Step :
          /\ First(seen[t], s)
          /\ seen' = [seen EXCEPT ![t] = Rest(@, s)]
          /\ step' = [step EXCEPT ![t] = s]
          /\ outcome' = [outcome EXCEPT ![t] = "result"]
          /\ Goto(t, "post")
          /\ UNCHANGED <<kind, put, mem, to>>
  /\ UNCHANGED <<need, receipt, files, strategy, histories>>

\* Mutant: the walk ends at the first entry that has no result yet.
NextEntryOrStop(t) ==
  /\ pc[t] = "next"
  /\ \/ (\A s \in Step : First(seen[t], s) => s \notin results) /\ Return(t)
     \/ \E s \in results :
          /\ First(seen[t], s)
          /\ seen' = [seen EXCEPT ![t] = Rest(@, s)]
          /\ step' = [step EXCEPT ![t] = s]
          /\ outcome' = [outcome EXCEPT ![t] = "result"]
          /\ Goto(t, "post")
          /\ UNCHANGED <<kind, put, mem, to>>
  /\ UNCHANGED <<need, receipt, files, strategy, histories>>

\* readResult of the next entry: post its receipt, or pass on when there is none yet.
NextEntry(t) ==
  /\ pc[t] = "next"
  /\ \/ PendingIn(seen[t]) = {} /\ Return(t)
     \/ \E s \in Step :
          /\ First(seen[t], s)
          /\ seen' = [seen EXCEPT ![t] = Rest(@, s)]
          /\ IF s \in results
             THEN /\ step' = [step EXCEPT ![t] = s]
                  /\ outcome' = [outcome EXCEPT ![t] = "result"]
                  /\ Goto(t, "post")
             ELSE /\ step' = [step EXCEPT ![t] = None]
                  /\ UNCHANGED <<pc, outcome>>
          /\ UNCHANGED <<kind, put, mem, to>>
  /\ UNCHANGED <<need, receipt, files, strategy, histories>>

-----------------------------------------------------------------------------
\* The daemon dies and the next one starts: its tasks are gone, its files stay,
\* and its host facts are probed afresh.
Crash ==
  /\ crashes < MaxCrashes
  /\ crashes' = crashes + 1
  /\ strategy' \in Strategies
  /\ pc' = [t \in Task |-> "idle"] /\ kind' = [t \in Task |-> "none"]
  /\ step' = [t \in Task |-> None]
  /\ put' = [t \in Task |-> "none"]
  /\ mem' = [t \in Task |-> EmptyJournal] /\ seen' = [t \in Task |-> EmptyJournal]
  /\ outcome' = [t \in Task |-> "none"] /\ to' = [t \in Task |-> "none"]
  /\ cut' = [s \in Step |-> IF \E t \in Task : step[t] = s /\ put[t] = "ran" THEN cut[s] + 1 ELSE cut[s]]
  /\ UNCHANGED <<need, receipt, files, overlaps, mixed>>

TaskStep(t) ==
  \/ Lookup(t) \/ WriteRequest(t) \/ Load(t) \/ OpenTmp(t) \/ WriteTmp(t) \/ Rename(t)
  \/ RunStep(t) \/ Post(t) \/ NextEntry(t)

Next ==
  \/ \E s \in Step : Ask(s) \/ Cancel(s) \/ RunByHand(s)
  \/ \E t \in Task, s \in Step : Handle(t, s)
  \/ \E t \in Task : Poll(t) \/ TaskStep(t)
  \/ Crash

Spec == Init /\ [][Next]_vars

\* Started calls run on; the timer keeps firing; the core repeats its events while
\* it waits for a step; and it does take a receipt that is sent often enough.
FairSpec ==
  /\ Spec
  /\ \A t \in Task : /\ WF_vars(TaskStep(t))
                     /\ SF_vars(Poll(t))
                     /\ SF_vars(Post(t) /\ put'[t] = "posted")
                     /\ \A s \in Step : SF_vars(Handle(t, s))

-----------------------------------------------------------------------------
(* What holds however the calls interleave and whenever the daemon dies.   *)

Receipted(s) == receipt[s] # "none"

\* The core gets no receipt of a step that was never asked for, and none that reports a
\* result unless a helper has run and left one; and the helper never runs without its
\* request file.
NoReceiptWithoutRun ==
  \A s \in Step : /\ Receipted(s) => s \in requests
                  /\ receipt[s] = "result" => s \in results /\ runs[s] >= 1
                  /\ runs[s] >= 1 => s \in requests

\* The journal calls a step posted only when the core has its receipt, so
\* `duplicate` is never answered for a step that is still owed one.
PostedMeansReceipted ==
  \A s \in Step : file.state[s] = "posted" => Receipted(s)

(* What holds as long as no two upserts interleave, crashes or not.        *)

\* Every run of the helper for a step after the first has a cause of its own: a crash of
\* the daemon that kept `ran` out of the journal, or a call that found the journal at
\* `requested` while another one was at work.  A step that waits for a person, a refused
\* receipt, a late poll, a daemon that starts again: none of them runs it once more.
RerunsHaveACause ==
  ~mixed => \A s \in Step : runs[s] <= 1 + cut[s] + overlaps[s]

Rank(st) == IF st = "none" THEN 0 ELSE IF st = "requested" THEN 1 ELSE IF st = "posted" THEN 3 ELSE 2

\* Nobody has interfered with the calls for a step.
Apart(s) == ~mixed /\ overlaps[s] = 0

\* No entry is lost and none goes back to an earlier state, as long as the step has one
\* call at a time.
JournalOnlyAdvances ==
  [][\A s \in Step : Apart(s)' => Rank(file'.state[s]) >= Rank(file.state[s])]_vars

Result(s) == file.state[s] = "pending-manual" /\ s \in results /\ need[s] = "pending"

\* A pending entry whose operation has been cancelled: the poll posts in vain and ends there.
Blocked(s) == \E r \in Step \ {s} : file.state[r] = "pending-manual" /\ need[r] = "gone"

\* A result a person has left beside the request is turned into a receipt, across a
\* restart too, however many other steps are pending, unless a cancelled one is among
\* them.  (Overlapping calls may throw each other out of upsert for ever.)
ManualResultIsPosted ==
  \A s \in Step : Result(s) ~> (Receipted(s) \/ need[s] = "gone" \/ ~Apart(s) \/ Blocked(s))

-----------------------------------------------------------------------------
(* What the comments say and the code does not do.                         *)

\* "safe to call for every `environment:operation` event"
HelperRunsOnce == \A s \in Step : runs[s] <= 1

\* "a crash between the helper and the receipt ... is repaired on the next start rather
\* than repeated": it is repeated when the journal still says `requested`.
RepairedNotRepeated == \A s \in Step : Apart(s) => runs[s] <= 1

\* "The journal is written before anything runs"
JournalledBeforeRun == \A s \in Step : runs[s] >= 1 => file.state[s] # "none"

\* "the 2-second poll posts the receipt when the result file appears"
EveryResultIsPosted == \A s \in Step : Result(s) ~> (Receipted(s) \/ need[s] = "gone" \/ ~Apart(s))

\* "a crash between the helper and the receipt ... is repaired on the next start": not
\* when the journal says `ran`.
RanIsReceipted ==
  \A s \in Step : (file.state[s] = "ran") ~> (Receipted(s) \/ need[s] = "gone")

=============================================================================
