--------------------------- MODULE AdminAccessProofs ---------------------------
(***************************************************************************)
(* Old links stop, printed links keep working, and the browser is signed   *)
(* in for as long as it uses its session: for any number of uses of the    *)
(* token file at once, of tokens, and of ticks. And what the admin does    *)
(* with the requests of its own page, for any engines and ids of models.   *)
(***************************************************************************)
EXTENDS AdminAccess, SequenceTheorems, TLAPS

\* Tokens are numbered in their order, and the one in the file is not a retired one.
TokensInv ==
  /\ token <= minted /\ (Readable => token > 0)
  /\ printed \subseteq 1..minted /\ retired \subseteq printed
  /\ token \notin retired

\* While a settled link is kept, the file holds its token and nobody is writing another.
SettledInv ==
  settled # {} => Readable /\ settled = {token} /\ \A t \in Task : ~Writing(t)

\* What a rotation retires was printed, and is no longer in the file when it is done.
TasksInv ==
  \A t \in Task :
    /\ task[t].tok <= minted /\ task[t].olds \subseteq printed
    /\ task[t].at \in {"peek", "read"} => task[t].olds = {}
    /\ task[t].at \in {"open", "write", "done"} => task[t].tok > 0
    /\ task[t].at = "done" => token \notin task[t].olds

\* A token that is being written is nobody else's: not printed, not in the file, not read.
WritersInv ==
  \A t \in Task : Writing(t) =>
    /\ task[t].tok \notin printed \cup {token}
    /\ \A u \in Task \ {t} : task[u].tok # task[t].tok

\* What a login compares the presented token with: never that one if it was retired when the
\* login began, and always that one if it is the file's.
PresentersInv ==
  \A t \in Task : task[t].kind \in {"login", "bearer"} =>
    /\ task[t].arg \in printed
    /\ task[t].old => task[t].arg \in retired
    /\ task[t].at = "done" =>
         /\ task[t].old => task[t].tok # task[t].arg
         /\ token = task[t].arg => task[t].tok = task[t].arg

TokenInv == TypeOK /\ TokensInv /\ SettledInv /\ TasksInv /\ WritersInv /\ PresentersInv

\* The store's age of the session is the time since its last use, or both are too long; a
\* session of an earlier daemon is in no store.
SessionInv ==
  cookie => IF restarted THEN age > Idle ELSE age = unused \/ (age > Idle /\ unused > Idle)

-----------------------------------------------------------------------------
(* Types.                                                                  *)

\* The kinds and the awaits of a task. (They are cited rather than expanded.)
LEMMA NamesAreKnown ==
  /\ "none" \in Kinds /\ "start" \in Kinds /\ "open" \in Kinds /\ "token" \in Kinds
  /\ "rotate" \in Kinds /\ "login" \in Kinds /\ "bearer" \in Kinds
  /\ "idle" \in Awaits /\ "peek" \in Awaits /\ "read" \in Awaits /\ "open" \in Awaits
  /\ "write" \in Awaits /\ "done" \in Awaits
  BY DEF Kinds, Awaits

LEMMA UnusedIsATask == Unused \in TaskState
  BY NamesAreKnown, AccessAssumption DEF Unused, TaskState, AccessAssumption

\* What GoTo, Begin and End leave is a task.
LEMMA TaskUpdates ==
  ASSUME TypeOK, NEW t \in Task
  PROVE  /\ \A at \in Awaits, tok \in 0..MaxToken : GoTo(t, at, tok) => task' \in [Task -> TaskState]
         /\ \A kind \in Kinds, at \in Awaits, arg \in 0..MaxToken :
              Begin(t, kind, at, arg) => task' \in [Task -> TaskState]
         /\ End(t) => task' \in [Task -> TaskState]
<1> USE AccessAssumption DEF AccessAssumption
<1>0. task \in [Task -> TaskState] /\ task[t] \in TaskState
  BY DEF TypeOK
<1>1. ASSUME NEW at \in Awaits, NEW tok \in 0..MaxToken, GoTo(t, at, tok)
      PROVE  task' \in [Task -> TaskState]
  <2>1. [task[t] EXCEPT !.at = at, !.tok = tok] \in TaskState
    BY <1>0 DEF TaskState
  <2>2. task' = [task EXCEPT ![t] = [task[t] EXCEPT !.at = at, !.tok = tok]]
    BY <1>0, <1>1 DEF GoTo, TaskState
  <2> QED
    BY <2>1, <2>2, <1>0
<1>2. ASSUME NEW kind \in Kinds, NEW at \in Awaits, NEW arg \in 0..MaxToken, Begin(t, kind, at, arg)
      PROVE  task' \in [Task -> TaskState]
  <2>1. [kind |-> kind, at |-> at, tok |-> 0, arg |-> arg, old |-> arg \in retired, olds |-> {}] \in TaskState
    BY DEF TaskState
  <2> QED
    BY <2>1, <1>0, <1>2 DEF Begin
<1>3. End(t) => task' \in [Task -> TaskState]
  BY <1>0, UnusedIsATask DEF End
<1> QED
  BY <1>1, <1>2, <1>3

\* Every variable keeps its type.
THEOREM TypeCorrect == Spec => []TypeOK
<1> USE AccessAssumption DEF AccessAssumption
<1>1. Init => TypeOK
  <2> SUFFICES ASSUME Init PROVE TypeOK
    OBVIOUS
  <2>1. task \in [Task -> TaskState]
    BY UnusedIsATask DEF Init
  <2>2. token \in 0..MaxToken /\ minted \in 0..MaxToken
    BY DEF Init
  <2>3. cookie \in BOOLEAN /\ restarted \in BOOLEAN
    BY DEF Init
  <2>5. age \in 0..Forgotten /\ unused \in 0..(Idle + 1)
    BY DEF Init, Forgotten
  <2>4. /\ file \in {"none", "empty", "token"} /\ server \in {"down", "starting", "up"}
        /\ printed = {} /\ retired = {} /\ settled = {}
    BY DEF Init
  <2> QED
    BY <2>1, <2>2, <2>3, <2>4, <2>5 DEF TypeOK
<1>2. TypeOK /\ [Next]_vars => TypeOK'
  <2> SUFFICES ASSUME TypeOK, [Next]_vars PROVE TypeOK'
    OBVIOUS
  <2>1. task' \in [Task -> TaskState] /\ minted' \in 0..MaxToken
    <3> USE TaskUpdates, NamesAreKnown
    <3>0. /\ task \in [Task -> TaskState] /\ minted \in 0..MaxToken /\ token \in 0..MaxToken
          /\ printed \subseteq 0..MaxToken
          /\ \A t \in Task : task[t].tok \in 0..MaxToken
      BY DEF TypeOK, TaskState
    <3>1. ASSUME NEW t \in Task, FileStep(t)
          PROVE  task' \in [Task -> TaskState] /\ minted' \in 0..MaxToken
      BY <3>0, <3>1 DEF FileStep, Peek, Read, Open, Write, fileVars
    <3>2. ASSUME NEW t \in Task, StartCommand(t) \/ PrintToken(t) \/ Kill(t)
          PROVE  task' \in [Task -> TaskState] /\ minted' \in 0..MaxToken
      BY <3>0, <3>2 DEF StartCommand, PrintToken, Kill, fileVars
    <3>3. ASSUME NEW t \in Task, StartRotation(t)
          PROVE  task' \in [Task -> TaskState] /\ minted' \in 0..MaxToken
      <4>1. minted + 1 \in 0..MaxToken
        BY <3>0, <3>3 DEF StartRotation
      <4>2. [Unused EXCEPT !.kind = "rotate", !.at = "open", !.tok = minted + 1, !.olds = printed] \in TaskState
        BY <4>1, <3>0, "rotate" \in Kinds, "open" \in Awaits, UnusedIsATask DEF TaskState
      <4> QED
        BY <3>0, <3>3, <4>1, <4>2 DEF StartRotation
    <3>4. ASSUME NEW t \in Task, DaemonStep(t)
          PROVE  task' \in [Task -> TaskState] /\ minted' \in 0..MaxToken
      <4>1. Listen(t) \/ Login(t) \/ Bearer(t) => End(t)
        BY DEF Listen, Login, Bearer
      <4>2. StartServer(t) => Begin(t, "start", "read", 0)
        BY DEF StartServer
      <4>4. Present(t) => task' \in [Task -> TaskState]
        BY <3>0 DEF Present
      <4>3. minted' = minted
        BY <3>4 DEF DaemonStep, StartServer, Listen, Present, Login, Bearer, fileVars
      <4> QED
        BY <3>0, <3>4, <4>1, <4>2, <4>3, <4>4 DEF DaemonStep
    <3>5. CASE ServerGone
      BY <3>0, <3>5, UnusedIsATask DEF ServerGone, fileVars
    <3>6. CASE PageCall \/ Unreachable \/ SignOut \/ Reload \/ Tick \/ UNCHANGED vars
      BY <3>0, <3>6 DEF PageCall, Unreachable, SignOut, Reload, Tick, vars, fileVars
    <3> QED
      BY <3>1, <3>2, <3>3, <3>4, <3>5, <3>6 DEF Next, CommandStep
  <2>2. /\ file' \in {"none", "empty", "token"} /\ token' \in 0..MaxToken
        /\ server' \in {"down", "starting", "up"}
    <3> DEFINE Fine == /\ file \in {"none", "empty", "token"} /\ token \in 0..MaxToken
                       /\ server \in {"down", "starting", "up"}
    <3> USE DEF fileVars
    <3>0. Fine /\ \A t \in Task : task[t].tok \in 0..MaxToken
      BY DEF TypeOK, TaskState
    <3>1. ASSUME NEW t \in Task, FileStep(t) PROVE Fine'
      BY <3>0, <3>1 DEF FileStep, Peek, Read, Open, Write
    <3>2. ASSUME NEW t \in Task, CommandStep(t) PROVE Fine'
      BY <3>0, <3>2 DEF CommandStep, StartCommand, StartRotation, PrintToken, Kill
    <3>3. ASSUME NEW t \in Task, DaemonStep(t) PROVE Fine'
      BY <3>0, <3>3 DEF DaemonStep, StartServer, Listen, Present, Login, Bearer
    <3>4. CASE ServerGone \/ PageCall \/ Unreachable \/ SignOut \/ Reload \/ Tick \/ UNCHANGED vars
      BY <3>0, <3>4 DEF ServerGone, PageCall, Unreachable, SignOut, Reload, Tick, vars
    <3> QED
      BY <3>1, <3>2, <3>3, <3>4 DEF Next
  <2>3. cookie' \in BOOLEAN /\ restarted' \in BOOLEAN
    <3>1. ASSUME NEW t \in Task, FileStep(t) \/ CommandStep(t) PROVE UNCHANGED sessionVars
      BY <3>1 DEF FileStep, Peek, Read, Open, Write,
                  CommandStep, StartCommand, StartRotation, PrintToken, Kill
    <3>2. ASSUME NEW t \in Task, DaemonStep(t)
          PROVE  UNCHANGED sessionVars \/ (cookie' = TRUE /\ restarted' = FALSE)
      BY <3>2 DEF DaemonStep, StartServer, Listen, Present, Login, Bearer
    <3>3. CASE ServerGone \/ PageCall \/ Unreachable \/ SignOut \/ Reload \/ Tick \/ UNCHANGED vars
      BY <3>3 DEF ServerGone, PageCall, Unreachable, SignOut, Reload, Tick, vars, sessionVars, TypeOK
    <3> QED
      BY <3>1, <3>2, <3>3 DEF Next, sessionVars, TypeOK
  <2>4. age' \in 0..Forgotten /\ unused' \in 0..(Idle + 1)
    <3> USE DEF Forgotten
    <3>0. age \in 0..Forgotten /\ unused \in 0..(Idle + 1)
      BY DEF TypeOK
    <3>1. ASSUME NEW t \in Task, FileStep(t) \/ CommandStep(t) PROVE UNCHANGED <<age, unused>>
      BY <3>1 DEF FileStep, Peek, Read, Open, Write,
                  CommandStep, StartCommand, StartRotation, PrintToken, Kill, sessionVars
    <3>2. ASSUME NEW t \in Task, DaemonStep(t) PROVE UNCHANGED <<age, unused>> \/ (age' = 0 /\ unused' = 0)
      BY <3>2 DEF DaemonStep, StartServer, Listen, Present, Login, Bearer, sessionVars
    <3>3. CASE ServerGone \/ Unreachable \/ SignOut \/ Reload \/ UNCHANGED vars
      <4>1. age' \in {age, Forgotten} /\ unused' \in {unused, 0}
        BY <3>3 DEF ServerGone, Unreachable, SignOut, Reload, vars, sessionVars
      <4> QED
        BY <3>0, <4>1
    <3>4. CASE PageCall
      <4>1. age' \in {age, 0, Forgotten} /\ unused' \in {unused, 0}
        BY <3>4 DEF PageCall, Touch
      <4> QED
        BY <3>0, <4>1
    <3>5. CASE Tick
      BY <3>0, <3>5 DEF Tick
    <3> QED
      BY <3>0, <3>1, <3>2, <3>3, <3>4, <3>5 DEF Next
  <2>5. printed' \subseteq 0..MaxToken /\ retired' \subseteq 0..MaxToken /\ settled' \subseteq 0..MaxToken
    <3> DEFINE Fine == /\ printed \subseteq 0..MaxToken /\ retired \subseteq 0..MaxToken
                       /\ settled \subseteq 0..MaxToken
    <3> USE DEF printVars
    <3>0. Fine /\ token \in 0..MaxToken
          /\ \A t \in Task : task[t].tok \in 0..MaxToken /\ task[t].olds \subseteq 0..MaxToken
      BY DEF TypeOK, TaskState
    <3>1. ASSUME NEW t \in Task, FileStep(t) PROVE Fine'
      BY <3>0, <3>1 DEF FileStep, Peek, Read, Open, Write
    <3>2. ASSUME NEW t \in Task, CommandStep(t) PROVE Fine'
      BY <3>0, <3>2 DEF CommandStep, StartCommand, StartRotation, PrintToken, Kill
    <3>3. ASSUME NEW t \in Task, DaemonStep(t) PROVE Fine'
      BY <3>0, <3>3 DEF DaemonStep, StartServer, Listen, Present, Login, Bearer
    <3>4. CASE ServerGone \/ PageCall \/ Unreachable \/ SignOut \/ Reload \/ Tick \/ UNCHANGED vars
      BY <3>0, <3>4 DEF ServerGone, PageCall, Unreachable, SignOut, Reload, Tick, vars
    <3> QED
      BY <3>1, <3>2, <3>3, <3>4 DEF Next
  <2> QED
    BY <2>1, <2>2, <2>3, <2>4, <2>5 DEF TypeOK
<1> QED
  BY <1>1, <1>2, PTL DEF Spec

-----------------------------------------------------------------------------
(* The token file.                                                         *)

\* A task that has just begun with no token: a reader, and no rotation.
Beginning(s) ==
  /\ s.tok = 0 /\ s.olds = {} /\ s.at \in {"peek", "read"}
  /\ s.kind \in {"login", "bearer"} => s.arg \in printed /\ (s.old => s.arg \in retired)

\* A step that leaves the files and the printed tokens alone and begins or ends tasks.
TasksComeAndGo ==
  /\ UNCHANGED <<file, token, minted, printed, retired, settled>>
  /\ \A t \in Task : task'[t] = task[t] \/ task'[t] = Unused \/ Beginning(task'[t])

LEMMA WhatComesAndGoes ==
  ASSUME TokenInv, [Next]_vars
  PROVE  \/ TasksComeAndGo
         \/ \E t \in Task : Peek(t) \/ Read(t) \/ Open(t) \/ Write(t) \/ StartRotation(t) \/ PrintToken(t)
<1> USE DEF fileVars, printVars
<1>0. task \in [Task -> TaskState] /\ 0 \notin retired
  BY DEF TokenInv, TypeOK, TokensInv
<1>1. ASSUME NEW t \in Task, Kill(t) \/ Listen(t) \/ Login(t) \/ Bearer(t) PROVE TasksComeAndGo
  <2>1. UNCHANGED <<file, token, minted, printed, retired, settled>> /\ End(t)
    BY <1>1 DEF Kill, Listen, Login, Bearer
  <2> QED
    BY <2>1, <1>0 DEF TasksComeAndGo, End
<1>2. ASSUME NEW t \in Task, StartCommand(t) \/ StartServer(t) \/ Present(t) PROVE TasksComeAndGo
  <2>1. /\ UNCHANGED <<file, token, minted, printed, retired, settled>>
        /\ \E kind \in Kinds, at \in {"peek", "read"}, arg \in {0} \cup printed :
             Begin(t, kind, at, arg) /\ (kind \in {"login", "bearer"} => arg \in printed)
    <3>1. UNCHANGED <<file, token, minted, printed, retired, settled>>
      BY <1>2 DEF StartCommand, StartServer, Present
    <3>2. StartCommand(t) => Begin(t, "open", "read", 0) \/ Begin(t, "token", "peek", 0)
      BY DEF StartCommand
    <3>3. StartServer(t) => Begin(t, "start", "read", 0)
      BY DEF StartServer
    <3>4. Present(t) => \E arg \in printed : Begin(t, "login", "read", arg) \/ Begin(t, "bearer", "read", arg)
      BY DEF Present
    <3> QED
      BY <1>2, <3>1, <3>2, <3>3, <3>4, NamesAreKnown
  <2>2. PICK kind \in Kinds, at \in {"peek", "read"}, arg \in {0} \cup printed :
          Begin(t, kind, at, arg) /\ (kind \in {"login", "bearer"} => arg \in printed)
    BY <2>1
  <2>3. Beginning(task'[t]) /\ \A u \in Task \ {t} : task'[u] = task[u]
    BY <2>2, <1>0 DEF Begin, Beginning
  <2> QED
    BY <2>1, <2>3 DEF TasksComeAndGo
<1>3. CASE ServerGone
  BY <1>3 DEF ServerGone, TasksComeAndGo
<1>4. CASE PageCall \/ Unreachable \/ SignOut \/ Reload \/ Tick \/ UNCHANGED vars
  BY <1>4 DEF PageCall, Unreachable, SignOut, Reload, Tick, vars, TasksComeAndGo
<1> QED
  BY <1>1, <1>2, <1>3, <1>4 DEF Next, FileStep, CommandStep, DaemonStep

LEMMA ComingAndGoingKeeps ==
  ASSUME TokenInv, TasksComeAndGo
  PROVE  TokensInv' /\ SettledInv' /\ TasksInv' /\ WritersInv' /\ PresentersInv'
<1>1. TokensInv'
  BY DEF TokenInv, TokensInv, TasksComeAndGo, Readable
<1>2. SettledInv'
  BY DEF TokenInv, SettledInv, TasksComeAndGo, Readable, Writing, Beginning, Unused
<1>3. TasksInv'
  BY DEF TokenInv, TypeOK, TokensInv, TasksInv, TasksComeAndGo, Beginning, Unused
<1>4. WritersInv'
  BY DEF TokenInv, TasksInv, WritersInv, TasksComeAndGo, Writing, Beginning, Unused
<1>5. PresentersInv'
  BY DEF TokenInv, PresentersInv, TasksComeAndGo, Beginning, Unused
<1> QED
  BY <1>1, <1>2, <1>3, <1>4, <1>5

\* Steps of one task leave the others' alone.
LEMMA OthersStay ==
  ASSUME TypeOK, NEW t \in Task, NEW s, task' = [task EXCEPT ![t] = s]
  PROVE  task'[t] = s /\ \A u \in Task \ {t} : task'[u] = task[u]
  BY DEF TypeOK

\* One goes on with the token of the file, or without any.
LEMMA FindingKeeps ==
  ASSUME TokenInv, NEW t \in Task, task[t].at \in {"peek", "read"},
         UNCHANGED <<file, token, minted, printed, retired, settled>>,
         \/ Readable /\ GoTo(t, "done", token)
         \/ GoTo(t, "read", 0)
  PROVE  TokensInv' /\ SettledInv' /\ TasksInv' /\ WritersInv' /\ PresentersInv'
<1>0. /\ task \in [Task -> TaskState] /\ task[t] \in TaskState /\ token \in Nat
      /\ \A u \in Task \ {t} : task'[u] = task[u]
  BY DEF TokenInv, TypeOK, GoTo
<1>1. /\ task'[t].kind = task[t].kind /\ task'[t].arg = task[t].arg /\ task'[t].old = task[t].old
      /\ task'[t].olds = task[t].olds
      /\ \/ Readable /\ task'[t].at = "done" /\ task'[t].tok = token
         \/ task'[t].at = "read" /\ task'[t].tok = 0
  BY <1>0 DEF GoTo, TaskState
<1>2. TokensInv'
  BY DEF TokenInv, TokensInv, Readable
<1>3. SettledInv'
  BY <1>0, <1>1 DEF TokenInv, SettledInv, Readable, Writing
<1>4. TasksInv'
  BY <1>0, <1>1 DEF TokenInv, TypeOK, TokensInv, TasksInv
<1>5. WritersInv'
  BY <1>0, <1>1 DEF TokenInv, TasksInv, WritersInv, Writing
<1>6. PresentersInv'
  BY <1>0, <1>1 DEF TokenInv, TokensInv, PresentersInv
<1> QED
  BY <1>2, <1>3, <1>4, <1>5, <1>6

\* One makes a token: nobody has it yet.
LEMMA MintingKeeps ==
  ASSUME TokenInv, NEW t \in Task, minted' = minted + 1,
         UNCHANGED <<file, token, printed, retired>>,
         \A u \in Task \ {t} : task'[u] = task[u],
         task'[t].at = "open", task'[t].tok = minted + 1,
         task'[t].olds \subseteq printed, settled' = {},
         task'[t].kind \in {"login", "bearer"} =>
           task'[t].arg \in printed /\ (task'[t].old => task'[t].arg \in retired)
  PROVE  TokensInv' /\ SettledInv' /\ TasksInv' /\ WritersInv' /\ PresentersInv'
<1>0. minted \in Nat /\ token \in Nat /\ \A u \in Task : task[u].tok \in Nat
  BY DEF TokenInv, TypeOK, TaskState
<1>1. TokensInv'
  BY <1>0 DEF TokenInv, TokensInv, Readable
<1>2. SettledInv'
  BY DEF SettledInv
<1>3. TasksInv'
  BY <1>0 DEF TokenInv, TasksInv
<1>4. WritersInv'
  <2>1. minted + 1 \notin printed \cup {token} /\ \A u \in Task : task[u].tok # minted + 1
    BY <1>0 DEF TokenInv, TokensInv, TasksInv
  <2> QED
    BY <2>1 DEF TokenInv, WritersInv, Writing
<1>5. PresentersInv'
  BY DEF TokenInv, PresentersInv
<1> QED
  BY <1>1, <1>2, <1>3, <1>4, <1>5

LEMMA OpenKeeps ==
  ASSUME TokenInv, NEW t \in Task, Open(t)
  PROVE  TokensInv' /\ SettledInv' /\ TasksInv' /\ WritersInv' /\ PresentersInv'
<1>0. /\ UNCHANGED <<token, minted, printed, retired, settled>> /\ file' = "empty"
      /\ task[t].at = "open" /\ GoTo(t, "write", task[t].tok)
  BY DEF Open, printVars
<1>1. /\ task \in [Task -> TaskState] /\ task[t] \in TaskState
      /\ \A u \in Task \ {t} : task'[u] = task[u]
  BY <1>0 DEF TokenInv, TypeOK, GoTo
<1>2. /\ task'[t].kind = task[t].kind /\ task'[t].arg = task[t].arg /\ task'[t].old = task[t].old
      /\ task'[t].olds = task[t].olds /\ task'[t].at = "write" /\ task'[t].tok = task[t].tok
  BY <1>0, <1>1 DEF GoTo, TaskState
<1>3. TokensInv'
  BY <1>0 DEF TokenInv, TokensInv, Readable
<1>4. SettledInv'
  BY <1>0 DEF TokenInv, SettledInv, Writing
<1>5. TasksInv'
  BY <1>0, <1>1, <1>2 DEF TokenInv, TasksInv
<1>6. WritersInv'
  BY <1>0, <1>1, <1>2 DEF TokenInv, WritersInv, Writing
<1>7. PresentersInv'
  BY <1>0, <1>1, <1>2 DEF TokenInv, PresentersInv
<1> QED
  BY <1>3, <1>4, <1>5, <1>6, <1>7

\* What is written was nobody else's, so that no rotation that has been done retires it and no
\* login presents it.
LEMMA WriteKeeps ==
  ASSUME TokenInv, NEW t \in Task, Write(t)
  PROVE  TokensInv' /\ SettledInv' /\ TasksInv' /\ WritersInv' /\ PresentersInv'
<1>0. /\ UNCHANGED <<minted, printed, retired, settled>> /\ file' = "token" /\ token' = task[t].tok
      /\ task[t].at = "write" /\ GoTo(t, "done", task[t].tok)
  BY DEF Write, printVars
<1>1. /\ task \in [Task -> TaskState] /\ task[t] \in TaskState
      /\ \A u \in Task \ {t} : task'[u] = task[u]
  BY <1>0 DEF TokenInv, TypeOK, GoTo
<1>2. /\ task'[t].kind = task[t].kind /\ task'[t].arg = task[t].arg /\ task'[t].old = task[t].old
      /\ task'[t].olds = task[t].olds /\ task'[t].at = "done" /\ task'[t].tok = task[t].tok
  BY <1>0, <1>1 DEF GoTo, TaskState
<1>3. /\ token' \notin printed /\ token' <= minted /\ token' > 0
      /\ \A u \in Task \ {t} : task[u].tok # token'
  BY <1>0 DEF TokenInv, TasksInv, WritersInv, Writing
<1>4. TokensInv'
  BY <1>0, <1>3 DEF TokenInv, TokensInv
<1>5. SettledInv'
  BY <1>0 DEF TokenInv, SettledInv, Writing
<1>6. TasksInv'
  BY <1>0, <1>1, <1>2, <1>3 DEF TokenInv, TasksInv
<1>7. WritersInv'
  BY <1>0, <1>1, <1>2, <1>3 DEF TokenInv, WritersInv, Writing
<1>8. PresentersInv'
  BY <1>0, <1>1, <1>2, <1>3 DEF TokenInv, TokensInv, PresentersInv
<1> QED
  BY <1>4, <1>5, <1>6, <1>7, <1>8

\* What is printed is in nobody's hands to be written, and what it retires is not in the file.
LEMMA PrintKeeps ==
  ASSUME TokenInv, NEW t \in Task, PrintToken(t)
  PROVE  TokensInv' /\ SettledInv' /\ TasksInv' /\ WritersInv' /\ PresentersInv'
<1>0. /\ UNCHANGED <<file, token, minted>> /\ task[t].at = "done"
      /\ printed' = printed \cup {task[t].tok} /\ retired' = retired \cup task[t].olds
      /\ \/ settled' = settled
         \/ /\ Readable /\ token = task[t].tok /\ settled' = settled \cup {token}
            /\ \A u \in Task : ~Writing(u)
      /\ task' = [task EXCEPT ![t] = Unused]
  BY DEF PrintToken, fileVars, End, Readable
<1>1. task'[t] = Unused /\ \A u \in Task \ {t} : task'[u] = task[u]
  BY <1>0 DEF TokenInv, TypeOK
<1>2. TokensInv'
  <2>1. task[t].tok \in 1..minted /\ task[t].olds \subseteq printed /\ token \notin task[t].olds
    BY <1>0 DEF TokenInv, TypeOK, TaskState, TasksInv
  <2> QED
    BY <1>0, <2>1 DEF TokenInv, TokensInv, Readable
<1>3. SettledInv'
  BY <1>0, <1>1 DEF TokenInv, SettledInv, Readable, Writing, Unused
<1>4. TasksInv'
  BY <1>0, <1>1 DEF TokenInv, TypeOK, TasksInv, Unused
<1>5. WritersInv'
  <2>1. \A u \in Task \ {t} : Writing(u) => task[u].tok # task[t].tok
    BY DEF TokenInv, WritersInv
  <2>2. \A u \in Task : Writing(u) => task[u].tok > 0
    BY DEF TokenInv, TasksInv, Writing
  <2> QED
    BY <1>0, <1>1, <2>1, <2>2 DEF TokenInv, WritersInv, Writing, Unused
<1>6. PresentersInv'
  BY <1>0, <1>1 DEF TokenInv, PresentersInv, Unused
<1> QED
  BY <1>2, <1>3, <1>4, <1>5, <1>6

\* The invariant of the token file and of those who use it.
THEOREM TokensInductive == Spec => []TokenInv
<1>1. Init => TokensInv /\ SettledInv /\ TasksInv /\ WritersInv /\ PresentersInv
  <2> SUFFICES ASSUME Init PROVE TokensInv /\ SettledInv /\ TasksInv /\ WritersInv /\ PresentersInv
    OBVIOUS
  <2>1. \A t \in Task : task[t] = Unused
    BY DEF Init
  <2>2. TokensInv
    BY DEF Init, TokensInv, Readable
  <2>3. SettledInv
    BY DEF Init, SettledInv
  <2>4. TasksInv
    BY <2>1 DEF Init, TasksInv, Unused
  <2>5. WritersInv /\ PresentersInv
    BY <2>1 DEF WritersInv, PresentersInv, Writing, Unused
  <2> QED
    BY <2>2, <2>3, <2>4, <2>5
<1>2. TokenInv /\ [Next]_vars => TokensInv' /\ SettledInv' /\ TasksInv' /\ WritersInv' /\ PresentersInv'
  <2> SUFFICES ASSUME TokenInv, [Next]_vars
               PROVE  TokensInv' /\ SettledInv' /\ TasksInv' /\ WritersInv' /\ PresentersInv'
    OBVIOUS
  <2>1. CASE TasksComeAndGo
    BY <2>1, ComingAndGoingKeeps
  <2>2. ASSUME NEW t \in Task, Peek(t)
        PROVE  TokensInv' /\ SettledInv' /\ TasksInv' /\ WritersInv' /\ PresentersInv'
    BY <2>2, FindingKeeps DEF Peek, fileVars, printVars
  <2>3. ASSUME NEW t \in Task, Read(t)
        PROVE  TokensInv' /\ SettledInv' /\ TasksInv' /\ WritersInv' /\ PresentersInv'
    <3>1. CASE Readable
      BY <2>3, <3>1, FindingKeeps DEF Read, printVars
    <3>2. CASE ~Readable
      <4>1. /\ task[t].at = "read" /\ minted' = minted + 1 /\ GoTo(t, "open", minted + 1)
            /\ UNCHANGED <<file, token, printed, retired, settled>>
        BY <2>3, <3>2 DEF Read, printVars
      <4>2. settled = {}
        BY <3>2 DEF TokenInv, SettledInv
      <4>3. task \in [Task -> TaskState] /\ task[t] \in TaskState
        BY DEF TokenInv, TypeOK
      <4>4. \A u \in Task \ {t} : task'[u] = task[u]
        BY <4>1, <4>3 DEF GoTo
      <4>5. /\ task'[t].at = "open" /\ task'[t].tok = minted + 1 /\ task'[t].olds = task[t].olds
            /\ task'[t].kind = task[t].kind /\ task'[t].arg = task[t].arg /\ task'[t].old = task[t].old
        BY <4>1, <4>3 DEF GoTo, TaskState
      <4>6. task[t].olds \subseteq printed
        BY DEF TokenInv, TasksInv
      <4>7. task[t].kind \in {"login", "bearer"} =>
              task[t].arg \in printed /\ (task[t].old => task[t].arg \in retired)
        BY DEF TokenInv, PresentersInv
      <4> QED
        BY <4>1, <4>2, <4>4, <4>5, <4>6, <4>7, MintingKeeps
    <3> QED
      BY <3>1, <3>2
  <2>4. ASSUME NEW t \in Task, StartRotation(t)
        PROVE  TokensInv' /\ SettledInv' /\ TasksInv' /\ WritersInv' /\ PresentersInv'
    <3>1. /\ minted' = minted + 1 /\ UNCHANGED <<file, token, printed, retired>> /\ settled' = {}
          /\ task' = [task EXCEPT ![t] = [Unused EXCEPT !.kind = "rotate", !.at = "open", !.tok = minted + 1,
                                                        !.olds = printed]]
      BY <2>4 DEF StartRotation
    <3>2. /\ task'[t].at = "open" /\ task'[t].tok = minted + 1 /\ task'[t].olds = printed
          /\ task'[t].kind = "rotate" /\ \A u \in Task \ {t} : task'[u] = task[u]
      BY <3>1 DEF TokenInv, TypeOK, Unused
    <3> QED
      BY <3>1, <3>2, MintingKeeps
  <2> QED
    BY <2>1, <2>2, <2>3, <2>4, WhatComesAndGoes, OpenKeeps, WriteKeeps, PrintKeeps
<1> QED
  BY <1>1, <1>2, TypeCorrect, PTL DEF Spec, TokenInv

\* What an answer says of a token presented: it is compared with one read since it was.
LEMMA OnlyPresentersAreCompared ==
  ASSUME [Next]_vars
  PROVE  \/ last' = last
         \/ last'.what \notin {"login", "bearer"}
         \/ \E t \in Task :
              /\ task[t].at = "done" /\ task[t].kind \in {"login", "bearer"}
              /\ last'.ok <=> task[t].tok = task[t].arg
              /\ last'.old = task[t].old /\ (last'.kept <=> task[t].arg \in settled)
<1>1. ASSUME NEW t \in Task, FileStep(t) \/ CommandStep(t) PROVE last' = NoAnswer
  BY <1>1 DEF FileStep, Peek, Read, Open, Write, CommandStep, StartCommand, StartRotation, PrintToken, Kill
<1>2. ASSUME NEW t \in Task, StartServer(t) \/ Listen(t) \/ Present(t) PROVE last' = NoAnswer
  BY <1>2 DEF StartServer, Listen, Present
<1>3. ASSUME NEW t \in Task, Login(t) \/ Bearer(t)
      PROVE  /\ task[t].at = "done" /\ task[t].kind \in {"login", "bearer"}
             /\ last'.ok <=> task[t].tok = task[t].arg
             /\ last'.old = task[t].old /\ (last'.kept <=> task[t].arg \in settled)
  <2>1. task[t].at = "done" /\ task[t].kind \in {"login", "bearer"}
    BY <1>3 DEF Login, Bearer
  <2>2. \E code : last' = Verdict(t, task[t].tok = task[t].arg, code)
    BY <1>3 DEF Login, Bearer
  <2>3. PICK code : last' = Verdict(t, task[t].tok = task[t].arg, code)
    BY <2>2
  <2>4. /\ last'.ok = (task[t].tok = task[t].arg)
        /\ last'.old = task[t].old /\ last'.kept = (task[t].arg \in settled)
    BY <2>3 DEF Verdict
  <2> QED
    BY <2>1, <2>4
<1>4. CASE ServerGone \/ SignOut \/ Tick
  BY <1>4 DEF ServerGone, SignOut, Tick, NoAnswer
<1>5. CASE PageCall \/ Unreachable \/ Reload
  BY <1>5 DEF PageCall, Unreachable, Reload
<1>6. CASE UNCHANGED vars
  BY <1>6 DEF vars
<1> QED
  BY <1>1, <1>2, <1>3, <1>4, <1>5, <1>6 DEF Next, DaemonStep, NoAnswer

\* No token printed before a rotation began is accepted by a login or a bearer that begins after
\* it has ended, whoever else reads and writes the file.
THEOREM RotationRevokes == Spec => []OldLinksStop
<1>1. Init => OldLinksStop
  BY DEF Init, OldLinksStop, Compared, NoAnswer
<1>2. TokenInv /\ OldLinksStop /\ [Next]_vars => OldLinksStop'
  <2> SUFFICES ASSUME TokenInv, OldLinksStop, [Next]_vars PROVE OldLinksStop'
    OBVIOUS
  <2>1. \A t \in Task : task[t].at = "done" /\ task[t].kind \in {"login", "bearer"} /\ task[t].old =>
          task[t].tok # task[t].arg
    BY DEF TokenInv, PresentersInv
  <2> QED
    BY <2>1, OnlyPresentersAreCompared DEF OldLinksStop, Compared
<1> QED
  BY <1>1, <1>2, TokensInductive, PTL DEF Spec

\* A printed token is accepted until somebody rotates it, unless another process was writing the
\* file when it was printed.
THEOREM LinksAreKept == Spec => []PrintedLinkKeepsWorking
<1>1. Init => PrintedLinkKeepsWorking
  BY DEF Init, PrintedLinkKeepsWorking, Compared, NoAnswer
<1>2. TokenInv /\ PrintedLinkKeepsWorking /\ [Next]_vars => PrintedLinkKeepsWorking'
  <2> SUFFICES ASSUME TokenInv, PrintedLinkKeepsWorking, [Next]_vars PROVE PrintedLinkKeepsWorking'
    OBVIOUS
  <2>1. \A t \in Task : task[t].at = "done" /\ task[t].kind \in {"login", "bearer"} /\ task[t].arg \in settled =>
          task[t].tok = task[t].arg
    BY DEF TokenInv, PresentersInv, SettledInv
  <2> QED
    BY <2>1, OnlyPresentersAreCompared DEF PrintedLinkKeepsWorking, Compared
<1> QED
  BY <1>1, <1>2, TokensInductive, PTL DEF Spec

-----------------------------------------------------------------------------
(* The requests of the page.                                               *)

\* The segments that the paths of the page are made of.
Segment ==
  {"api", "core", "session", "status", "config", "events", "sessions", "snapshot", "server",
   "settings", "backends", "hardware", "downloads", "models", "gguf", "validate", "override",
   "devices", "load", "unload", "cancel", "ctx", "increase", "recreate", "import", "acknowledge",
   "install", "setup", "task", "version", "backend", "optimal", "capabilities", "embed", "runtimes",
   "foundation-models", "availability"} \cup Provider \cup STRING

Path == Seq(Segment)

\* The paths that are written out, and their parts.
LEMMA WrittenPaths ==
  ASSUME NEW a \in Segment
  PROVE  /\ <<a>> \in Path /\ Len(<<a>>) = 1 /\ <<a>>[1] = a
         /\ \A b \in Segment : <<a, b>> \in Path /\ Len(<<a, b>>) = 2 /\ <<a, b>>[1] = a /\ <<a, b>>[2] = b
         /\ \A b, c \in Segment : <<a, b, c>> \in Path /\ Len(<<a, b, c>>) = 3 /\ <<a, b, c>>[1] = a
         /\ \A b, c, d \in Segment :
              <<a, b, c, d>> \in Path /\ Len(<<a, b, c, d>>) = 4 /\ <<a, b, c, d>>[1] = a
<1> HIDE DEF Segment
<1>1. <<a>> \in Path /\ Len(<<a>>) = 1 /\ <<a>>[1] = a
  BY DEF Path
<1>2. \A b \in Segment : <<a, b>> \in Path /\ Len(<<a, b>>) = 2 /\ <<a, b>>[1] = a /\ <<a, b>>[2] = b
  BY DEF Path
<1>3. \A b, c \in Segment : <<a, b, c>> \in Path /\ Len(<<a, b, c>>) = 3 /\ <<a, b, c>>[1] = a
  BY DEF Path
<1>4. \A b, c, d \in Segment :
        <<a, b, c, d>> \in Path /\ Len(<<a, b, c, d>>) = 4 /\ <<a, b, c, d>>[1] = a
  BY DEF Path
<1> QED
  BY <1>1, <1>2, <1>3, <1>4

LEMMA AfterTwoSegments ==
  ASSUME NEW S, NEW s \in Seq(S), NEW q \in Seq(S), Len(s) = 2
  PROVE  Len(s \o q) = 2 + Len(q) /\ (s \o q)[2] = s[2] /\ SubSeq(s \o q, 1, 2) = s
<1>1. /\ Len(s \o q) = Len(s) + Len(q)
      /\ \A i \in 1 .. Len(s) + Len(q) : (s \o q)[i] = IF i <= Len(s) THEN s[i] ELSE q[i - Len(s)]
  BY ConcatProperties
<1>2. Len(q) \in Nat
  BY LenProperties
<1>3. 2 \in 1 .. (Len(s) + Len(q)) /\ 2 <= Len(s)
  BY <1>2
<1>4. SubSeq(s \o q, 1, 2) = s
  <2>1. 1 \in 1..Len(s) /\ 2 \in 1..Len(s)
    OBVIOUS
  <2>2. SubSeq(s \o q, 1, 2) = SubSeq(s, 1, 2)
    BY <2>1, SubSeqOfConcat1
  <2> QED
    BY <2>2, SubSeqFull
<1> QED
  BY <1>1, <1>3, <1>4

\* A path is prefixed by its first segment, by itself, and by what it continues.
LEMMA PathPrefixes ==
  ASSUME NEW s \in Path, NEW q \in Path
  PROVE  /\ IsPrefix(s, s)
         /\ IsPrefix(s, s \o q)
         /\ Len(q) > 0 => IsStrictPrefix(s, s \o q)
         /\ Len(q) > 0 => IsPrefix(<<q[1]>>, q)
         /\ Len(q) > 1 => IsStrictPrefix(<<q[1]>>, q)
<1>1. IsPrefix(s, s)
  BY DEF IsPrefix, Path
<1>2. s \o q \in Path /\ Len(s \o q) = Len(s) + Len(q)
  BY ConcatProperties DEF Path
<1>3. SubSeq(s \o q, 1, Len(s)) = s /\ SubSeq(s, 1, Len(s)) = s
  BY SubSeqOfConcat1, SubSeqFull, ConcatProperties DEF Path
<1>4. IsPrefix(s, s \o q)
  BY <1>2, <1>3, LenProperties DEF IsPrefix, Path
<1>5. Len(q) > 0 => IsPrefix(<<q[1]>>, q)
  <2> SUFFICES ASSUME Len(q) > 0 PROVE IsPrefix(<<q[1]>>, q)
    OBVIOUS
  <2>1. q[1] \in Segment
    BY ElementOfSeq DEF Path
  <2>2. <<q[1]>> \in Path /\ Len(<<q[1]>>) = 1 /\ <<q[1]>>[1] = q[1]
    BY <2>1, WrittenPaths
  <2>3. SubSeq(q, 1, 1) \in Path /\ Len(SubSeq(q, 1, 1)) = 1 /\ SubSeq(q, 1, 1)[1] = q[1]
    BY <2>1, SubSeqProperties DEF Path
  <2>4. SubSeq(q, 1, 1) = <<q[1]>>
    <3>1. \A i \in 1..1 : SubSeq(q, 1, 1)[i] = <<q[1]>>[i]
      BY <2>2, <2>3
    <3> QED
      BY <2>2, <2>3, <3>1, SeqEqual DEF Path
  <2>5. SubSeq(<<q[1]>>, 1, 1) = <<q[1]>>
    BY <2>2, SubSeqFull DEF Path
  <2> QED
    BY <2>2, <2>4, <2>5 DEF IsPrefix, Path
<1>6. Len(q) > 0 => s # s \o q
  BY <1>2 DEF Path
<1>7. Len(q) > 1 => <<q[1]>> # q
  <2> SUFFICES ASSUME Len(q) > 1, <<q[1]>> = q PROVE FALSE
    OBVIOUS
  <2>1. \A x : Len(<<x>>) = 1
    OBVIOUS
  <2>2. Len(<<q[1]>>) = 1
    BY <2>1
  <2>3. Len(q) = 1
    BY <2>2
  <2> QED
    BY <2>3
<1> QED
  BY <1>1, <1>4, <1>5, <1>6, <1>7, LenProperties DEF IsStrictPrefix, Path

\* The allowlists decide what reaches the core, for whoever is authorised.
LEMMA AllowedReachesCore ==
  ASSUME NEW method, NEW q \in Path, Len(q) > 0
  PROVE  /\ Handler(method, Core \o q, TRUE) = IF proxyAllowed(method, q) THEN "core" ELSE "forbidden"
         /\ Handler(method, Core \o q, FALSE) = "unauthorised"
<1>0. Core \in Path /\ Len(Core) = 2 /\ Core[2] = "core"
  <2>1. "api" \in Segment /\ "core" \in Segment
    BY DEF Segment
  <2> QED
    BY <2>1, WrittenPaths DEF Core
<1>1. /\ Core \o q \in Path /\ Len(Core \o q) = 2 + Len(q)
      /\ (Core \o q)[2] = "core"
  BY <1>0, AfterTwoSegments, ConcatProperties DEF Path
<1>2. SubSeq(Core \o q, 3, Len(Core \o q)) = q
  BY <1>0, <1>1, SubSeqOfConcat2, SubSeqFull DEF Path
<1>3. IsStrictPrefix(Core, Core \o q)
  BY <1>0, PathPrefixes
<1>4. /\ Core \o q # <<"api", "session">> /\ Core \o q # <<"api", "status">>
      /\ Core \o q # <<"api", "config">> /\ Core \o q # <<"api", "events">>
  <2>1. /\ <<"api", "session">>[2] = "session" /\ <<"api", "status">>[2] = "status"
        /\ <<"api", "config">>[2] = "config" /\ <<"api", "events">>[2] = "events"
    OBVIOUS
  <2> QED
    BY <1>1, <2>1
<1>5. \A path : /\ path # <<"api", "session">> /\ path # <<"api", "status">>
                /\ path # <<"api", "config">> /\ path # <<"api", "events">>
                /\ IsStrictPrefix(Core, path) /\ ~Unbuilt(path)
                => /\ Handler(method, path, TRUE) =
                        IF proxyAllowed(method, SubSeq(path, 3, Len(path))) THEN "core" ELSE "forbidden"
                   /\ Handler(method, path, FALSE) = "unauthorised"
  BY DEF Handler
<1>6. ~Unbuilt(Core \o q)
  <2>1. ~IsPrefix(<<"api", "setup">>, Core \o q)
    <3> DEFINE setup == <<"api", "setup">>
    <3>1. setup \in Path /\ Len(setup) = 2 /\ setup[2] = "setup"
      BY WrittenPaths DEF Segment
    <3> HIDE DEF setup
    <3>2. SubSeq(setup, 1, 2) = setup
      BY <3>1, SubSeqFull DEF Path
    <3>3. SubSeq(Core \o q, 1, 2) = Core
      BY <1>0, AfterTwoSegments DEF Path
    <3>4. ~IsPrefix(setup, Core \o q)
      BY <1>0, <3>1, <3>2, <3>3 DEF IsPrefix
    <3> QED
      BY <3>4 DEF setup
  <2>2. Core \o q # <<"api", "logs">>
    <3>1. <<"api", "logs">>[2] = "logs"
      OBVIOUS
    <3> QED
      BY <1>1, <3>1
  <2> QED
    BY <1>1, <2>1, <2>2 DEF Unbuilt
<1> QED
  BY <1>2, <1>3, <1>4, <1>5, <1>6

\* A call that is for the core, by a route the allowlists have or one that is known not to pass.
ForTheCore(c) ==
  \E q \in Path : /\ Len(q) > 0 /\ c.path = Core \o q
                  /\ c.name \in Unserved \/ proxyAllowed(c.method, q)

LEMMA CoreCallIsForTheCore ==
  ASSUME NEW name, NEW method, NEW q \in Path, Len(q) > 0,
         name \in Unserved \/ proxyAllowed(method, q)
  PROVE  ForTheCore(CoreCall(name, method, q))
<1>1. CoreCall(name, method, q) = [name |-> name, method |-> method, path |-> Core \o q]
  BY DEF CoreCall, Invoke, Ask
<1> QED
  BY <1>1 DEF ForTheCore

\* The rows of the allowlists that the page's calls use.
LEMMA AllowedByFirstSegment ==
  ASSUME NEW q \in Path
  PROVE  /\ Len(q) > 0 /\ q[1] \in {"sessions", "settings", "backends", "hardware", "snapshot"} =>
              proxyAllowed("GET", q)
         /\ Len(q) > 1 /\ q[1] \in {"models", "settings", "backends", "downloads"} => proxyAllowed("POST", q)
         /\ Len(q) > 1 /\ q[1] = "backends" => proxyAllowed("PUT", q) /\ proxyAllowed("DELETE", q)
         /\ q = <<"hardware", "override">> => proxyAllowed("PUT", q)
         /\ q = <<"gguf", "validate">> => proxyAllowed("POST", q)
<1>1. Len(q) > 0 /\ q[1] \in {"sessions", "settings", "backends", "hardware", "snapshot"} =>
        proxyAllowed("GET", q)
  BY PathPrefixes DEF proxyAllowed, ReadAllow
<1>2. \A m \in {"POST", "PUT", "DELETE"}, w \in {"models", "settings", "backends", "downloads"} :
        <<m, <<w>>>> \in WriteUnder /\ Len(q) > 1 /\ q[1] = w => proxyAllowed(m, q)
  BY PathPrefixes DEF proxyAllowed
<1>3. /\ <<"POST", <<"models">>>> \in WriteUnder /\ <<"POST", <<"settings">>>> \in WriteUnder
      /\ <<"POST", <<"backends">>>> \in WriteUnder /\ <<"POST", <<"downloads">>>> \in WriteUnder
      /\ <<"PUT", <<"backends">>>> \in WriteUnder /\ <<"DELETE", <<"backends">>>> \in WriteUnder
  BY DEF WriteUnder
<1>4. q = <<"hardware", "override">> => proxyAllowed("PUT", q)
  BY PathPrefixes DEF proxyAllowed, WriteAt
<1>5. q = <<"gguf", "validate">> => proxyAllowed("POST", q)
  BY PathPrefixes DEF proxyAllowed, WriteAt
<1> QED
  BY <1>1, <1>2, <1>3, <1>4, <1>5

\* An id of a model is one segment or more, between those of its route.
LEMMA ModelPaths ==
  ASSUME NEW p \in Provider, NEW id \in ModelId, NEW suffix \in Path
  PROVE  /\ modelPath(p, id, suffix) \in Path /\ Len(modelPath(p, id, suffix)) > 1
         /\ modelPath(p, id, suffix)[1] = "models"
<1>1. id \in Path
  BY SeqMonotonic, RoutesAssumption DEF RoutesAssumption, Path, Segment
<1>2. <<"models", p>> \in Path /\ Len(<<"models", p>>) = 2 /\ <<"models", p>>[1] = "models"
  BY WrittenPaths DEF Segment
<1>3. /\ <<"models", p>> \o id \in Path /\ Len(<<"models", p>> \o id) = 2 + Len(id)
      /\ (<<"models", p>> \o id)[1] = "models" /\ Len(id) \in Nat
  BY <1>1, <1>2, ConcatProperties, LenProperties DEF Path
<1>4. /\ (<<"models", p>> \o id) \o suffix \in Path
      /\ Len((<<"models", p>> \o id) \o suffix) = 2 + Len(id) + Len(suffix)
      /\ ((<<"models", p>> \o id) \o suffix)[1] = "models" /\ Len(suffix) \in Nat
  BY <1>3, ConcatProperties, LenProperties DEF Path
<1> QED
  BY <1>3, <1>4 DEF modelPath

LEMMA CallsByFirstSegment ==
  ASSUME NEW name, NEW q \in Path
  PROVE  /\ Len(q) > 0 /\ q[1] \in {"sessions", "settings", "backends", "hardware", "snapshot"} =>
              ForTheCore(CoreCall(name, "GET", q))
         /\ Len(q) > 1 /\ q[1] \in {"models", "settings", "backends", "downloads"} =>
              ForTheCore(CoreCall(name, "POST", q))
         /\ Len(q) > 1 /\ q[1] = "backends" =>
              ForTheCore(CoreCall(name, "PUT", q)) /\ ForTheCore(CoreCall(name, "DELETE", q))
         /\ q = <<"hardware", "override">> => ForTheCore(CoreCall(name, "PUT", q))
         /\ q = <<"gguf", "validate">> => ForTheCore(CoreCall(name, "POST", q))
         /\ Len(q) > 0 /\ name \in Unserved => ForTheCore(CoreCall(name, "GET", q))
<1>1. <<"hardware", "override">>[1] = "hardware" /\ Len(<<"hardware", "override">>) = 2
  OBVIOUS
<1>2. Len(<<"gguf", "validate">>) = 2
  OBVIOUS
<1>3. Len(q) > 1 => Len(q) > 0
  BY LenProperties DEF Path
<1> QED
  BY <1>1, <1>2, <1>3, AllowedByFirstSegment, CoreCallIsForTheCore

\* Every call of the runtime is for the core, but for the one that asks the admin how things are.
LEMMA RuntimeCallsAreForTheCore ==
  ASSUME NEW c \in RuntimeCalls
  PROVE  ForTheCore(c) \/ (c.name = "getStatus" /\ c.method = "GET" /\ c.path = <<"api", "status">>)
<1> USE CallsByFirstSegment
<1>0. /\ "core" \in Segment /\ "status" \in Segment /\ "sessions" \in Segment /\ "snapshot" \in Segment
      /\ "settings" \in Segment /\ "backends" \in Segment /\ "hardware" \in Segment
      /\ "downloads" \in Segment /\ "gguf" \in Segment /\ "validate" \in Segment
      /\ "override" \in Segment /\ "devices" \in Segment /\ "load" \in Segment /\ "unload" \in Segment
      /\ "cancel" \in Segment /\ "ctx" \in Segment /\ "increase" \in Segment /\ "recreate" \in Segment
      /\ "import" \in Segment /\ "acknowledge" \in Segment /\ "install" \in Segment
      /\ "task" \in Segment /\ "version" \in Segment /\ "backend" \in Segment /\ "optimal" \in Segment
      /\ "capabilities" \in Segment /\ "embed" \in Segment /\ "runtimes" \in Segment
      /\ "foundation-models" \in Segment /\ "availability" \in Segment
      /\ \A p \in Provider : p \in Segment
  BY DEF Segment
<1>1. CASE c \in SessionCalls
  <2>1. <<"sessions">> \in Path /\ Len(<<"sessions">>) = 1 /\ <<"sessions">>[1] = "sessions"
    BY <1>0, WrittenPaths
  <2>2. CASE c = CoreCall("listSessions", "GET", <<"sessions">>)
    BY <2>1, <2>2
  <2>3. CASE c = Invoke("getStatus", "atomic_core_status", "GET", <<>>)
    BY <2>3 DEF Invoke, Ask
  <2> QED
    BY <1>1, <2>2, <2>3 DEF SessionCalls
<1>2. ASSUME NEW p \in Provider, c \in SettingsCalls(p) PROVE ForTheCore(c)
  <2> DEFINE import == <<"settings", p, "import">>
             get == <<"settings", p>>
             acknowledge == <<"settings", p, "acknowledge">>
             status == <<"settings", "status">>
             override == <<"hardware", "override">>
  <2>1. /\ import \in Path /\ Len(import) = 3 /\ import[1] = "settings"
        /\ get \in Path /\ Len(get) = 2 /\ get[1] = "settings"
        /\ acknowledge \in Path /\ Len(acknowledge) = 3 /\ acknowledge[1] = "settings"
        /\ status \in Path /\ Len(status) = 2 /\ status[1] = "settings"
        /\ override \in Path
    BY <1>0, WrittenPaths
  <2>2. override = <<"hardware", "override">>
    OBVIOUS
  <2> HIDE DEF import, get, acknowledge, status, override
  <2>3. /\ ForTheCore(CoreCall("importSettings", "POST", import))
        /\ ForTheCore(CoreCall("getSettings", "GET", get))
        /\ ForTheCore(CoreCall("acknowledgeSettings", "POST", acknowledge))
        /\ ForTheCore(CoreCall("settingsStatus", "GET", status))
        /\ ForTheCore(CoreCall("sendHardwareOverride", "PUT", override))
    BY <2>1, <2>2
  <2> QED
    BY <1>2, <2>3 DEF SettingsCalls, import, get, acknowledge, status, override
<1>3. ASSUME NEW p \in Provider, c \in BackendCalls(p) PROVE ForTheCore(c)
  <2> DEFINE list == <<"backends", p>>
             install == <<"backends", p, "install">>
             cancel == <<"downloads", "task", "cancel">>
             remove == <<"backends", p, "version", "backend">>
             optimal == <<"backends", p, "optimal">>
             snapshot == <<"snapshot">>
  <2>1. /\ list \in Path /\ Len(list) = 2 /\ list[1] = "backends"
        /\ install \in Path /\ Len(install) = 3 /\ install[1] = "backends"
        /\ cancel \in Path /\ Len(cancel) = 3 /\ cancel[1] = "downloads"
        /\ remove \in Path /\ Len(remove) = 4 /\ remove[1] = "backends"
        /\ optimal \in Path /\ Len(optimal) = 3 /\ optimal[1] = "backends"
        /\ snapshot \in Path /\ Len(snapshot) = 1 /\ snapshot[1] = "snapshot"
    BY <1>0, WrittenPaths
  <2>2. Invoke("getOptimalSnapshot", "atomic_core_snapshot", "GET", <<>>)
          = CoreCall("getOptimalSnapshot", "GET", snapshot)
    BY DEF CoreCall, Invoke
  <2> HIDE DEF list, install, cancel, remove, optimal, snapshot
  <2>3. /\ ForTheCore(CoreCall("listInstalledBackends", "GET", list))
        /\ ForTheCore(CoreCall("installBackend", "POST", install))
        /\ ForTheCore(CoreCall("cancelBackendDownload", "POST", cancel))
        /\ ForTheCore(CoreCall("removeBackend", "DELETE", remove))
        /\ ForTheCore(CoreCall("getOptimalCache", "GET", optimal))
        /\ ForTheCore(CoreCall("setOptimalCache", "PUT", optimal))
        /\ ForTheCore(CoreCall("getOptimalSnapshot", "GET", snapshot))
    BY <2>1
  <2> QED
    BY <1>3, <2>2, <2>3 DEF BackendCalls, list, install, cancel, remove, optimal
<1>4. ASSUME NEW p \in Provider, NEW id \in ModelId, c \in ModelCalls(p, id) PROVE ForTheCore(c)
  <2>1. /\ <<"load">> \in Path /\ <<"unload">> \in Path /\ <<"load", "cancel">> \in Path
        /\ <<"ctx", "increase">> \in Path /\ <<"recreate">> \in Path
    BY <1>0, WrittenPaths
  <2>2. \A name, suffix : suffix \in Path => ForTheCore(CoreCall(name, "POST", modelPath(p, id, suffix)))
    BY ModelPaths
  <2> QED
    BY <1>4, <2>1, <2>2 DEF ModelCalls
<1>5. ASSUME NEW p \in Provider, NEW id \in ModelId, c \in FactCalls(p, id) PROVE ForTheCore(c)
  <2> DEFINE validate == <<"gguf", "validate">>
             devices == <<"hardware", "devices">>
             availability == <<"runtimes", "foundation-models", "availability">>
             capabilities == modelPath(p, id, <<"capabilities">>)
             embed == modelPath(p, id, <<"embed">>)
  <2>1. /\ validate \in Path
        /\ devices \in Path /\ Len(devices) = 2 /\ devices[1] = "hardware"
        /\ availability \in Path /\ Len(availability) = 3
        /\ <<"capabilities">> \in Path /\ <<"embed">> \in Path
    BY <1>0, WrittenPaths
  <2>2. /\ capabilities \in Path /\ Len(capabilities) > 1
        /\ embed \in Path /\ Len(embed) > 1 /\ embed[1] = "models"
    BY <2>1, ModelPaths
  <2>3. validate = <<"gguf", "validate">> /\ "capabilities" \in Unserved
        /\ "foundationModelsAvailability" \in Unserved
    BY DEF Unserved
  <2> HIDE DEF validate, devices, availability, capabilities, embed
  <2>4. Len(capabilities) > 0
    BY <2>2, LenProperties DEF Path
  <2>5. /\ ForTheCore(CoreCall("capabilities", "GET", capabilities))
        /\ ForTheCore(CoreCall("validateGguf", "POST", validate))
        /\ ForTheCore(CoreCall("devices", "GET", devices))
        /\ ForTheCore(CoreCall("embed", "POST", embed))
        /\ ForTheCore(CoreCall("foundationModelsAvailability", "GET", availability))
    BY <2>1, <2>2, <2>3, <2>4
  <2> QED
    BY <1>5, <2>5 DEF FactCalls, validate, devices, availability, capabilities, embed
<1>6. \/ c \in SessionCalls
      \/ \E p \in Provider : c \in SettingsCalls(p) \/ c \in BackendCalls(p)
      \/ \E p \in Provider, id \in ModelId : c \in ModelCalls(p, id) \/ c \in FactCalls(p, id)
  <2> HIDE CallsByFirstSegment
  <2>1. c \in SessionCalls \/ c \in UNION {EngineCalls(p) : p \in Provider}
    BY DEF RuntimeCalls
  <2>2. c \in UNION {EngineCalls(p) : p \in Provider} => \E p \in Provider : c \in EngineCalls(p)
    BY Zenon
  <2>3. ASSUME NEW p \in Provider, c \in EngineCalls(p)
        PROVE  \/ c \in SettingsCalls(p) \/ c \in BackendCalls(p)
               \/ c \in UNION {ModelCalls(p, id) \cup FactCalls(p, id) : id \in ModelId}
    BY <2>3, Zenon DEF EngineCalls
  <2>4. ASSUME NEW p \in Provider, c \in UNION {ModelCalls(p, id) \cup FactCalls(p, id) : id \in ModelId}
        PROVE  \E id \in ModelId : c \in ModelCalls(p, id) \cup FactCalls(p, id)
    BY <2>4, Zenon
  <2> QED
    BY <2>1, <2>2, <2>3, <2>4, Zenon
<1> QED
  BY <1>1, <1>2, <1>3, <1>4, <1>5, <1>6

\* What the admin answers of its own.
LEMMA AdminCallsAreForTheAdmin ==
  ASSUME NEW path, path = <<"api", "status">> \/ path = <<"api", "config">>
  PROVE  /\ Handler("GET", path, TRUE) \in {"status", "config"}
         /\ Handler("GET", path, FALSE) = "unauthorised"
<1>1. /\ path \in Path /\ Len(path) = 2 /\ path[1] = "api" /\ path[2] \in {"status", "config"}
  <2>1. "api" \in Segment /\ "status" \in Segment /\ "config" \in Segment
    BY DEF Segment
  <2>2. \A b \in Segment : <<"api", b>> \in Path /\ Len(<<"api", b>>) = 2 /\ <<"api", b>>[1] = "api" /\ <<"api", b>>[2] = b
    BY <2>1, WrittenPaths
  <2>3. CASE path = <<"api", "status">>
    BY <2>1, <2>2, <2>3
  <2>4. CASE path = <<"api", "config">>
    BY <2>1, <2>2, <2>4
  <2> QED
    BY <2>3, <2>4
<1>2. /\ path # <<"api", "session">> /\ path # <<"api", "events">> /\ path # <<"api", "logs">>
      /\ path # <<"api", "setup">> /\ path # <<"api", "core">>
  <2>1. /\ <<"api", "session">>[2] = "session" /\ <<"api", "events">>[2] = "events"
        /\ <<"api", "logs">>[2] = "logs" /\ <<"api", "setup">>[2] = "setup"
        /\ <<"api", "core">>[2] = "core"
    OBVIOUS
  <2> QED
    BY <1>1, <2>1
<1>3. SubSeq(path, 1, 2) = path
  BY <1>1, SubSeqFull DEF Path
<1>4. \A a : a \in {"core", "setup"} => ~IsPrefix(<<"api", a>>, path)
  <2> SUFFICES ASSUME NEW a \in {"core", "setup"} PROVE ~IsPrefix(<<"api", a>>, path)
    OBVIOUS
  <2> DEFINE other == <<"api", a>>
  <2>1. other \in Path /\ Len(other) = 2 /\ other # path
    BY <1>2, WrittenPaths DEF Segment
  <2> HIDE DEF other
  <2>2. SubSeq(other, 1, 2) = other
    BY <2>1, SubSeqFull DEF Path
  <2>3. ~IsPrefix(other, path)
    BY <2>1, <2>2, <1>3 DEF IsPrefix
  <2> QED
    BY <2>3 DEF other
<1>5. ~IsStrictPrefix(Core, path) /\ ~Unbuilt(path)
  BY <1>1, <1>2, <1>4 DEF IsStrictPrefix, Core, Unbuilt
<1>6. <<"api", "status">> # <<"api", "config">>
  <2>1. <<"api", "status">>[2] = "status" /\ <<"api", "config">>[2] = "config"
    OBVIOUS
  <2> QED
    BY <2>1
<1>7. CASE path = <<"api", "status">>
  BY <1>2, <1>5, <1>6, <1>7 DEF Handler
<1>8. CASE path = <<"api", "config">>
  BY <1>2, <1>5, <1>6, <1>8 DEF Handler
<1> QED
  BY <1>7, <1>8

\* Who is not signed in is told so, and nobody else is.
LEMMA OnlyTheUnauthorised ==
  ASSUME NEW handler, NEW outcome \in Outcomes
  PROVE  /\ handler = "unauthorised" => AnswerTo(handler, outcome) = 401
         /\ handler \in {"core", "forbidden", "status", "config"} => AnswerTo(handler, outcome) \notin {0, 401}
<1>1. StatusFor(outcome) \in {200, 400, 404, 500, 502}
  <2>1. CASE outcome = "ok"
    BY <2>1 DEF StatusFor
  <2>2. CASE outcome = "not-found"
    BY <2>2 DEF StatusFor
  <2>3. CASE outcome = "core-error"
    BY <2>3 DEF StatusFor
  <2>4. CASE outcome = "bad-body" \/ outcome = "core-refusal"
    BY <2>4 DEF StatusFor
  <2>5. CASE outcome = "internal-error"
    BY <2>5 DEF StatusFor
  <2> QED
    BY <2>1, <2>2, <2>3, <2>4, <2>5 DEF Outcomes
<1>2. DOMAIN Refusals = {"unauthorised", "forbidden", "unknown", "no-method", "not-implemented"}
  BY DEF Refusals
<1>3. Refusals["unauthorised"] = 401 /\ Refusals["forbidden"] = 403
  BY DEF Refusals
<1>4. handler = "unauthorised" => AnswerTo(handler, outcome) = 401
  BY <1>2, <1>3 DEF AnswerTo
<1>5. handler = "forbidden" => AnswerTo(handler, outcome) \in {403}
  BY <1>2, <1>3 DEF AnswerTo
<1>6. handler \in {"core", "status", "config"} => AnswerTo(handler, outcome) \in {200, 400, 404, 500, 502}
  BY <1>1, <1>2 DEF AnswerTo
<1> QED
  BY <1>4, <1>5, <1>6

\* What the page asks for passes the gates under every loopback name.
LEMMA PagePassesTheGates ==
  ASSUME NEW c, NEW host \in LoopbackHosts
  PROVE  Gate(PageRequest(c, host)) = 200
<1>1. c.method = "GET" => c.method \notin Mutating
  BY DEF Mutating
<1> QED
  BY <1>1 DEF Gate, PageRequest

\* What may come of a call: a 401 for who is not signed in, and for nobody else; and who is
\* signed in reaches the core, if the call is for it.
LEMMA WhatComesOfACall ==
  ASSUME NEW authorised \in BOOLEAN, NEW a \in CallAnswers(authorised)
  PROVE  /\ authorised => a.code \notin {0, 401}
         /\ ~authorised => a.code = 401
         /\ authorised => a.missed \in {"none"} \cup ForTheAdmin \cup Unserved
<1>1. PICK c \in RuntimeCalls \cup AdminCalls, outcome \in Outcomes, host \in LoopbackHosts :
        LET gate == Gate(PageRequest(c, host))
            handler == Handler(c.method, c.path, authorised)
        IN a = [code |-> IF gate = 200 THEN AnswerTo(handler, outcome) ELSE gate,
                missed |-> IF gate = 200 /\ handler = "core" THEN "none" ELSE c.name]
  BY DEF CallAnswers
<1> DEFINE handler == Handler(c.method, c.path, authorised)
<1>2. Gate(PageRequest(c, host)) = 200
  BY PagePassesTheGates
<1>3. /\ a.code = AnswerTo(handler, outcome)
      /\ a.missed = IF handler = "core" THEN "none" ELSE c.name
  BY <1>1, <1>2
<1>4. /\ ~authorised => handler = "unauthorised"
      /\ authorised => /\ handler \in {"core", "forbidden", "status", "config"}
                       /\ handler = "core" \/ c.name \in ForTheAdmin \cup Unserved
  <2>1. CASE ForTheCore(c)
    <3>1. PICK q \in Path : /\ Len(q) > 0 /\ c.path = Core \o q
                            /\ c.name \in Unserved \/ proxyAllowed(c.method, q)
      BY <2>1 DEF ForTheCore
    <3> QED
      BY <3>1, AllowedReachesCore
  <2>2. CASE c.name \in ForTheAdmin /\ c.method = "GET" /\ c.path \in {<<"api", "status">>, <<"api", "config">>}
    BY <2>2, AdminCallsAreForTheAdmin
  <2>3. c \in AdminCalls => /\ c.name \in ForTheAdmin /\ c.method = "GET"
                            /\ c.path \in {<<"api", "status">>, <<"api", "config">>}
    BY DEF AdminCalls, Ask, ForTheAdmin
  <2>4. c \in RuntimeCalls => \/ ForTheCore(c)
                              \/ /\ c.name \in ForTheAdmin /\ c.method = "GET"
                                 /\ c.path \in {<<"api", "status">>, <<"api", "config">>}
    BY RuntimeCallsAreForTheCore DEF ForTheAdmin
  <2> QED
    BY <2>1, <2>2, <2>3, <2>4
<1> HIDE DEF handler
<1> QED
  BY <1>3, <1>4, OnlyTheUnauthorised

-----------------------------------------------------------------------------
(* The session.                                                            *)

\* The browser's history and the store agree on whether there is a session to be found.
THEOREM SessionsAgree == Spec => []SessionInv
<1> USE AccessAssumption DEF AccessAssumption
<1>1. Init => SessionInv
  BY DEF Init, SessionInv
<1>2. TypeOK /\ SessionInv /\ [Next]_vars => SessionInv'
  <2> SUFFICES ASSUME TypeOK, SessionInv, [Next]_vars PROVE SessionInv'
    OBVIOUS
  <2>0. age \in Nat /\ unused \in Nat /\ cookie \in BOOLEAN /\ restarted \in BOOLEAN
    BY DEF TypeOK, Forgotten
  <2>1. ASSUME NEW t \in Task, FileStep(t) \/ CommandStep(t) PROVE SessionInv'
    <3>1. UNCHANGED sessionVars
      BY <2>1 DEF FileStep, Peek, Read, Open, Write,
                  CommandStep, StartCommand, StartRotation, PrintToken, Kill
    <3> QED
      BY <3>1 DEF SessionInv, sessionVars
  <2>2. ASSUME NEW t \in Task, DaemonStep(t) PROVE SessionInv'
    <3>1. UNCHANGED sessionVars \/ (cookie' = TRUE /\ age' = 0 /\ unused' = 0 /\ restarted' = FALSE)
      BY <2>2 DEF DaemonStep, StartServer, Listen, Present, Login, Bearer
    <3>2. CASE UNCHANGED sessionVars
      BY <3>2 DEF SessionInv, sessionVars
    <3>3. CASE cookie' = TRUE /\ age' = 0 /\ unused' = 0 /\ restarted' = FALSE
      BY <3>3 DEF SessionInv
    <3> QED
      BY <3>1, <3>2, <3>3
  <2>3. CASE ServerGone
    BY <2>0, <2>3 DEF ServerGone, SessionInv, Forgotten
  <2>4. CASE PageCall
    <3>1. cookie' = cookie /\ restarted' = restarted
      BY <2>4 DEF PageCall
    <3>2. age' = (IF Valid THEN 0 ELSE IF cookie THEN Forgotten ELSE age)
          /\ unused' = (IF Live THEN 0 ELSE unused)
      BY <2>4 DEF PageCall, Touch
    <3> QED
      BY <2>0, <3>1, <3>2 DEF SessionInv, Valid, Live, Forgotten
  <2>5. CASE SignOut
    BY <2>5 DEF SignOut, SessionInv
  <2>6. CASE Tick
    BY <2>0, <2>6 DEF Tick, SessionInv
  <2>7. CASE Unreachable \/ Reload \/ UNCHANGED vars
    <3>1. UNCHANGED sessionVars
      BY <2>7 DEF Unreachable, Reload, vars, sessionVars
    <3> QED
      BY <3>1 DEF SessionInv, sessionVars
  <2> QED
    BY <2>1, <2>2, <2>3, <2>4, <2>5, <2>6, <2>7 DEF Next
<1> QED
  BY <1>1, <1>2, TypeCorrect, PTL DEF Spec

LEMMA PresentersAreNamed ==
  ASSUME NEW t \in Task, Login(t) \/ Bearer(t)
  PROVE  last'.what \in {"login", "bearer"}
<1>1. task[t].kind \in {"login", "bearer"}
  BY DEF Login, Bearer
<1>2. \E fits, code : last' = Verdict(t, fits, code)
  BY DEF Login, Bearer
<1> QED
  BY <1>1, <1>2 DEF Verdict

\* What an answer says is of a session that is there, or of one that is not.
LEMMA OnlyCallsAreAnswered ==
  ASSUME TypeOK, SessionInv, [Next]_vars
  PROVE  \/ last' = last
         \/ last'.what # "call"
         \/ last'.code = 0 /\ last'.missed = "none"
         \/ \E a \in CallAnswers(Live) : /\ last'.live <=> Live
                                         /\ last'.code = a.code /\ last'.missed = a.missed
<1>1. ASSUME NEW t \in Task, FileStep(t) \/ CommandStep(t) PROVE last' = NoAnswer
  BY <1>1 DEF FileStep, Peek, Read, Open, Write, CommandStep, StartCommand, StartRotation, PrintToken, Kill
<1>2. ASSUME NEW t \in Task, StartServer(t) \/ Listen(t) \/ Present(t) PROVE last' = NoAnswer
  BY <1>2 DEF StartServer, Listen, Present
<1>3. ASSUME NEW t \in Task, Login(t) \/ Bearer(t) PROVE last'.what \in {"login", "bearer"}
  BY <1>3, PresentersAreNamed
<1>4. CASE ServerGone \/ SignOut \/ Tick
  BY <1>4 DEF ServerGone, SignOut, Tick, NoAnswer
<1>5. CASE Reload
  BY <1>5 DEF Reload
<1>6. CASE Unreachable
  BY <1>6 DEF Unreachable
<1>7. CASE PageCall
  <2>0. age \in Nat /\ unused \in Nat /\ cookie \in BOOLEAN /\ restarted \in BOOLEAN
    BY AccessAssumption DEF TypeOK, Forgotten, AccessAssumption
  <2>1. Valid <=> Live
    BY <2>0, AccessAssumption DEF SessionInv, Valid, Live, AccessAssumption
  <2>2. PICK a \in IF Valid THEN AnswersSignedIn ELSE AnswersSignedOut :
          last' = [what |-> "call", live |-> Live, code |-> a.code, missed |-> a.missed]
    BY <1>7 DEF PageCall
  <2>3. a \in CallAnswers(Live)
    <3>1. CASE Valid
      BY <2>1, <2>2, <3>1 DEF AnswersSignedIn
    <3>2. CASE ~Valid
      <4>1. Live = FALSE
        BY <2>1, <3>2 DEF Live
      <4> QED
        BY <2>2, <3>2, <4>1 DEF AnswersSignedOut
    <3> QED
      BY <3>1, <3>2
  <2>4. last'.live = Live /\ last'.code = a.code /\ last'.missed = a.missed
    BY <2>2
  <2> QED
    BY <2>3, <2>4
<1>8. CASE UNCHANGED vars
  BY <1>8 DEF vars
<1> QED
  BY <1>1, <1>2, <1>3, <1>4, <1>5, <1>6, <1>7, <1>8 DEF Next, DaemonStep, NoAnswer

\* The browser is sent to the sign-in screen if and only if its session is gone.
THEOREM SignInOnlyWhenGone == Spec => []SignedInWhileUsed
<1>1. Init => SignedInWhileUsed
  BY DEF Init, SignedInWhileUsed, NoAnswer
<1>2. TypeOK /\ SessionInv /\ SignedInWhileUsed /\ [Next]_vars => SignedInWhileUsed'
  <2> SUFFICES ASSUME TypeOK, SessionInv, SignedInWhileUsed, [Next]_vars PROVE SignedInWhileUsed'
    OBVIOUS
  <2>1. Live \in BOOLEAN
    BY DEF Live
  <2>2. \A a \in CallAnswers(Live) : a.code = 401 <=> ~Live
    BY <2>1, WhatComesOfACall
  <2>3. \A a \in CallAnswers(Live) : a.code # 0
    BY <2>1, WhatComesOfACall
  <2> QED
    BY <2>2, <2>3, OnlyCallsAreAnswered DEF SignedInWhileUsed, isUnauthorized
<1> QED
  BY <1>1, <1>2, TypeCorrect, SessionsAgree, PTL DEF Spec

\* Under a live session every call of the runtime that is for the core reaches it, but for the
\* two no row of the allowlist serves: for every engine and every id of a model.
THEOREM CallsReachTheCore == Spec => []RuntimeReachesCore
<1>1. Init => RuntimeReachesCore
  BY DEF Init, RuntimeReachesCore, NoAnswer
<1>2. TypeOK /\ SessionInv /\ RuntimeReachesCore /\ [Next]_vars => RuntimeReachesCore'
  <2> SUFFICES ASSUME TypeOK, SessionInv, RuntimeReachesCore, [Next]_vars PROVE RuntimeReachesCore'
    OBVIOUS
  <2>1. Live \in BOOLEAN
    BY DEF Live
  <2>2. Live => \A a \in CallAnswers(Live) : a.missed \in {"none"} \cup ForTheAdmin \cup Unserved
    BY <2>1, WhatComesOfACall
  <2> QED
    BY <2>2, OnlyCallsAreAnswered DEF RuntimeReachesCore
<1> QED
  BY <1>1, <1>2, TypeCorrect, SessionsAgree, PTL DEF Spec

\* A reload on any page of the router gets the page again.
THEOREM PagesAreKept == Spec => []ReloadKeepsThePage
<1>1. Init => ReloadKeepsThePage
  BY DEF Init, ReloadKeepsThePage, NoAnswer
<1>2. \A page \in Pages : Listener(page) = "page"
  <2>1. Listener(<<>>) = "page"
    <3>1. Len(<<>>) = 0
      OBVIOUS
    <3>2. <<>> \notin Assets
      BY DEF Assets
    <3> QED
      BY <3>1, <3>2 DEF Listener, ServeStatic
  <2>2. ASSUME NEW p \in {"hardware", "logs", "api", "engines", "models", "settings", "setup"}
        PROVE  Listener(<<p>>) = "page"
    <3>1. Len(<<p>>) = 1 /\ <<p>> # <<>> /\ DOMAIN <<p>> = 1..1 /\ <<p>>[1] = p
      OBVIOUS
    <3>2. <<p>> \notin Assets
      BY DEF Assets
    <3>3. ~ \E i \in DOMAIN <<p>> : <<p>>[i] \in Dotted
      BY <3>1 DEF Dotted
    <3> QED
      BY <3>1, <3>2, <3>3 DEF Listener, ServeStatic
  <2> QED
    BY <2>1, <2>2 DEF Pages
<1>3. ReloadKeepsThePage /\ [Next]_vars => ReloadKeepsThePage'
  <2> SUFFICES ASSUME ReloadKeepsThePage, [Next]_vars PROVE ReloadKeepsThePage'
    OBVIOUS
  <2>1. \/ last' = last \/ last'.what # "reload"
        \/ \E page \in Pages : last'.got = Listener(page)
    <3>1. ASSUME NEW t \in Task, FileStep(t) \/ CommandStep(t) PROVE last' = NoAnswer
      BY <3>1 DEF FileStep, Peek, Read, Open, Write,
                  CommandStep, StartCommand, StartRotation, PrintToken, Kill
    <3>2. ASSUME NEW t \in Task, StartServer(t) \/ Listen(t) \/ Present(t) PROVE last' = NoAnswer
      BY <3>2 DEF StartServer, Listen, Present
    <3>3. ASSUME NEW t \in Task, Login(t) \/ Bearer(t) PROVE last'.what \in {"login", "bearer"}
      BY <3>3, PresentersAreNamed
    <3>4. CASE ServerGone \/ SignOut \/ Tick
      BY <3>4 DEF ServerGone, SignOut, Tick, NoAnswer
    <3>5. CASE PageCall \/ Unreachable
      BY <3>5 DEF PageCall, Unreachable
    <3>6. CASE Reload
      BY <3>6 DEF Reload
    <3>7. CASE UNCHANGED vars
      BY <3>7 DEF vars
    <3> QED
      BY <3>1, <3>2, <3>3, <3>4, <3>5, <3>6, <3>7 DEF Next, DaemonStep, NoAnswer
  <2> QED
    BY <1>2, <2>1 DEF ReloadKeepsThePage
<1> QED
  BY <1>1, <1>3, PTL DEF Spec
=============================================================================
