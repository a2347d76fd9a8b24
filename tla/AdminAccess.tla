------------------------------ MODULE AdminAccess ------------------------------
(***************************************************************************)
(* Access to the admin: the token file that the commands, the terminal UI  *)
(* and the daemon read, make and replace with nothing locked               *)
(* (src/admin/token.ts, src/commands/admin.ts), the session a login begins *)
(* (src/admin/auth.ts), and what becomes of the page's requests under it   *)
(* (AdminRoutes).                                                          *)
(*                                                                         *)
(* A task is one use of the file: an `atc admin token`, a login the daemon *)
(* is asked for. Each of its awaits is a step. A session whose cookie no   *)
(* browser has any more is never looked up and is left out.                *)
(***************************************************************************)
EXTENDS AdminRoutes

CONSTANTS
  Task,      \* uses of the token file under way at once
  MaxToken,  \* bound: tokens generated, numbered in their order
  Idle       \* ticks a session may go unused

ASSUME AccessAssumption == MaxToken \in Nat \ {0} /\ Idle \in Nat

VARIABLES
  file,      \* the token file: "none", "empty" between truncation and write, "token"
  token,     \* what it holds
  minted,    \* how many tokens have been generated
  server,    \* the daemon: "down", "starting", "up"
  task,      \* [Task -> TaskState]
  cookie,    \* the browser has one
  age,       \* of the session it names, in ticks; Forgotten if the store has none
  last,      \* the answer just given
  printed,   \* history: tokens printed, of any command
  retired,   \* history: those printed before a rotation began that has ended
  settled,   \* history: those printed with no writer under way, and no rotation since
  unused,    \* history: ticks since the browser last used a live session
  restarted  \* history: the daemon has gone since the browser signed in

fileVars == <<file, token, minted>>
sessionVars == <<cookie, age, unused, restarted>>
printVars == <<printed, retired, settled>>
vars == <<fileVars, server, task, sessionVars, last, printVars>>

Forgotten == Idle + 2
Kinds == {"none", "start", "open", "token", "rotate", "login", "bearer"}
OfDaemon == {"start", "login", "bearer"}
Awaits == {"idle", "peek", "read", "open", "write", "done"}

\* `arg` is the token presented; `old`: it was retired by then; `olds`: what a rotation retires.
Unused == [kind |-> "none", at |-> "idle", tok |-> 0, arg |-> 0, old |-> FALSE, olds |-> {}]
NoAnswer == [what |-> "nothing"]

TaskState ==
  [kind : Kinds, at : Awaits, tok : 0..MaxToken, arg : 0..MaxToken, old : BOOLEAN, olds : SUBSET (0..MaxToken)]

TypeOK ==
  /\ file \in {"none", "empty", "token"} /\ token \in 0..MaxToken /\ minted \in 0..MaxToken
  /\ server \in {"down", "starting", "up"}
  /\ task \in [Task -> TaskState]
  /\ cookie \in BOOLEAN /\ age \in 0..Forgotten /\ unused \in 0..(Idle + 1) /\ restarted \in BOOLEAN
  /\ printed \subseteq 0..MaxToken /\ retired \subseteq 0..MaxToken /\ settled \subseteq 0..MaxToken

Init ==
  /\ file \in {"none", "token"}
  /\ token = (IF file = "token" THEN 1 ELSE 0) /\ minted = token
  /\ server = "down" /\ task = [t \in Task |-> Unused]
  /\ cookie = FALSE /\ age = Forgotten /\ unused = 0 /\ restarted = FALSE
  /\ last = NoAnswer /\ printed = {} /\ retired = {} /\ settled = {}

Begin(t, kind, at, arg) ==
  /\ task[t].at = "idle"
  /\ task' = [task EXCEPT ![t] = [kind |-> kind, at |-> at, tok |-> 0, arg |-> arg,
                                  old |-> arg \in retired, olds |-> {}]]
GoTo(t, at, tok) == task' = [task EXCEPT ![t].at = at, ![t].tok = tok]
End(t) == task' = [task EXCEPT ![t] = Unused]

-----------------------------------------------------------------------------
(* The token file.                                                         *)

\* readAdminToken: undefined for a file that is missing or too short.
Readable == file = "token"

\* `atc admin token` asks for the token with readAdminToken first, and with ensureAdminToken then.
Peek(t) ==
  /\ task[t].at = "peek"
  /\ IF Readable THEN GoTo(t, "done", token) ELSE GoTo(t, "read", 0)
  /\ last' = NoAnswer
  /\ UNCHANGED <<fileVars, server, sessionVars, printVars>>

\* Mutant: every start of the daemon has a token of its own.
ReadUnlessStart(t) ==
  /\ task[t].at = "read"
  /\ IF Readable /\ task[t].kind # "start"
     THEN GoTo(t, "done", token) /\ UNCHANGED minted
     ELSE /\ minted < MaxToken
          /\ minted' = minted + 1 /\ GoTo(t, "open", minted + 1)
  /\ last' = NoAnswer
  /\ UNCHANGED <<file, token, server, sessionVars, printVars>>

\* ensureAdminToken: the file's token, or else a new one.
Read(t) ==
  /\ task[t].at = "read"
  /\ IF Readable
     THEN GoTo(t, "done", token) /\ UNCHANGED minted
     ELSE /\ minted < MaxToken
          /\ minted' = minted + 1 /\ GoTo(t, "open", minted + 1)
  /\ last' = NoAnswer
  /\ UNCHANGED <<file, token, server, sessionVars, printVars>>

\* writeAdminToken: mkdir, then the file is opened and truncated,
Open(t) ==
  /\ task[t].at = "open"
  /\ file' = "empty" /\ GoTo(t, "write", task[t].tok)
  /\ last' = NoAnswer
  /\ UNCHANGED <<token, minted, server, sessionVars, printVars>>

\* and written: over whatever another writer has put there since.
Write(t) ==
  /\ task[t].at = "write"
  /\ file' = "token" /\ token' = task[t].tok /\ GoTo(t, "done", task[t].tok)
  /\ last' = NoAnswer
  /\ UNCHANGED <<minted, server, sessionVars, printVars>>

-----------------------------------------------------------------------------
(* The commands: `atc admin [open]` and the terminal UI's key for it, which *)
(* want a running server; `atc admin token`, and with --rotate.            *)

StartCommand(t) ==
  /\ \/ server = "up" /\ Begin(t, "open", "read", 0)
     \/ Begin(t, "token", "peek", 0)
  /\ last' = NoAnswer
  /\ UNCHANGED <<fileVars, server, sessionVars, printVars>>

\* Mutant: a rotation makes a token as everybody does.
EnsureInstead(t) ==
  /\ task[t].at = "idle"
  /\ task' = [task EXCEPT ![t] = [Unused EXCEPT !.kind = "rotate", !.at = "read", !.olds = printed]]
  /\ last' = NoAnswer
  /\ UNCHANGED <<fileVars, server, sessionVars, printVars>>

\* rotateAdminToken
StartRotation(t) ==
  /\ minted < MaxToken /\ minted' = minted + 1
  /\ task[t].at = "idle"
  /\ task' = [task EXCEPT ![t] = [Unused EXCEPT !.kind = "rotate", !.at = "open", !.tok = minted + 1,
                                                !.olds = printed]]
  /\ settled' = {}
  /\ last' = NoAnswer
  /\ UNCHANGED <<file, token, server, sessionVars, printed, retired>>

Writing(t) == task[t].at \in {"open", "write"}

\* The link, or the token, is printed. A rotation has then replaced what was printed before it.
PrintToken(t) ==
  /\ task[t].at = "done" /\ task[t].kind \in {"open", "token", "rotate"}
  /\ printed' = printed \cup {task[t].tok}
  /\ retired' = retired \cup task[t].olds
  /\ settled' = IF file = "token" /\ token = task[t].tok /\ ~ \E u \in Task : Writing(u)
                THEN settled \cup {token} ELSE settled
  /\ End(t)
  /\ last' = NoAnswer
  /\ UNCHANGED <<fileVars, server, sessionVars>>

\* A command may be killed at any await.
Kill(t) ==
  /\ task[t].at # "idle" /\ task[t].kind \notin OfDaemon
  /\ End(t)
  /\ last' = NoAnswer
  /\ UNCHANGED <<fileVars, server, sessionVars, printVars>>

-----------------------------------------------------------------------------
(* The daemon.                                                             *)

StartServer(t) ==
  /\ server = "down" /\ server' = "starting"
  /\ Begin(t, "start", "read", 0)
  /\ last' = NoAnswer
  /\ UNCHANGED <<fileVars, sessionVars, printVars>>

\* AdminServer.start, which refuses every address but loopback; a daemon without its admin ends.
Listen(t) ==
  /\ task[t].at = "done" /\ task[t].kind = "start"
  /\ server' \in {"up", "down"}
  /\ End(t)
  /\ last' = NoAnswer
  /\ UNCHANGED <<fileVars, sessionVars, printVars>>

\* The daemon stops or dies: its sessions and whatever it was answering go with it.
ServerGone ==
  /\ server # "down" /\ server' = "down"
  /\ task' = [t \in Task |-> IF task[t].kind \in OfDaemon THEN Unused ELSE task[t]]
  /\ age' = Forgotten /\ restarted' = cookie
  /\ last' = NoAnswer
  /\ UNCHANGED <<fileVars, cookie, unused, printVars>>

\* A browser follows a printed link, or somebody pastes the token: POST /api/session. A script
\* sends it as a bearer with a request that passes the gate.
Present(t) ==
  /\ server = "up"
  /\ \E arg \in printed : Begin(t, "login", "read", arg) \/ Begin(t, "bearer", "read", arg)
  /\ last' = NoAnswer
  /\ UNCHANGED <<fileVars, server, sessionVars, printVars>>

\* What was compared: whether it fits, and what the history says of the token presented.
Verdict(t, fits, code) ==
  [what |-> task[t].kind, ok |-> fits, old |-> task[t].old, kept |-> task[t].arg \in settled, code |-> code]

\* tokensMatch, and the session.
Login(t) ==
  /\ task[t].at = "done" /\ task[t].kind = "login"
  /\ IF task[t].tok = task[t].arg
     THEN /\ last' = Verdict(t, TRUE, 204)
          /\ cookie' = TRUE /\ age' = 0 /\ unused' = 0 /\ restarted' = FALSE
     ELSE last' = Verdict(t, FALSE, 401) /\ UNCHANGED sessionVars
  /\ End(t)
  /\ UNCHANGED <<fileVars, server, printVars>>

\* What a script that sends the token with a request may be answered.
ScriptAnswers ==
  [authorised \in BOOLEAN |->
    {AnswerTo(Handler(c.method, c.path, authorised), outcome) : c \in ScriptCalls, outcome \in Outcomes}]

Bearer(t) ==
  /\ task[t].at = "done" /\ task[t].kind = "bearer"
  /\ \E code \in ScriptAnswers[task[t].tok = task[t].arg] :
       last' = Verdict(t, task[t].tok = task[t].arg, code)
  /\ End(t)
  /\ UNCHANGED <<fileVars, server, sessionVars, printVars>>

-----------------------------------------------------------------------------
(* The browser.                                                            *)

\* SessionStore.validate
Valid == cookie /\ age <= Idle

\* Mutant: the entry keeps the time of the login.
TouchNothing == age' = IF cookie /\ age > Idle THEN Forgotten ELSE age

\* It renews what it has found, and drops what has been idle for too long.
Touch == age' = IF Valid THEN 0 ELSE IF cookie THEN Forgotten ELSE age

Live == cookie /\ ~restarted /\ unused <= Idle

\* What may come of a page's call, from whichever loopback name the page was opened under: the
\* status of the answer, and the call itself where the core was not asked.
CallAnswers(authorised) ==
  {LET gate == Gate(PageRequest(c, host))
       handler == Handler(c.method, c.path, authorised)
   IN [code |-> IF gate = 200 THEN AnswerTo(handler, outcome) ELSE gate,
       missed |-> IF gate = 200 /\ handler = "core" THEN "none" ELSE c.name] :
   c \in RuntimeCalls \cup AdminCalls, outcome \in Outcomes, host \in LoopbackHosts}
AnswersSignedIn == CallAnswers(TRUE)
AnswersSignedOut == CallAnswers(FALSE)

PageCall ==
  /\ server = "up"
  /\ \E a \in IF Valid THEN AnswersSignedIn ELSE AnswersSignedOut :
       last' = [what |-> "call", live |-> Live, code |-> a.code, missed |-> a.missed]
  /\ Touch
  /\ unused' = IF Live THEN 0 ELSE unused
  /\ UNCHANGED <<fileVars, server, task, cookie, restarted, printVars>>

\* request(): nobody answers, which is no answer of the admin's.
Unreachable ==
  /\ server # "up"
  /\ last' = [what |-> "call", live |-> Live, code |-> 0, missed |-> "none"]
  /\ UNCHANGED <<fileVars, server, task, sessionVars, printVars>>

\* DELETE /api/session clears the cookie, whatever it was.
SignOut ==
  /\ server = "up" /\ cookie
  /\ \E host \in LoopbackHosts : Gate(PageRequest(LogoutCall, host)) = 200
  /\ cookie' = FALSE /\ age' = Forgotten /\ unused' = 0 /\ restarted' = FALSE
  /\ last' = NoAnswer
  /\ UNCHANGED <<fileVars, server, task, printVars>>

\* The browser reloads the page it is on.
Reload ==
  /\ server = "up"
  /\ \E page \in Pages : last' = [what |-> "reload", got |-> Listener(page)]
  /\ UNCHANGED <<fileVars, server, task, sessionVars, printVars>>

Tick ==
  /\ cookie
  /\ age' = IF age > Idle THEN age ELSE age + 1
  /\ unused' = IF unused > Idle THEN unused ELSE unused + 1
  /\ last' = NoAnswer
  /\ UNCHANGED <<fileVars, server, task, cookie, restarted, printVars>>

FileStep(t) == Peek(t) \/ Read(t) \/ Open(t) \/ Write(t)
CommandStep(t) == StartCommand(t) \/ StartRotation(t) \/ PrintToken(t) \/ Kill(t)
DaemonStep(t) == StartServer(t) \/ Listen(t) \/ Present(t) \/ Login(t) \/ Bearer(t)

Next ==
  \/ \E t \in Task : FileStep(t) \/ CommandStep(t) \/ DaemonStep(t)
  \/ ServerGone \/ PageCall \/ Unreachable \/ SignOut \/ Reload \/ Tick

Spec == Init /\ [][Next]_vars

-----------------------------------------------------------------------------
(* Properties.                                                             *)

Compared == last.what \in {"login", "bearer"}

\* "Replace the token; old login links stop working" (commands/admin.ts:62): of a token printed
\* before a rotation began, no login and no bearer is accepted that begins after it has ended,
\* whatever other commands, logins and daemons read and write meanwhile.
OldLinksStop == Compared => ~(last.ok /\ last.old)

\* A link keeps working until somebody rotates the token, through any number of restarts and of
\* other commands: ensureAdminToken makes a token only where there is none (token.ts:33-39). What
\* is excepted was printed while another process was writing the file. The sign-in screen says
\* of the same link that it carries a one-time token: see LinkIsOneTime.
PrintedLinkKeepsWorking == Compared /\ last.kept => last.ok

\* The browser is sent back to the sign-in screen if and only if its session is gone: signed out,
\* unused for too long, or of an earlier daemon; never for what the core or a gate says of a call,
\* or because nobody answers (auth.ts:24-33, admin-api.ts:36-39).
SignedInWhileUsed ==
  last.what = "call" => (isUnauthorized(last.code) <=> ~last.live /\ last.code # 0)

\* What is not for the core, and two calls that no row of the allowlist lets pass.
ForTheAdmin == {"status", "config", "getStatus"}
Unserved == {"capabilities", "foundationModelsAvailability"}

\* Under a live session every other call the page's runtime can make reaches the core, from every
\* loopback name the page is opened under (gates.ts:41-66, bff.ts:25-60).
RuntimeReachesCore ==
  last.what = "call" /\ last.live => last.missed \in {"none"} \cup ForTheAdmin \cup Unserved

\* A reload on any page of the router gets the page again (server.ts:43-56, static.ts:28-47).
ReloadKeepsThePage == last.what = "reload" => last.got = "page"

\* Every call of the runtime reaches the core. (Two do not.)
AllRuntimeReachesCore == last.what = "call" /\ last.live => last.missed \notin Unserved

\* "Open the link it prints. It carries a one-time token that signs this browser in"
\* (SignIn.tsx:56): once a browser has signed in with the only token there has been, nobody
\* signs in with it again. (A login compares the token and leaves it as it is.)
LinkIsOneTime == [][cookie /\ minted = 1 => \A t \in Task : ~(Login(t) /\ last'.ok)]_vars

\* Without a rotation a printed token works. (Two processes that find none each make one.)
FirstLinkWorks == Compared /\ retired = {} /\ last.what = "login" => last.ok
=============================================================================
