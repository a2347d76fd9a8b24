------------------------------ MODULE TuiScreens ------------------------------
(***************************************************************************)
(* The terminal UI's screens and keys: the reducer (src/tui/state.ts), the *)
(* keys and the hints about them (src/tui/keys.ts), the app that keeps a   *)
(* state of its own for keys that come faster than frames (src/tui/        *)
(* app.tsx), and the windows of the Config and Commands screens; and the   *)
(* shell it is opened from, where any line of AtcCli can be run before.    *)
(* What the controller does for a command is DaemonWatch's; here its       *)
(* answers come whenever they like. The lines of the Logs screen are       *)
(* LogScreen's.                                                            *)
(***************************************************************************)
EXTENDS RowWindow, AtcCli

CONSTANTS
  Lines,        \* what is typed after `atc`
  Fields,       \* the fields of the configuration, in order: "flip" or "text"
  Commands,     \* the commands, in order: TRUE where a group's heading is above it
  HelpLines,    \* lines of a command's help, by command and columns
  Sizes,        \* sizes the terminal takes: [columns, rows]
  MinRows, MinColumns,          \* MIN_ROWS, MIN_COLUMNS
  WelcomeRows, WelcomeColumns,  \* WELCOME_MIN_ROWS, WELCOME_MIN_COLUMNS
  BrandRows,    \* WELCOME_ROWS
  MaxTyped,     \* bound on the characters of a draft and of the filter
  MaxRuns       \* bound on doctor runs and link requests at a time

Columns == {z.columns : z \in Sizes}

ASSUME ScreensAssumption ==
  /\ Lines \subseteq Seq(STRING)
  /\ Fields \in Seq({"flip", "text"}) /\ Commands \in Seq(BOOLEAN) /\ Len(Commands) > 0
  /\ HelpLines \in [DOMAIN Commands -> [Columns -> Nat]]
  /\ Sizes \subseteq [columns : Nat, rows : Nat] /\ Sizes # {}
  /\ {MinRows, MinColumns, WelcomeRows, WelcomeColumns, BrandRows, MaxRuns} \subseteq Nat
  /\ MaxTyped \in Nat \ {0}

VARIABLES
  state,   \* TuiState, as the reducer has it
  latest,  \* the handler's: the state last rendered, advanced by every press since
  size,    \* of the terminal
  doctors, \* runs of doctor in flight
  links,   \* requests for the admin link in flight
  exit,    \* of the UI: "shell" and "opening" before it; "no"; "ok" or "interrupted"
  ran      \* the last line the shell ran, its terminal and its outcome

vars == <<state, latest, size, doctors, links, exit, ran>>

NoLine == [words |-> <<>>, tty |-> "none", outcome |-> Outcome("none", <<>>, 0, {})]

Tabs == <<"overview", "logs", "config", "doctor", "commands">>
Confirms == {"stop", "restart"}
Overlays == {"none", "help", "link", "linkerror"} \cup Confirms

\* editing is the number of the field whose text is being edited, or 0; draft and filter
\* are the lengths of their texts.
TuiState ==
  [tab : {Tabs[i] : i \in DOMAIN Tabs}, overlay : Overlays, daemon : {"connecting", "down", "up"},
   rows : {0, Len(Fields)}, cursor : Nat, editing : 0..Len(Fields), draft : 0..MaxTyped,
   filter : 0..MaxTyped, filtering : BOOLEAN, running : BOOLEAN, results : BOOLEAN,
   selected : 1..Len(Commands), open : BOOLEAN, scroll : Nat]

TypeOK ==
  /\ state \in TuiState /\ latest \in TuiState /\ size \in Sizes
  /\ doctors \in 0..MaxRuns /\ links \in 0..MaxRuns
  /\ exit \in {"shell", "opening", "no", "ok", "interrupted"}
  /\ ran = NoLine \/ (ran.words \in Lines /\ ran.outcome.code \in 0..3)

initialState(tab) ==
  [tab |-> tab, overlay |-> "none", daemon |-> "connecting", rows |-> 0, cursor |-> 0,
   editing |-> 0, draft |-> 0, filter |-> 0, filtering |-> FALSE, running |-> FALSE,
   results |-> FALSE, selected |-> 1, open |-> FALSE, scroll |-> 0]

Init ==
  /\ state = initialState("overview") /\ latest = state
  /\ size \in Sizes /\ doctors = 0 /\ links = 0 /\ exit = "shell" /\ ran = NoLine

-----------------------------------------------------------------------------
(* The shell.                                                              *)

\* `atc` with these words, on a terminal, a dumb one, or none. Every line is a process of
\* its own: what one leaves behind is in files, which the other modules have.
Enter ==
  /\ exit = "shell" /\ ran = NoLine
  /\ \E words \in Lines, tty \in {"full", "dumb", "none"} :
       ran' = [words |-> words, tty |-> tty, outcome |-> runCli(words, tty)]
  /\ exit' = IF ran'.outcome.does = "ui" THEN "opening" ELSE "shell"
  /\ UNCHANGED <<state, latest, size, doctors, links>>

\* The UI is loaded and drawn, on the screen the line names.
Open ==
  /\ exit = "opening" /\ exit' = "no"
  /\ state' = initialState(ran.outcome.screen) /\ latest' = state'
  /\ ran' = NoLine
  /\ UNCHANGED <<size, doctors, links>>

-----------------------------------------------------------------------------
(* The layout.                                                             *)

Clamp(n, low, high) == IF n > high THEN IF high < low THEN low ELSE high
                       ELSE IF n < low THEN low ELSE n
AtLeast(n, low) == IF n < low THEN low ELSE n

Welcomes(z) == z.rows >= WelcomeRows /\ z.columns >= WelcomeColumns
BodyRows(z) == z.rows - 5 - (IF Welcomes(z) THEN BrandRows ELSE 1)
LargeEnough(z) == z.rows >= MinRows /\ z.columns >= MinColumns

\* The KeyView a press is handled with.
LogRows(z) == AtLeast(BodyRows(z) - 1, 1)
Page(z) == AtLeast(LogRows(z) - 1, 1)
HelpMax(s, z) ==
  AtLeast((IF s.open THEN HelpLines[s.selected][z.columns] ELSE 0) - (BodyRows(z) - 1), 0)

ConfigWindow(s, z, warned) == RowWindow(s.rows, s.cursor, BodyRows(z) - 2 - (IF warned THEN 1 ELSE 0))

\* linesOf(): the commands with their headings; the line a command is on, from 0.
HeadingsTo(i) == Cardinality({j \in 1..i : Commands[j]})

\* Mutant: the headings above it are forgotten.
BareLine(i) == i - 1

CommandLine(i) == i - 1 + HeadingsTo(i)
CommandsWindow(s, z) ==
  RowWindow(Len(Commands) + HeadingsTo(Len(Commands)), CommandLine(s.selected), BodyRows(z) - 1)

-----------------------------------------------------------------------------
(* The reducer.                                                            *)

Act(type, to, by) == [type |-> type, to |-> to, by |-> by]
Nothing == Act("none", "none", 0)
Close == Act("overlay", "none", 0)

TabAt(n) == Tabs[(n % Len(Tabs)) + 1]
TabIndex(tab) == (CHOOSE i \in DOMAIN Tabs : Tabs[i] = tab) - 1

\* The numbers of an action: what they move by, or the field and the text they name.
reduce(s, a) ==
  CASE a.type = "none" -> s
    [] a.type = "tab" -> [s EXCEPT !.tab = a.to]
    [] a.type = "tab-step" -> [s EXCEPT !.tab = TabAt(TabIndex(@) + Len(Tabs) + a.by)]
    [] a.type = "overlay" -> [s EXCEPT !.overlay = a.to]
    [] a.type = "daemon" -> [s EXCEPT !.daemon = a.to]
    [] a.type = "config-rows" ->
         [s EXCEPT !.rows = a.by, !.cursor = Clamp(@, 0, AtLeast(a.by - 1, 0))]
    [] a.type = "config-move" -> [s EXCEPT !.cursor = Clamp(@ + a.by, 0, AtLeast(s.rows - 1, 0))]
    [] a.type = "config-edit" -> [s EXCEPT !.editing = a.by, !.draft = 1]
    [] a.type = "config-draft" -> [s EXCEPT !.draft = a.by]
    [] a.type = "config-close" -> [s EXCEPT !.editing = 0, !.draft = 0]
    [] a.type = "logs-filter" -> [s EXCEPT !.filter = a.by, !.filtering = (a.to = "typing")]
    [] a.type = "doctor-running" -> [s EXCEPT !.running = TRUE]
    [] a.type = "doctor-results" -> [s EXCEPT !.running = FALSE, !.results = TRUE]
    [] a.type = "commands-move" -> [s EXCEPT !.selected = Clamp(@ + a.by, 1, Len(Commands))]
    [] a.type = "commands-open" -> [s EXCEPT !.open = (a.to = "open"), !.scroll = 0]
    [] a.type = "commands-scroll" -> [s EXCEPT !.scroll = a.by]
    [] a.type = "logs-view" -> s

-----------------------------------------------------------------------------
(* The keys. A row of a table: the keys, when they do something, the       *)
(* action and the command for the controller. Arrows and the like are not  *)
(* text; "x" is every letter that no screen knows.                         *)

Letters == {"s", "S", "R", "a", "r", "y", "n", "o", "u", "q", "g", "G", "f", "j", "k", "/", "?", "x",
            "1", "2", "3", "4", "5"}

Row(keys, when, act, cmd) == [keys |-> keys, when |-> when, act |-> act, cmd |-> cmd]
Does(keys, when, act) == Row(keys, when, act, "none")

Up(s) == s.daemon = "up"
Down(s) == s.daemon = "down"

OverlayKeys(s) ==
  { Row({"y"}, s.overlay \in Confirms, Close, s.overlay),
    Row({"o"}, s.overlay = "link", Close, "open-url"),
    Does({"esc", "q"}, TRUE, Close),
    Does({"n"}, s.overlay \in Confirms, Close),
    Does({"return", "?"}, s.overlay \notin Confirms, Close) }

EditKeys(s) ==
  { Does({"esc"}, TRUE, Act("config-close", "none", 0)),
    Row({"return"}, TRUE, Act("config-close", "none", 0), "config-set"),
    Does({"back"}, TRUE, Act("config-draft", "none", AtLeast(s.draft - 1, 0))),
    Does({"^u"}, TRUE, Act("config-draft", "none", 0)),
    Does(Letters, s.draft < MaxTyped, Act("config-draft", "none", s.draft + 1)) }

FilterKeys(s) ==
  { Does({"esc"}, TRUE, Act("logs-filter", "done", 0)),
    Does({"return"}, TRUE, Act("logs-filter", "done", s.filter)),
    Does({"back"}, TRUE, Act("logs-filter", "typing", AtLeast(s.filter - 1, 0))),
    Does(Letters, s.filter < MaxTyped, Act("logs-filter", "typing", s.filter + 1)) }

GlobalKeys ==
  { Does({"1"}, TRUE, Act("tab", Tabs[1], 0)), Does({"2"}, TRUE, Act("tab", Tabs[2], 0)),
    Does({"3"}, TRUE, Act("tab", Tabs[3], 0)), Does({"4"}, TRUE, Act("tab", Tabs[4], 0)),
    Does({"5"}, TRUE, Act("tab", Tabs[5], 0)),
    Does({"tab", "right"}, TRUE, Act("tab-step", "none", 1)),
    Does({"shift-tab", "left"}, TRUE, Act("tab-step", "none", -1)),
    Does({"?"}, TRUE, Act("overlay", "help", 0)),
    Row({"q"}, TRUE, Nothing, "quit") }

\* "Esc first undoes what is on screen [...]; with nothing to undo, it leaves."
EscKeys(s) ==
  LET filtered == s.tab = "logs" /\ s.filter # 0
      reading == s.tab = "commands" /\ s.open
  IN { Does({"esc"}, filtered, Act("logs-filter", "done", 0)),
       Does({"esc"}, reading, Act("commands-open", "list", 0)),
       Row({"esc"}, ~filtered /\ ~reading, Nothing, "quit") }

OverviewKeys(s) ==
  { Row({"s"}, Down(s), Nothing, "start"),
    Does({"S"}, Up(s), Act("overlay", "stop", 0)),
    Does({"R"}, Up(s), Act("overlay", "restart", 0)),
    Row({"a"}, Up(s), Nothing, "admin-link"),
    Row({"r"}, TRUE, Nothing, "refresh") }

LogsKeys(s) ==
  { Does({"up", "k", "down", "j", "pgup", "pgdn", "g", "home", "G", "end", "f"}, TRUE,
         Act("logs-view", "none", 0)),
    Does({"/"}, TRUE, Act("logs-filter", "typing", s.filter)) }

\* Enter on a yes-or-no field or a choice sets it at once; any other opens the editor.
ConfigKeys(s) ==
  LET field == s.cursor + 1 IN
  { Does({"up", "k"}, TRUE, Act("config-move", "none", -1)),
    Does({"down", "j"}, TRUE, Act("config-move", "none", 1)),
    Row({"return"}, field <= s.rows /\ Fields[field] = "flip", Nothing, "config-set"),
    Does({"return"}, field <= s.rows /\ Fields[field] = "text", Act("config-edit", "none", field)),
    Row({"u"}, field <= s.rows, Nothing, "config-unset") }

CommandsKeys(s, z) ==
  LET Scroll(by) == Act("commands-scroll", "none", Clamp(s.scroll + by, 0, HelpMax(s, z)))
      Move(by) == Act("commands-move", "none", by)
  IN { Does({"up", "k"}, s.open, Scroll(-1)), Does({"down", "j"}, s.open, Scroll(1)),
       Does({"pgup"}, s.open, Scroll(-Page(z))), Does({"pgdn"}, s.open, Scroll(Page(z))),
       Does({"return"}, s.open, Act("commands-open", "list", 0)),
       Does({"up", "k"}, ~s.open, Move(-1)), Does({"down", "j"}, ~s.open, Move(1)),
       Does({"pgup"}, ~s.open, Move(-Page(z))), Does({"pgdn"}, ~s.open, Move(Page(z))),
       Does({"return"}, ~s.open, Act("commands-open", "open", 0)) }

TabKeys(s, z) ==
  CASE s.tab = "overview" -> OverviewKeys(s)
    [] s.tab = "logs" -> LogsKeys(s)
    [] s.tab = "config" -> ConfigKeys(s)
    [] s.tab = "doctor" -> {Row({"r"}, TRUE, Nothing, "doctor")}
    [] s.tab = "commands" -> CommandsKeys(s, z)

ScreenKeys(s, z) == GlobalKeys \cup EscKeys(s) \cup TabKeys(s, z)

\* Mutant: going to another screen comes before the editors.
TableGlobalFirst(s, z) ==
  IF s.overlay # "none" THEN OverlayKeys(s)
  ELSE IF s.editing # 0 /\ s.tab = "config"
       THEN {r \in EditKeys(s) : r.keys # Letters} \cup {r \in GlobalKeys : r.act.type = "tab-step"}
  ELSE IF s.filtering /\ s.tab = "logs" THEN FilterKeys(s)
  ELSE ScreenKeys(s, z)

\* Who has the keyboard: an overlay, else the screen's editor, else the screen.
Table(s, z) ==
  IF s.overlay # "none" THEN OverlayKeys(s)
  ELSE IF s.editing # 0 /\ s.tab = "config" THEN EditKeys(s)
  ELSE IF s.filtering /\ s.tab = "logs" THEN FilterKeys(s)
  ELSE ScreenKeys(s, z)

Answers(key, s, z) == {r \in Table(s, z) : key \in r.keys /\ r.when}

\* handleKey: what the press of some key does; of any other key, nothing.
handleKey(s, z) == {r \in Table(s, z) : r.when}

-----------------------------------------------------------------------------
(* The hints: a key of each, by the screen whose footer has it.            *)

Hint(key, when) == [key |-> key, when |-> when]

\* Mutant: starting is offered while the daemon is looked for.
HintsEager(s) ==
  CASE s.tab = "overview" -> {Hint("s", ~Up(s)), Hint("S", Up(s)), Hint("r", TRUE)}
    [] OTHER -> {}

\* HINTS
Hints(s) ==
  CASE s.tab = "overview" ->
         {Hint("s", Down(s)), Hint("S", Up(s)), Hint("R", Up(s)), Hint("a", Up(s)), Hint("r", TRUE)}
    [] s.tab = "logs" -> {Hint(k, TRUE) : k \in {"up", "pgup", "g", "f", "/"}}
    [] s.tab = "config" -> {Hint(k, TRUE) : k \in {"down", "return", "u"}}
    [] s.tab = "doctor" -> {Hint("r", TRUE)}
    [] s.tab = "commands" ->
         {Hint("down", ~s.open), Hint("return", ~s.open), Hint("down", s.open), Hint("esc", s.open)}

\* GLOBAL_HINTS, without those for the help only.
GlobalHints == {Hint(k, TRUE) : k \in {"right", "?", "q"}}

footerHints(s) == {h.key : h \in {h \in Hints(s) \cup GlobalHints : h.when}}

-----------------------------------------------------------------------------
(* The app.                                                                *)

Running == exit = "no"

Dispatch(a) == state' = reduce(state, a)

\* The controller takes the command; these are the ones that answer with an action of
\* the screens. "doctor-running" is dispatched before anything is awaited.
Carry(cmd, a) ==
  CASE cmd = "doctor" ->
         /\ doctors < MaxRuns /\ doctors' = doctors + 1
         /\ state' = reduce(reduce(state, a), Act("doctor-running", "none", 0))
         /\ UNCHANGED links
    [] cmd = "admin-link" ->
         /\ links < MaxRuns /\ links' = links + 1 /\ Dispatch(a) /\ UNCHANGED doctors
    [] OTHER -> Dispatch(a) /\ UNCHANGED <<doctors, links>>

\* The process has ended, and what it showed and asked for is gone with it.
Gone(how) ==
  /\ exit' = how
  /\ state' = initialState("overview") /\ latest' = state'
  /\ doctors' = 0 /\ links' = 0
  /\ UNCHANGED <<size, ran>>

\* Mutant: the handler sees what is on the screen, not what the keys have done since.
PressOnRendered ==
  /\ Running
  /\ \E r \in handleKey(latest, size) : r.cmd # "quit" /\ Carry(r.cmd, r.act)
  /\ UNCHANGED <<latest, size, exit, ran>>

\* useInput: "each press must see what the previous one did"
Press ==
  /\ Running
  /\ \E r \in handleKey(latest, size) :
       r.cmd # "quit" /\ Carry(r.cmd, r.act) /\ latest' = reduce(latest, r.act)
  /\ UNCHANGED <<size, exit, ran>>

Quit ==
  /\ Running
  /\ \E r \in handleKey(latest, size) : r.cmd = "quit"
  /\ Gone("ok")

DoctorPending(s) == s.tab = "doctor" /\ ~s.results /\ ~s.running

\* Mutant: doctor runs on its own only when the UI is opened on its screen.
RenderWithoutEffect ==
  /\ Running /\ latest # state
  /\ latest' = state
  /\ UNCHANGED <<state, size, doctors, links, exit, ran>>

\* A frame; the effect after it runs doctor the first time its screen is open.
Render ==
  /\ Running /\ (latest # state \/ DoctorPending(state))
  /\ latest' = state
  /\ IF DoctorPending(state) THEN Carry("doctor", Nothing)
     ELSE UNCHANGED <<state, doctors, links>>
  /\ UNCHANGED <<size, exit, ran>>

Resize(z) ==
  /\ Running /\ z # size /\ size' = z
  /\ UNCHANGED <<state, latest, doctors, links, exit, ran>>

\* runTui: Ctrl+C leaves like q does; a signal makes the exit code 130.
Leave(how) ==
  /\ Running
  /\ Gone(how)

\* What the controller tells on its own: the daemon's state and the configuration.
DaemonSeen(kind) ==
  /\ Running /\ Dispatch(Act("daemon", kind, 0))
  /\ UNCHANGED <<latest, size, doctors, links, exit, ran>>

ConfigRead ==
  /\ Running /\ Dispatch(Act("config-rows", "none", Len(Fields)))
  /\ UNCHANGED <<latest, size, doctors, links, exit, ran>>

\* The checks have run, or failed with no results at all.
DoctorDone ==
  /\ Running /\ doctors > 0 /\ doctors' = doctors - 1
  /\ Dispatch(Act("doctor-results", "none", 0))
  /\ UNCHANGED <<latest, size, links, exit, ran>>

\* The link, or that the running daemon has no admin: over whatever is on the screen by now.
LinkAnswered(overlay) ==
  /\ Running /\ links > 0 /\ links' = links - 1
  /\ Dispatch(Act("overlay", overlay, 0))
  /\ UNCHANGED <<latest, size, doctors, exit, ran>>

Next ==
  \/ Enter
  \/ Open
  \/ Press
  \/ Quit
  \/ Render
  \/ \E z \in Sizes : Resize(z)
  \/ \E how \in {"ok", "interrupted"} : Leave(how)
  \/ \E kind \in {"up", "down"} : DaemonSeen(kind)
  \/ ConfigRead
  \/ DoctorDone
  \/ \E overlay \in {"link", "linkerror"} : LinkAnswered(overlay)

Spec == Init /\ [][Next]_vars

\* Frames are drawn and the checks of doctor end; nobody has to press a key.
FairSpec == Spec /\ WF_vars(Render) /\ WF_vars(DoctorDone)

-----------------------------------------------------------------------------
(* What the screens owe the person.                                        *)

\* What only keys change. Keys come faster than frames: the handler of each must see what
\* the presses before it did, whatever the controller dispatched meanwhile; from the first
\* frame with the configuration on.
OfTheKeys(s) ==
  <<s.tab, s.cursor, s.editing, s.draft, s.filter, s.filtering, s.selected, s.open, s.scroll>>
EachPressSeesTheLast == latest.rows = state.rows => OfTheKeys(latest) = OfTheKeys(state)

\* The editor is only ever open on its own screen, on the row under the cursor, and so is
\* the filter prompt on the Logs screen: nothing that is typed goes to a field out of sight.
\* Overlays come and go over them, and the configuration is read again under them.
EditorOnItsScreen ==
  /\ state.editing # 0 => /\ state.tab = "config" /\ state.editing = state.cursor + 1
                          /\ Fields[state.editing] = "text"
  /\ state.filtering => state.tab = "logs"

\* "a test proves every hint in the table does something": in every state that a screen has
\* the keyboard in, once there is a configuration to show, and at every size of the terminal;
\* and no key means two things at a time.
HintsWork ==
  /\ (state.overlay = "none" /\ state.editing = 0 /\ ~state.filtering /\ state.rows > 0) =>
       \A key \in footerHints(state) : Answers(key, state, size) # {}
  /\ LET table == handleKey(state, size)
     IN \A q, r \in table : q # r => q.keys \cap r.keys = {}

\* The selected row, or the line of the selected command among the headings, is in the
\* part of the list that fits, at every size the frame is drawn at.
InWindow(line, w) == w.start <= line /\ line < w.start + w.count
CursorInView ==
  LargeEnough(size) =>
    /\ (state.tab = "config" /\ state.rows > 0) =>
         \A warned \in BOOLEAN : InWindow(state.cursor, ConfigWindow(state, size, warned))
    /\ (state.tab = "commands" /\ ~state.open) =>
         InWindow(state.selected - 1 + HeadingsTo(state.selected), CommandsWindow(state, size))

\* Whoever stays on the Doctor screen gets its results, and the spinner of a run stops.
DoctorAnswers ==
  /\ <>[](state.tab = "doctor" /\ Running) => <>(state.results)
  /\ [](state.running => <>(~state.running \/ ~Running))

\* "so the screen can never disagree with the CLI": what the Commands screen says of a command
\* is what its words do on a terminal, with the arguments it needs: a command that works runs,
\* one of a later iteration ends with 3, a group goes on to its default or shows its help and
\* ends with 2. Only `update`, which is shown as working, wants --check.
Plain(words) == \A w \in ToSet(words) : ~Dashed(w)
ScreenAgreesWithCli ==
  LET o == ran.outcome
      Typed(row) == /\ ran.tty = "full" /\ Plain(ran.words) /\ IsPrefix(row.path, ran.words)
                    /\ Len(ran.words) - Len(row.path) \in row.need..row.most
  IN ran # NoLine => \A row \in {row \in commandRows : Typed(row) /\ row.path # <<"update">>} :
       /\ row.status = "works" => o.does \in {"runs", "ui"} /\ o.path = row.path
       /\ row.status = "iteration" => o.does = "error" /\ o.code = 3
       /\ row.status = "group" => \/ o.does = "help" /\ o.code = 2
                                  \/ o.does = "runs" /\ IsPrefix(row.path, o.path)
       /\ row.status # "later"

\* "Global flags are accepted anywhere in argv": -q before, between or after the words of any
\* line changes nothing but that it is quiet, up to a `--`; from there on it is an argument.
\* The one other place is the value of --data-folder.
FlagsAnywhere ==
  LET Same(quiet, line) ==
        /\ <<quiet.does, quiet.path, quiet.code>> = <<line.does, line.path, line.code>>
        /\ quiet.does \in {"runs", "ui"} => "quiet" \in quiet.globals
      Fits(verbatim, quiet, line) ==
        IF verbatim THEN quiet.globals = line.globals ELSE Same(quiet, line)
  IN ran # NoLine => \A i \in 1..(Len(ran.words) + 1) :
       (i = 1 \/ ran.words[i - 1] # "--data-folder") =>
         Fits("--" \in ToSet(SubSeq(ran.words, 1, i - 1)),
              runCli(InsertAt(ran.words, i, "-q"), ran.tty), ran.outcome)

-----------------------------------------------------------------------------
(* What the comments say and the code does not do.                         *)

\* "nothing can drift between what a command accepts and what it says it accepts": an option that
\* completion and help offer reaches its command. `atc update --version 1.2.3` prints the version
\* of this atc: the global --version is taken out of the line first. (The words that --screen
\* of `tui` takes are few.)
OfferedIsTaken ==
  \A c \in {c \in AllCommands : c.path \notin Hidden \cup {<<"tui">>}} : \A option \in c.flags \cup c.takes :
    LET value == IF option \in c.takes THEN 1 ELSE 0
        given == Len(ran.words) - Len(c.path) - 1
    IN (/\ IsPrefix(Append(c.path, option), ran.words) /\ option \in wordsFor(c.path)
        /\ Plain(SubSeq(ran.words, Len(c.path) + 2, Len(ran.words)))
        /\ given - value \in c.need..c.most /\ ran.tty = "full") =>
          ran.outcome.path = c.path /\ ran.outcome.code # 2

\* "each press must see what the previous one did": a press on the Config screen between the
\* coming of the configuration and the frame that shows it moves a cursor in no rows.
EveryPressSeesTheLast == OfTheKeys(latest) = OfTheKeys(state)

\* The footer's hints, whoever has the keyboard.
FooterIsTrue == state.rows > 0 => \A key \in footerHints(state) : Answers(key, state, size) # {}

\* `{ running: false, results }` when the first of two runs ends: the other still runs.
SpinnerWhileChecking == (doctors > 0 /\ Running) => state.running

\* The help on the screen is never scrolled past its end.
HelpShown == state.open => state.scroll <= HelpMax(state, size)
=============================================================================
