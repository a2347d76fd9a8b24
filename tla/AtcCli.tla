--------------------------------- MODULE AtcCli ---------------------------------
(***************************************************************************)
(* What `atc` does with the words it is given: the global flags, which are *)
(* taken out wherever they stand (src/cli/flags.ts), the command the first *)
(* words lead to and its options and arguments (src/cli/command.ts), and   *)
(* the dispatcher (src/main.ts) with its exit codes; and what completion   *)
(* and the Commands screen say about the same tree. A word is a string as  *)
(* the shell hands it over. `--name=value` of a command's option is the    *)
(* two words of it, and a value joined on that begins with a dash is left  *)
(* out; of --data-folder it is one word, whatever the value is.            *)
(***************************************************************************)
EXTENDS CommandTree, SequencesExt, FiniteSetsExt

AllCommands == ToSet(ROOT)
Root == Group(<<>>, "none")
Paths == {c.path : c \in AllCommands}

CommandAt(path) == IF path = <<>> THEN Root ELSE CHOOSE c \in AllCommands : c.path = path

\* BOOLEANS
Booleans ==
  [w \in {"--json", "--verbose", "-v", "--quiet", "-q", "--yes", "-y", "--no-color", "--help", "-h",
          "--version"} |->
     CASE w \in {"--verbose", "-v"} -> "verbose" [] w \in {"--quiet", "-q"} -> "quiet"
       [] w \in {"--yes", "-y"} -> "yes"         [] w \in {"--help", "-h"} -> "help"
       [] w = "--json" -> "json" [] w = "--no-color" -> "noColor" [] w = "--version" -> "version"]

\* startsWith('-'), of the words there are; "--unknown" stands for any that no command knows.
Dashes ==
  (UNION {c.flags \cup c.takes : c \in AllCommands}) \cup DOMAIN Short \cup DOMAIN Negative
    \cup DOMAIN Booleans \cup {"--", "--data-folder", "--data-folder=path", "--data-folder=", "--unknown"}
Dashed(w) == w \in Dashes

-----------------------------------------------------------------------------
(* The global flags.                                                       *)

\* Mutant: they are looked for after `--` as well.
splitAll(argv) ==
  [globals |-> {Booleans[w] : w \in ToSet(argv) \cap DOMAIN Booleans},
   rest |-> SelectSeq(argv, LAMBDA w : w \notin DOMAIN Booleans), at |-> "word"]

\* at: what the next word is. After `--`, what it says. A line that ends where a path is due,
\* or has an option there, is a usage error. A path that is joined on may begin with a dash.
Split(at, globals, rest) == [at |-> at, globals |-> globals, rest |-> rest]

GlobalFlag(s, w) ==
  IF w = "--" THEN Split("verbatim", s.globals, Append(s.rest, w))
  ELSE IF w = "--data-folder" THEN Split("path", s.globals, s.rest)
  ELSE IF w = "--data-folder=" THEN Split("error", s.globals, s.rest)
  ELSE IF w = "--data-folder=path" THEN Split("word", s.globals, s.rest)
  ELSE IF w \in DOMAIN Booleans THEN Split("word", s.globals \cup {Booleans[w]}, s.rest)
  ELSE Split("word", s.globals, Append(s.rest, w))

NextWord(s, w) ==
  IF s.at = "word" THEN GlobalFlag(s, w)
  ELSE IF s.at = "path" THEN Split(IF Dashed(w) THEN "error" ELSE "word", s.globals, s.rest)
  ELSE IF s.at = "verbatim" THEN Split("verbatim", s.globals, Append(s.rest, w))
  ELSE s

splitGlobalFlags(argv) == FoldLeft(NextWord, Split("word", {}, <<>>), argv)

-----------------------------------------------------------------------------
(* The command and its own options.                                        *)

\* As far as the leading words go, and on to the group's default when no word follows.
resolveCommand(args) ==
  LET Target(at, left) ==
        [command |-> IF at.default # "none" /\ (left = <<>> \/ Dashed(left[1]))
                     THEN CommandAt(Append(at.path, at.default)) ELSE at,
         args |-> left]
      After(named) == Target(CommandAt(SubSeq(args, 1, named)), SubSeq(args, named + 1, Len(args)))
  IN After(Max({n \in 0..Len(args) : \A m \in 1..n : SubSeq(args, 1, m) \in Paths}))

\* node's parseArgs, strict: the values of the options, the last one said of each, and the
\* number of arguments; or an error, which is also the end in place of an option's value.
Long(w) == IF w \in DOMAIN Short THEN Short[w] ELSE w
Option(c, s, w) ==
  CASE w = "--" -> [s EXCEPT !.at = "verbatim"]
    [] Long(w) \in c.takes -> [s EXCEPT !.at = "value", !.option = Long(w)]
    [] Long(w) \in c.flags -> [s EXCEPT !.values = (Long(w) :> "yes") @@ @]
    [] w \in DOMAIN Negative /\ Negative[w] \in c.flags ->
         [s EXCEPT !.values = (Negative[w] :> "no") @@ @]
    [] OTHER -> [s EXCEPT !.at = "error"]
Word(c, s, w) ==
  CASE s.at = "word" /\ Dashed(w) -> Option(c, s, w)
    [] s.at = "verbatim" \/ (s.at = "word" /\ ~Dashed(w)) -> [s EXCEPT !.words = @ + 1]
    [] s.at = "value" /\ ~Dashed(w) -> [s EXCEPT !.at = "word", !.values = (s.option :> w) @@ @]
    [] s.at = "error" \/ (s.at = "value" /\ Dashed(w)) -> [s EXCEPT !.at = "error"]

parseInvocation(c, args) ==
  FoldLeft(LAMBDA s, w : Word(c, s, w),
           [at |-> "word", option |-> "none", values |-> <<>>, words |-> 0], args)

\* And the arguments the command needs and takes.
Accepts(c, parsed) ==
  /\ parsed.at \in {"word", "verbatim"}
  /\ c.need <= parsed.words /\ parsed.words <= c.most

-----------------------------------------------------------------------------
(* The dispatcher. An outcome: what is done, by which command, the exit    *)
(* code (that of a command of its own is its component's), and the global  *)
(* flags it is done under.                                                 *)

SCREENS == {"overview", "logs", "config", "doctor", "commands"}

Outcome(does, path, code, globals) ==
  [does |-> does, path |-> path, code |-> code, globals |-> globals, screen |-> "none"]

\* The UI is opened, on this screen.
Opens(screen, path, globals) == [Outcome("ui", path, 0, globals) EXCEPT !.screen = screen]

\* opensTui(): a terminal is on both ends and TERM is not "dumb".
opensTui(split, tty) == split.rest = <<>> /\ split.globals \cap {"json", "help", "version"} = {} /\ tty = "full"

\* tuiCommand.run takes any terminal; --screen is "overview" by default.
screenOf(values) == IF "--screen" \in DOMAIN values THEN values["--screen"] ELSE "overview"

\* What is not implemented of commands that are: an option, or going without one.
Unfinished(path, values) ==
  LET Said(option) == option \in DOMAIN values /\ values[option] = "yes"
  IN \/ path = <<"start">> /\ Said("--foreground")
     \/ path = <<"status">> /\ Said("--watch")
     \/ path = <<"logs">> /\ Said("--follow")
     \/ path = <<"update">> /\ ~Said("--check")

\* Mutant: a stub that ends like a failure.
RunAndFail(c, values, globals, tty) ==
  Outcome(IF c.kind = "stub" THEN "error" ELSE "runs", c.path, IF c.kind = "stub" THEN 1 ELSE 0, globals)

\* exitCodeFor(): 2 for usage, 3 for what is not implemented yet.
Run(c, values, globals, tty) ==
  IF c.kind = "stub" \/ Unfinished(c.path, values) THEN Outcome("error", c.path, 3, globals)
  ELSE IF c.path # <<"tui">> THEN Outcome("runs", c.path, 0, globals)
  ELSE IF screenOf(values) \notin SCREENS \/ tty = "none" \/ "json" \in globals
       THEN Outcome("error", c.path, 2, globals)
  ELSE Opens(screenOf(values), c.path, globals)

\* What is left of the line when the global flags make sense: they come before any mistake in it.
OutcomeOf(to, parsed, globals, tty) ==
  LET Ends(does, code) == Outcome(does, to.command.path, code, globals)
  IN IF "version" \in globals THEN Outcome("version", <<>>, 0, globals)
     ELSE IF "help" \in globals THEN Ends("help", 0)
     ELSE IF to.command.kind = "group" /\ to.args = <<>> THEN Ends("help", 2)
     ELSE IF ~Accepts(to.command, parsed) THEN Ends("error", 2)
     ELSE IF to.command.kind = "group" THEN Ends("help", 2)
     ELSE Run(to.command, parsed.values, globals, tty)

runCli(argv, tty) ==
  LET Parse(split, to) == OutcomeOf(to, parseInvocation(to.command, to.args), split.globals, tty)
      Resolve(split) ==
        IF split.at \in {"path", "error"} THEN Outcome("error", <<>>, 2, split.globals)
        ELSE Parse(split, resolveCommand(IF opensTui(split, tty) THEN <<"tui">> ELSE split.rest))
  IN Resolve(splitGlobalFlags(argv))

-----------------------------------------------------------------------------
(* What is said about the tree.                                            *)

Shown(c) == c.path \notin Hidden /\ <<c.path[1]>> \notin Hidden

\* commandRows(), with the status of each.
commandRows ==
  LET Planned(path) == \E i \in DOMAIN PLANNED : path \in PLANNED[i]
      Status(c) ==
        CASE c.kind = "stub" -> IF Planned(c.path) THEN "iteration" ELSE "later"
          [] c.kind = "group" -> "group"
          [] c.kind = "runs" -> "works"
  IN {[path |-> c.path, need |-> c.need, most |-> c.most, status |-> Status(c)] :
        c \in {c \in AllCommands : Shown(c)}}

\* completionTable(): the words offered after a path.
wordsFor(path) ==
  LET c == CommandAt(path)
      subs == {s \in AllCommands : Len(s.path) = Len(path) + 1 /\ IsPrefix(path, s.path)}
  IN {s.path[Len(s.path)] : s \in {s \in subs : s.path \notin Hidden}}
       \cup c.flags \cup c.takes \cup {"--help", "--json"}
=============================================================================
