------------------------------ MODULE CommandTree ------------------------------
(***************************************************************************)
(* The commands of `atc` as src/commands/*.ts define them, in the order of *)
(* walkCommands: what the command line resolves and parses by, and what    *)
(* help, completion and the Commands screen show.                          *)
(***************************************************************************)
EXTENDS Naturals, Sequences, TLC

\* A command: its words; what it is; how many arguments it needs and takes; its boolean
\* options, and those that take a value; and of a group, the subcommand a bare call is for.
Command(path, kind, need, most, flags, takes, default) ==
  [path |-> path, kind |-> kind, need |-> need, most |-> most, flags |-> flags, takes |-> takes,
   default |-> default]

Runs(path, flags, takes) == Command(path, "runs", 0, 0, flags, takes, "none")
RunsOn(path, n) == Command(path, "runs", n, n, {}, {}, "none")
Group(path, default) == Command(path, "group", 0, 0, {}, {}, default)

\* notImplemented()
Stub(path, flags, takes) == Command(path, "stub", 0, 0, flags, takes, "none")
StubOn(path, need, flags, takes) == Command(path, "stub", need, 1, flags, takes, "none")

startCommand == << Runs(<<"start">>, {"--admin", "--foreground"}, {"--admin-port"}) >>
stopCommand == << Runs(<<"stop">>, {"--force", "--kill"}, {}) >>
restartCommand == << Runs(<<"restart">>, {}, {}) >>
statusCommand == << Runs(<<"status">>, {"--watch"}, {}) >>
logsCommand == << Runs(<<"logs">>, {"--follow"}, {"--lines"}) >>

runCommand == << StubOn(<<"run">>, 1, {"--embedding"}, {"--engine"}) >>
unloadCommand == << StubOn(<<"unload">>, 0, {"--all"}, {}) >>

modelsCommand ==
  << Group(<<"models">>, "none"),
     StubOn(<<"models", "search">>, 1, {"--fit"}, {"--limit"}),
     StubOn(<<"models", "pull">>, 1, {"--mmproj"}, {"--quant", "--hf-token"}),
     Stub(<<"models", "list">>, {"--loaded"}, {}),
     StubOn(<<"models", "rm">>, 1, {}, {}),
     StubOn(<<"models", "info">>, 1, {}, {}) >>

enginesCommand ==
  << Group(<<"engines">>, "none"),
     Stub(<<"engines", "list">>, {}, {"--engine"}),
     StubOn(<<"engines", "install">>, 0, {"--force", "--dry-run"}, {"--build", "--resume"}),
     Stub(<<"engines", "status">>, {}, {}),
     StubOn(<<"engines", "rm">>, 1, {}, {"--build"}) >>

hardwareCommand ==
  << Group(<<"hardware">>, "none"),
     Stub(<<"hardware", "show">>, {}, {}),
     Stub(<<"hardware", "refresh">>, {}, {"--cpu-extensions"}) >>

apiOptions == {"--port", "--host", "--api-key", "--api-key-file"}
apiCommand ==
  << Group(<<"api">>, "none"),
     Stub(<<"api", "start">>, {"--cors"}, apiOptions \cup {"--prefix", "--trusted-host"}),
     Stub(<<"api", "stop">>, {}, {}),
     Stub(<<"api", "status">>, {}, {}),
     Group(<<"api", "key">>, "none"),
     Stub(<<"api", "key", "show">>, {"--reveal"}, {}),
     StubOn(<<"api", "key", "set">>, 1, {}, {}),
     Stub(<<"api", "key", "rotate">>, {}, {}),
     Stub(<<"api", "key", "clear">>, {}, {}) >>

adminCommand ==
  << Group(<<"admin">>, "open"),
     Runs(<<"admin", "open">>, {"--open"}, {"--host", "--port"}),
     Runs(<<"admin", "status">>, {}, {}),
     Runs(<<"admin", "token">>, {"--rotate"}, {}) >>

tuiCommand == << Runs(<<"tui">>, {}, {"--screen"}) >>

configCommand ==
  << Group(<<"config">>, "none"),
     RunsOn(<<"config", "get">>, 1), RunsOn(<<"config", "set">>, 2), RunsOn(<<"config", "unset">>, 1),
     Runs(<<"config", "list">>, {}, {}), Runs(<<"config", "path">>, {}, {}) >>

doctorCommand == << Runs(<<"doctor">>, {}, {}) >>

serviceCommand ==
  << Group(<<"service">>, "none"),
     Stub(<<"service", "install">>, {"--system"}, {"--name"}),
     Stub(<<"service", "uninstall">>, {}, {}),
     Stub(<<"service", "status">>, {}, {}),
     Stub(<<"service", "start">>, {}, {}),
     Stub(<<"service", "stop">>, {}, {}) >>

updateCommand == << Runs(<<"update">>, {"--check"}, {"--version"}) >>
versionCommand == << Runs(<<"version">>, {}, {}) >>
completionCommand == << RunsOn(<<"completion">>, 1) >>

daemonCommand ==
  << Runs(<<"daemon">>, {"--admin"},
          {"--control-port", "--control-host", "--admin-host", "--admin-port", "--telemetry"}) >>
hostStepCommand == << Group(<<"host-step">>, "none"), RunsOn(<<"host-step", "exec">>, 1) >>

\* Other words for an option: its letter, or its negation where the help has one.
Short == ("-f" :> "--follow") @@ ("-n" :> "--lines")
Negative == ("--no-admin" :> "--admin") @@ ("--no-open" :> "--open") @@ ("--no-cors" :> "--cors")

\* The commands marked hidden.
Hidden == {<<"daemon">>, <<"host-step">>}

ROOT ==
  startCommand \o stopCommand \o restartCommand \o statusCommand \o logsCommand \o runCommand
    \o unloadCommand \o modelsCommand \o enginesCommand \o hardwareCommand \o apiCommand \o adminCommand \o tuiCommand \o configCommand
    \o doctorCommand \o serviceCommand \o updateCommand \o versionCommand \o completionCommand
    \o daemonCommand \o hostStepCommand

\* PLANNED: the stubs, each with the iteration it is planned for.
PLANNED ==
  [i \in {"2", "3", "4", "6"} |->
    CASE i = "2" -> {<<"run">>, <<"unload">>, <<"api", "start">>, <<"api", "stop">>, <<"api", "status">>,
                     <<"models", "pull">>, <<"engines", "install">>}
      [] i = "3" -> {<<"api", "key", "show">>, <<"api", "key", "set">>, <<"api", "key", "rotate">>,
                     <<"api", "key", "clear">>, <<"models", "search">>, <<"models", "list">>,
                     <<"models", "rm">>, <<"models", "info">>}
      [] i = "4" -> {<<"engines", "list">>, <<"engines", "status">>, <<"engines", "rm">>,
                     <<"hardware", "show">>, <<"hardware", "refresh">>}
      [] i = "6" -> {<<"service", s>> : s \in {"install", "uninstall", "status", "start", "stop"}}]
=============================================================================
