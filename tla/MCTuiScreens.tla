------------------------------ MODULE MCTuiScreens ------------------------------
EXTENDS TuiScreens

\* Every command with up to two arguments, every option of it with what may follow it, and
\* lines nobody planned. "config" is a command, a screen and as good an argument as any.
Arguments == {<<"config", "config">>, <<"config">>, <<>>}
CommandLines == UNION {{c.path \o args : args \in Arguments} : c \in AllCommands}
OptionLines ==
  UNION {{c.path \o <<option>> \o args : args \in Arguments, option \in c.flags \cup c.takes} :
           c \in AllCommands}
OddLines ==
  { <<>>, <<"--json">>, <<"--help">>, <<"-h", "tui">>, <<"--version">>, <<"--">>, <<"--", "start">>,
    <<"config">>, <<"start">>, <<"--unknown">>, <<"start", "--unknown">>, <<"start", "--no-admin">>,
    <<"--data-folder">>, <<"--data-folder", "--", "start">>, <<"--data-folder", "config", "start">>,
    <<"start", "--data-folder", "config">>, <<"start", "--data-folder=path">>, <<"start", "--data-folder=">>,
    <<"--data-folder", "--data-folder=path">>, <<"--", "--data-folder=">>, <<"tui", "--json">>, <<"tui", "--screen", "logs">>,
    <<"tui", "--screen", "doctor">>, <<"tui", "--screen", "commands">>, <<"tui", "--screen", "start">>,
    <<"tui", "--screen", "logs", "--screen", "config">>, <<"config", "set", "--", "config", "-y">>,
    <<"logs", "-n", "config">>, <<"logs", "-n", "--", "config">>, <<"admin", "--no-open">>,
    <<"admin", "--port", "config">>, <<"admin", "config">>, <<"models", "--">>, <<"api", "key", "config">>,
    <<"start", "--", "config">>, <<"api", "config", "key">> }
MCLines == CommandLines \cup OptionLines \cup OddLines

MCFields == <<"flip", "text">>

\* Two groups of one command; the first has more help than fits.
MCCommands == <<TRUE, TRUE>>
MCHelpLines == [c \in 1..2 |-> [w \in {4, 6} |-> IF c = 1 THEN 9 - w ELSE 1]]

\* One line for the list; the welcome box and two lines for the list.
MCSizes == {[columns |-> 4, rows |-> 9], [columns |-> 6, rows |-> 11]}
=============================================================================
