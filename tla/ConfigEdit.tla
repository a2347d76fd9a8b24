------------------------------- MODULE ConfigEdit -------------------------------
(***************************************************************************)
(* config.json and those who edit it: `atc config set | unset`, each a     *)
(* process of its own, and the Config screen of the terminal UI, whose     *)
(* edits run in one process and do not wait for each other (src/config/    *)
(* edit.ts, file.ts, parse.ts, migrations.ts, resolve.ts).                 *)
(*                                                                         *)
(* An edit reads the file, types and checks its value, writes the whole    *)
(* document to a temporary file and renames it.  Files are inodes: a       *)
(* rename moves a name and leaves open files open.  writeFile is an open   *)
(* that truncates and a write, and the temporary file is named after the   *)
(* process.  Nothing is locked.                                            *)
(***************************************************************************)
EXTENDS Naturals

CONSTANTS Editor,    \* edits, each made once (a bound)
          Field,     \* FIELDS
          Engine,    \* the field that version 1 kept elsewhere, `engines.default`
          Unknown,   \* keys that are no field
          Value, Unset,
          Default,   \* [Field -> Value \cup {Unset}]
          Legal,     \* [Field -> SUBSET Value]: what checkValue() lets pass
          Override,  \* the value an environment variable gives
          Original,  \* the inode config.json starts with
          NoFile

ASSUME ConfigAssumption ==
  /\ Engine \in Field
  /\ Unset \notin Value /\ Override \in Value
  /\ Legal \in [Field -> SUBSET Value]
  /\ Default \in [Field -> Value \cup {Unset}]
  /\ \A f \in Field : Default[f] \in Legal[f] \cup {Unset}
  /\ Original \notin Editor /\ NoFile \notin Editor \cup {Original}
  /\ "tui" \notin Editor

VARIABLES
  tui,     \* the edits that are key presses in one terminal UI
  content, \* [Inode -> Content]
  conf,    \* the inode config.json names, or NoFile
  tmp,     \* [Process -> Inode or NoFile]: what config.json.<pid>.tmp names
  env,     \* the fields an environment variable overrides
  pc,      \* [Editor -> Point]
  edit,    \* [Editor -> Edit]: the key, and the text or Unset
  read,    \* [Editor -> Content]: what it has read of config.json
  fd,      \* [Editor -> Inode or NoFile]: the file it has opened
  result,  \* [Editor -> Result]
  mixed    \* history: two edits of the terminal UI have had the temporary file open

vars == <<tui, content, conf, tmp, env, pc, edit, read, fd, result, mixed>>

\* A new inode is known by the edit whose open() created it.
Inode == Editor \cup {Original}
Process == Editor \cup {"tui"}
ProcessOf(e) == IF e \in tui THEN "tui" ELSE e

\* A document as config.json holds it; `old` is where version 1 kept the engine.
Doc == [version : {1, 2, 3}, field : [Field -> Value \cup {Unset}],
        old : Value \cup {Unset}, unknown : SUBSET Unknown]
DefaultConfig == [version |-> 2, field |-> Default, old |-> Unset, unknown |-> {}]

\* What is in a file: a document, nothing, or parts of two documents.
Content == [state : {"absent", "empty", "whole", "torn"}, doc : Doc]
Empty == [state |-> "empty", doc |-> DefaultConfig]
Torn == [state |-> "torn", doc |-> DefaultConfig]
Absent == [state |-> "absent", doc |-> DefaultConfig]
Whole(d) == [state |-> "whole", doc |-> d]

Point == {"idle", "loaded", "opened", "written", "done"}
Edit == [key : Field, to : Value \cup {Unset}]
Result == {"none", "ok", "overridden", "refused", "error", "killed"}

TypeOK ==
  /\ tui \subseteq Editor
  /\ content \in [Inode -> Content]
  /\ conf \in Inode \cup {NoFile}
  /\ tmp \in [Process -> Inode \cup {NoFile}]
  /\ env \subseteq Field
  /\ pc \in [Editor -> Point]
  /\ edit \in [Editor -> Edit]
  /\ read \in [Editor -> Content]
  /\ fd \in [Editor -> Inode \cup {NoFile}]
  /\ result \in [Editor -> Result]
  /\ mixed \in BOOLEAN

\* Somebody's file, of any version, or none.  Only version 1 has the old key; version 3
\* stands for everything a newer atc writes.
Init ==
  /\ tui \in SUBSET Editor
  /\ \/ /\ conf = NoFile
        /\ content = [i \in Inode |-> Absent]
     \/ \E d \in Doc :
          /\ d.version # 1 => d.old = Unset
          /\ d.version = 3 => d = [DefaultConfig EXCEPT !.version = 3]
          /\ conf = Original
          /\ content = [i \in Inode |-> IF i = Original THEN Whole(d) ELSE Absent]
  /\ tmp = [p \in Process |-> NoFile]
  /\ env \in SUBSET Field
  /\ pc = [e \in Editor |-> "idle"]
  /\ edit = [e \in Editor |-> [key |-> Engine, to |-> Unset]]
  /\ read = [e \in Editor |-> Absent]
  /\ fd = [e \in Editor |-> NoFile]
  /\ result = [e \in Editor |-> "none"]
  /\ mixed = FALSE

-----------------------------------------------------------------------------
(* Reading a document.                                                     *)

\* migrateConfig(): the engine of version 1 becomes `engines.default`.
Migrate(d) ==
  IF d.version = 1
  THEN [d EXCEPT !.version = 2, !.old = Unset,
                 !.field[Engine] = IF d.old # Unset THEN d.old ELSE @]
  ELSE d

\* validateConfig(): every absent field gets its default; unknown keys are kept aside.
Validated(d) ==
  [d EXCEPT !.field = [f \in Field |-> IF d.field[f] = Unset THEN Default[f] ELSE d.field[f]]]

Problems(d) == {f \in Field : d.field[f] \notin Legal[f] \cup {Unset}}

Refused(c) ==
  \/ c.state \in {"empty", "torn"}
  \/ c.state = "whole" /\ (c.doc.version > 2 \/ Problems(Migrate(c.doc)) # {})

\* The file as resolveConfig() keeps it for writing back.
File(c) == IF c.state = "whole" THEN Validated(Migrate(c.doc)) ELSE DefaultConfig

\* resolveConfig(): the environment over the file over the defaults.
Values(c) == [f \in Field |-> IF f \in env THEN Override ELSE File(c).field[f]]

-----------------------------------------------------------------------------
(* An edit.                                                                *)

Current == IF conf = NoFile THEN Absent ELSE content[conf]

End(e, r) ==
  /\ pc' = [pc EXCEPT ![e] = "done"]
  /\ result' = [result EXCEPT ![e] = r]

\* Mutant: the value is typed and not checked.
LoadUnchecked(e) ==
  /\ pc[e] = "idle"
  /\ edit' \in {[edit EXCEPT ![e] = x] : x \in Edit}
  /\ read' \in {[read EXCEPT ![e] = c] : c \in {Current, Absent}}
  /\ IF Refused(read'[e]) THEN End(e, "error")
     ELSE pc' = [pc EXCEPT ![e] = "loaded"] /\ UNCHANGED result
  /\ UNCHANGED <<tui, content, conf, tmp, env, fd, mixed>>

\* loadConfig(), and the checks of setConfigValue(): nothing is written if one fails.
\* readTextFile() takes every error for a missing file.
Load(e) ==
  /\ pc[e] = "idle"
  /\ edit' \in {[edit EXCEPT ![e] = x] : x \in Edit}
  /\ read' \in {[read EXCEPT ![e] = c] : c \in {Current, Absent}}
  /\ IF Refused(read'[e]) THEN End(e, "error")
     ELSE IF edit'[e].to # Unset /\ edit'[e].to \notin Legal[edit'[e].key] THEN End(e, "refused")
     ELSE pc' = [pc EXCEPT ![e] = "loaded"] /\ UNCHANGED result
  /\ UNCHANGED <<tui, content, conf, tmp, env, fd, mixed>>

\* Mutant: the file is opened for writing under its own name.
OpenInPlace(e) ==
  /\ pc[e] = "loaded"
  /\ LET i == IF conf = NoFile THEN e ELSE conf IN
     /\ content' = [content EXCEPT ![i] = Empty]
     /\ tmp' = [tmp EXCEPT ![ProcessOf(e)] = i]
     /\ fd' = [fd EXCEPT ![e] = i]
  /\ pc' = [pc EXCEPT ![e] = "opened"]
  /\ UNCHANGED <<tui, conf, env, edit, read, result, mixed>>

\* Another edit of e's process is between open() and rename().
TmpInUse(e) == \E o \in Editor \ {e} : ProcessOf(o) = ProcessOf(e) /\ pc[o] \in {"opened", "written"}

\* writeFile(tmp), first half: open, created or truncated.
OpenTmp(e) ==
  /\ pc[e] = "loaded"
  /\ LET p == ProcessOf(e)
         i == IF tmp[p] = NoFile THEN e ELSE tmp[p]
     IN /\ content' = [content EXCEPT ![i] = Empty]
        /\ tmp' = [tmp EXCEPT ![p] = i]
        /\ fd' = [fd EXCEPT ![e] = i]
  /\ pc' = [pc EXCEPT ![e] = "opened"]
  /\ mixed' = (mixed \/ TmpInUse(e))
  /\ UNCHANGED <<tui, conf, env, edit, read, result>>

\* What an unset key is set to.
To(x) == IF x.to = Unset THEN Default[x.key] ELSE x.to

\* Mutant: what is written back is what the settings are, not what the file said.
FromValues(e) ==
  [File(read[e]) EXCEPT !.field = [Values(read[e]) EXCEPT ![edit[e].key] = To(edit[e])]]

\* writeKey(): the file's own document with one key changed.
Written(e) == [File(read[e]) EXCEPT !.field[edit[e].key] = To(edit[e])]

\* Second half: the text is written from the start of the file.  What was longer in
\* another edit's text stays behind it.
WriteTmp(e) ==
  /\ pc[e] = "opened"
  /\ \/ content' = [content EXCEPT ![fd[e]] = Whole(Written(e))]
     \/ /\ content[fd[e]].state # "empty"
        /\ content[fd[e]] # Whole(Written(e))
        /\ content' = [content EXCEPT ![fd[e]] = Torn]
  /\ pc' = [pc EXCEPT ![e] = "written"]
  /\ UNCHANGED <<tui, conf, tmp, env, edit, read, fd, result, mixed>>

\* rename(); it throws when another edit of this process has renamed the file away.
Rename(e) ==
  /\ pc[e] = "written"
  /\ LET p == ProcessOf(e) IN
     \/ /\ tmp[p] # NoFile
        /\ conf' = tmp[p]
        /\ tmp' = [tmp EXCEPT ![p] = NoFile]
        /\ End(e, IF edit[e].key \in env THEN "overridden" ELSE "ok")
     \/ /\ tmp[p] = NoFile
        /\ End(e, "error")
        /\ UNCHANGED <<conf, tmp>>
  /\ UNCHANGED <<tui, content, env, edit, read, fd, mixed>>

\* The command is killed, or the terminal UI left, in the middle of it.
Kill(p) ==
  /\ \E e \in Editor : ProcessOf(e) = p /\ pc[e] \notin {"idle", "done"}
  /\ pc' = [e \in Editor |-> IF ProcessOf(e) = p THEN "done" ELSE pc[e]]
  /\ result' = [e \in Editor |->
       IF ProcessOf(e) = p /\ pc[e] # "done" THEN "killed" ELSE result[e]]
  /\ UNCHANGED <<tui, content, conf, tmp, env, edit, read, fd, mixed>>

Next ==
  \/ \E e \in Editor : Load(e) \/ OpenTmp(e) \/ WriteTmp(e) \/ Rename(e)
  \/ \E p \in Process : Kill(p)

Spec == Init /\ [][Next]_vars

-----------------------------------------------------------------------------
(* What the file owes those who read it.                                   *)

\* "atomic (tmp + rename)": config.json is a whole document at every moment.
Intact == conf # NoFile => content[conf].state = "whole"

\* It is, whoever is killed wherever, until two edits have one temporary file open.
AlwaysWhole == ~mixed => Intact

\* "checked against the field table before anything is written": what atc has written is not
\* refused by the next command, again until two edits have one temporary file open.
NeverRefused == (~mixed /\ conf \notin {NoFile, Original}) => ~Refused(content[conf])

Saves(e) == pc[e] = "written" /\ result'[e] \in {"ok", "overridden"}

\* Only the key of the edit changes: the file's other values, of whatever version it was,
\* and the unknown keys are what they were, and nothing of the environment gets in.
OnlyItsKey(e) ==
  /\ File(Current').field = [File(Current).field EXCEPT ![edit[e].key] = To(edit[e])]
  /\ File(Current').unknown = File(Current).unknown

\* An edit that has the temporary file for itself, and whose reading is still true when it
\* renames, changes its own key only.
EditChangesOnlyItsKey ==
  [][\A e \in Editor : (Saves(e) /\ read[e] = Current /\ ~mixed) => OnlyItsKey(e)]_vars

-----------------------------------------------------------------------------
(* What the comments say and the code does not do.                         *)

\* "unknown keys in the file survive", and "`config set` never drops what a newer atc wrote".
OthersSurvive == [][\A e \in Editor : Saves(e) => OnlyItsKey(e)]_vars

\* "fix the file or `atc config unset <key>`": unsetting the only key that has a problem
\* is not refused.
UnsetRepairs ==
  \A e \in Editor :
    (result[e] = "error" /\ edit[e].to = Unset /\ read[e].state = "whole" /\ read[e].doc.version <= 2)
      => Problems(Migrate(read[e].doc)) # {edit[e].key}

\* "Remove one value from the config file (the default applies again)".
UnsetRemoves ==
  [][\A e \in Editor : (Saves(e) /\ edit[e].to = Unset) => Current'.doc.field[edit[e].key] = Unset]_vars
=============================================================================
