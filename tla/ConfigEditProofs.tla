---------------------------- MODULE ConfigEditProofs ----------------------------
(***************************************************************************)
(* For any number of edits, keys and values, as long as no two edits of    *)
(* the terminal UI have the temporary file open together: config.json is   *)
(* a whole document, the next command accepts what atc has written, and an *)
(* edit that reads and writes undisturbed changes its own key only.        *)
(***************************************************************************)
EXTENDS ConfigEdit, TLAPS

-----------------------------------------------------------------------------
(* Documents.                                                              *)

\* The defaults are a document.
LEMMA DefaultIsDoc == DefaultConfig \in Doc
  BY ConfigAssumption DEF ConfigAssumption, DefaultConfig, Doc

\* What a file is said to hold is content.
LEMMA ContentsAreContent ==
  /\ Empty \in Content /\ Torn \in Content /\ Absent \in Content
  /\ \A d \in Doc : Whole(d) \in Content
  BY DefaultIsDoc DEF Content, Empty, Torn, Absent, Whole

\* Reading, migrating and filling in defaults gives a document.
LEMMA FileIsDoc ==
  ASSUME NEW c \in Content
  PROVE  File(c) \in Doc
<1>1. ASSUME NEW d \in Doc PROVE Migrate(d) \in Doc
  BY ConfigAssumption DEF ConfigAssumption, Migrate, Doc
<1>2. ASSUME NEW d \in Doc PROVE Validated(d) \in Doc
  BY ConfigAssumption DEF ConfigAssumption, Validated, Doc
<1> QED
  BY <1>1, <1>2, DefaultIsDoc DEF File, Content

\* So does changing one key of it.
LEMMA WrittenIsDoc ==
  ASSUME TypeOK, NEW e \in Editor
  PROVE  Written(e) \in Doc
<1>1. File(read[e]) \in Doc
  BY FileIsDoc DEF TypeOK
<1>2. edit[e].key \in Field /\ To(edit[e]) \in Value \cup {Unset}
  BY ConfigAssumption DEF ConfigAssumption, TypeOK, Edit, To
<1> QED
  BY <1>1, <1>2 DEF Written, Doc

-----------------------------------------------------------------------------
(* Types.                                                                  *)

\* A process is an edit of its own or the terminal UI.
LEMMA ProcessOfType == \A e \in Editor : ProcessOf(e) \in Process
  BY DEF ProcessOf, Process

\* Every variable keeps its type.
THEOREM TypeCorrect == Spec => []TypeOK
<1>1. Init => TypeOK
  <2> SUFFICES ASSUME Init PROVE TypeOK
    OBVIOUS
  <2>1. conf \in Inode \cup {NoFile} /\ content \in [Inode -> Content]
    BY ContentsAreContent DEF Init, Inode
  <2>2. edit \in [Editor -> Edit] /\ fd \in [Editor -> Inode \cup {NoFile}]
    BY ConfigAssumption DEF ConfigAssumption, Init, Edit
  <2> QED
    BY <2>1, <2>2, ContentsAreContent DEF Init, TypeOK, Point, Result
<1>2. TypeOK /\ [Next]_vars => TypeOK'
  <2> SUFFICES ASSUME TypeOK, [Next]_vars PROVE TypeOK'
    OBVIOUS
  <2>1. ASSUME NEW e \in Editor, Load(e) PROVE TypeOK'
    <3>1. Current \in Content
      BY ContentsAreContent DEF TypeOK, Current, Inode
    <3>2. read' \in [Editor -> Content] /\ edit' \in [Editor -> Edit]
      BY <2>1, <3>1, ContentsAreContent DEF TypeOK, Load
    <3>3. pc' \in [Editor -> Point] /\ result' \in [Editor -> Result]
      BY <2>1 DEF TypeOK, Load, End, Point, Result
    <3> QED
      BY <2>1, <3>2, <3>3 DEF TypeOK, Load
  <2>2. ASSUME NEW e \in Editor, OpenTmp(e) PROVE TypeOK'
    <3> DEFINE p == ProcessOf(e)
               i == IF tmp[p] = NoFile THEN e ELSE tmp[p]
    <3>1. p \in Process /\ i \in Inode
      BY ProcessOfType DEF TypeOK, Inode
    <3>2. /\ content' = [content EXCEPT ![i] = Empty]
          /\ tmp' = [tmp EXCEPT ![p] = i]
          /\ fd' = [fd EXCEPT ![e] = i]
          /\ pc' = [pc EXCEPT ![e] = "opened"]
          /\ mixed' = (mixed \/ TmpInUse(e))
          /\ UNCHANGED <<tui, conf, env, edit, read, result>>
      BY <2>2 DEF OpenTmp
    <3>3. mixed' \in BOOLEAN
      BY <3>2 DEF TmpInUse
    <3> HIDE DEF i, p
    <3> QED
      BY <3>1, <3>2, <3>3, ContentsAreContent DEF TypeOK, Point
  <2>3. ASSUME NEW e \in Editor, WriteTmp(e) PROVE TypeOK'
    <3>1. content' \in [Inode -> Content]
      BY <2>3, WrittenIsDoc, ContentsAreContent DEF WriteTmp, TypeOK
    <3> QED
      BY <2>3, <3>1 DEF WriteTmp, TypeOK, Point
  <2>4. ASSUME NEW e \in Editor, Rename(e) PROVE TypeOK'
    BY <2>4, ProcessOfType DEF Rename, End, TypeOK, Point, Result
  <2>5. ASSUME NEW p \in Process, Kill(p) PROVE TypeOK'
    BY <2>5 DEF Kill, TypeOK, Point, Result
  <2>6. CASE UNCHANGED vars
    BY <2>6 DEF vars, TypeOK
  <2> QED
    BY <2>1, <2>2, <2>3, <2>4, <2>5, <2>6 DEF Next
<1> QED
  BY <1>1, <1>2, PTL DEF Spec

-----------------------------------------------------------------------------
(* The file is whole.                                                      *)

Open(e) == pc[e] \in {"opened", "written"}

\* Each process has one edit at most with its temporary file open, and the file that edit
\* has open is still the one the name stands for.
OwnTmp ==
  /\ \A e, o \in Editor : (Open(e) /\ Open(o) /\ ProcessOf(e) = ProcessOf(o)) => e = o
  /\ \A e \in Editor : Open(e) => fd[e] # NoFile /\ tmp[ProcessOf(e)] = fd[e]

\* It is empty until it is written and whole from then on.
TmpState ==
  \A e \in Editor : /\ pc[e] = "opened" => content[fd[e]].state = "empty"
                    /\ pc[e] = "written" => content[fd[e]].state = "whole"

\* No two names stand for one file.
NamesApart ==
  /\ \A p \in Process : tmp[p] # NoFile => tmp[p] # conf
  /\ \A p, q \in Process : (p # q /\ tmp[p] = tmp[q]) => tmp[p] = NoFile

\* The file an edit may come to create is not there yet.
Fresh ==
  \A e \in Editor :
    pc[e] \in {"idle", "loaded"} => conf # e /\ \A p \in Process : tmp[p] # e

IInv == ~mixed => (Intact /\ OwnTmp /\ TmpState /\ NamesApart /\ Fresh)

\* The temporary files and their names are what the argument needs them to be.
THEOREM FilesApart == Spec => [](TypeOK /\ IInv)
<1>1. Init => IInv
  BY ConfigAssumption
  DEF ConfigAssumption, Init, IInv, Intact, OwnTmp, TmpState, NamesApart, Fresh, Open, Whole,
      Inode, Process
<1>2. TypeOK /\ IInv /\ [Next]_vars => IInv'
  <2> SUFFICES ASSUME TypeOK, IInv, [Next]_vars, ~mixed' PROVE IInv'
    BY DEF IInv
  <2>1. ASSUME NEW e \in Editor, Load(e) PROVE IInv'
    <3>1. /\ UNCHANGED <<tui, content, conf, tmp, fd, mixed>>
          /\ pc[e] = "idle" /\ pc' = [pc EXCEPT ![e] = pc'[e]] /\ pc'[e] \in {"done", "loaded"}
      BY <2>1 DEF Load, End, TypeOK
    <3> QED
      BY <3>1 DEF IInv, TypeOK, Intact, OwnTmp, TmpState, NamesApart, Fresh, Open, ProcessOf
  <2>2. ASSUME NEW e \in Editor, OpenTmp(e) PROVE IInv'
    <3> DEFINE p == ProcessOf(e)
               i == IF tmp[p] = NoFile THEN e ELSE tmp[p]
    <3>1. /\ pc[e] = "loaded"
          /\ content' = [content EXCEPT ![i] = Empty]
          /\ tmp' = [tmp EXCEPT ![p] = i]
          /\ fd' = [fd EXCEPT ![e] = i]
          /\ pc' = [pc EXCEPT ![e] = "opened"]
          /\ UNCHANGED <<tui, conf>>
          /\ ~mixed /\ ~TmpInUse(e)
      BY <2>2 DEF OpenTmp, TypeOK
    <3>2. Intact /\ OwnTmp /\ TmpState /\ NamesApart /\ Fresh
      BY <3>1 DEF IInv
    <3>3. p \in Process /\ i \in Inode /\ i # NoFile /\ i # conf
      BY <3>1, <3>2, ProcessOfType, ConfigAssumption
      DEF ConfigAssumption, TypeOK, Inode, Fresh, NamesApart
    <3>4. \A o \in Editor \ {e} : Open(o) => ProcessOf(o) # p /\ fd[o] # i
      BY <3>1, <3>2, <3>3, ProcessOfType
      DEF TmpInUse, Open, OwnTmp, NamesApart, Fresh
    <3>5. \A o \in Editor : ProcessOf(o)' = ProcessOf(o) /\ ProcessOf(o) \in Process
      BY <3>1, ProcessOfType DEF ProcessOf
    <3>6. \A q \in Process \ {p} : tmp[q] # i
      BY <3>1, <3>2, <3>3 DEF NamesApart, Fresh
    <3>7. \A o \in Editor \ {e} : pc[o] \in {"idle", "loaded"} => o # i
      BY <3>1, <3>2, <3>3 DEF Fresh
    <3> HIDE DEF i, p
    <3>a. Intact'
      BY <3>1, <3>2, <3>3 DEF Intact, TypeOK
    <3>b. OwnTmp'
      BY <3>1, <3>2, <3>3, <3>4, <3>5 DEF OwnTmp, Open, TypeOK, p
    <3>c. TmpState'
      BY <3>1, <3>2, <3>3, <3>4 DEF TmpState, Open, Empty, TypeOK
    <3>d. NamesApart'
      BY <3>1, <3>2, <3>3, <3>6 DEF NamesApart, TypeOK
    <3>e. Fresh'
      BY <3>1, <3>2, <3>3, <3>7 DEF Fresh, TypeOK
    <3> QED
      BY <3>a, <3>b, <3>c, <3>d, <3>e DEF IInv
  <2>3. ASSUME NEW e \in Editor, WriteTmp(e) PROVE IInv'
    <3>1. /\ pc[e] = "opened" /\ pc' = [pc EXCEPT ![e] = "written"]
          /\ UNCHANGED <<tui, conf, tmp, fd>>
          /\ ~mixed
      BY <2>3 DEF WriteTmp
    <3>2. Intact /\ OwnTmp /\ TmpState /\ NamesApart /\ Fresh
      BY <3>1 DEF IInv
    <3>3. content' = [content EXCEPT ![fd[e]] = Whole(Written(e))]
      BY <2>3, <3>1, <3>2 DEF WriteTmp, TmpState
    <3>4. fd[e] \in Inode /\ fd[e] # conf
      BY <3>1, <3>2, ProcessOfType DEF OwnTmp, NamesApart, Open, TypeOK
    <3>5. \A o \in Editor \ {e} : Open(o) => fd[o] # fd[e]
      BY <3>1, <3>2, ProcessOfType DEF OwnTmp, NamesApart, Open
    <3>6. \A o \in Editor : ProcessOf(o)' = ProcessOf(o)
      BY <3>1 DEF ProcessOf
    <3>7. \A o \in Editor : Open(o)' <=> Open(o)
      BY <3>1 DEF Open, TypeOK
    <3>a. Intact'
      BY <3>1, <3>2, <3>3, <3>4 DEF Intact, TypeOK
    <3>b. OwnTmp'
      BY <3>1, <3>2, <3>6, <3>7 DEF OwnTmp
    <3>c. TmpState'
      BY <3>1, <3>2, <3>3, <3>4, <3>5 DEF TmpState, Open, Whole, TypeOK
    <3>d. NamesApart' /\ Fresh'
      BY <3>1, <3>2 DEF NamesApart, Fresh, TypeOK
    <3> QED
      BY <3>a, <3>b, <3>c, <3>d DEF IInv
  <2>4. ASSUME NEW e \in Editor, Rename(e) PROVE IInv'
    <3> DEFINE p == ProcessOf(e)
    <3>1. /\ pc[e] = "written" /\ pc' = [pc EXCEPT ![e] = "done"]
          /\ UNCHANGED <<tui, content, fd>>
          /\ ~mixed
      BY <2>4 DEF Rename, End
    <3>2. Intact /\ OwnTmp /\ TmpState /\ NamesApart /\ Fresh
      BY <3>1 DEF IInv
    <3>3. p \in Process /\ tmp[p] = fd[e] /\ tmp[p] # NoFile /\ content[tmp[p]].state = "whole"
      BY <3>1, <3>2, ProcessOfType DEF OwnTmp, TmpState, Open
    <3>4. conf' = tmp[p] /\ tmp' = [tmp EXCEPT ![p] = NoFile]
      BY <2>4, <3>3 DEF Rename
    <3>5. \A o \in Editor : ProcessOf(o)' = ProcessOf(o) /\ ProcessOf(o) \in Process
      BY <3>1, ProcessOfType DEF ProcessOf
    <3>6. \A o \in Editor \ {e} : Open(o) => ProcessOf(o) # p
      BY <3>1, <3>2 DEF OwnTmp, Open
    <3>7. \A o \in Editor : Open(o)' <=> o # e /\ Open(o)
      BY <3>1 DEF Open, TypeOK
    <3> HIDE DEF p
    <3>a. Intact'
      BY <3>1, <3>3, <3>4 DEF Intact
    <3>b. OwnTmp'
      BY <3>1, <3>2, <3>3, <3>4, <3>5, <3>6, <3>7 DEF OwnTmp, TypeOK
    <3>c. TmpState'
      BY <3>1, <3>2 DEF TmpState, TypeOK
    <3>d. NamesApart'
      BY <3>2, <3>3, <3>4 DEF NamesApart, TypeOK
    <3>e. Fresh'
      BY <3>1, <3>2, <3>3, <3>4, ConfigAssumption DEF ConfigAssumption, Fresh, TypeOK
    <3> QED
      BY <3>a, <3>b, <3>c, <3>d, <3>e DEF IInv
  <2>5. ASSUME NEW p \in Process, Kill(p) PROVE IInv'
    <3>1. /\ UNCHANGED <<tui, content, conf, tmp, fd, mixed>>
          /\ \A e \in Editor : pc'[e] \in {pc[e], "done"}
      BY <2>5 DEF Kill, TypeOK
    <3> QED
      BY <3>1 DEF IInv, Intact, OwnTmp, TmpState, NamesApart, Fresh, Open, ProcessOf
  <2>6. CASE UNCHANGED vars
    BY <2>6 DEF vars, IInv, Intact, OwnTmp, TmpState, NamesApart, Fresh, Open, ProcessOf
  <2> QED
    BY <2>1, <2>2, <2>3, <2>4, <2>5, <2>6 DEF Next
<1> QED
  BY <1>1, <1>2, TypeCorrect, PTL DEF Spec

\* config.json names a whole document at every moment, whoever is killed between the
\* open(), the write and the rename of his edit: the writers of src/config/file.ts leave
\* no torn file unless two of them share a process.
THEOREM WholeFile == Spec => []AlwaysWhole
<1>1. IInv => AlwaysWhole
  BY DEF IInv, AlwaysWhole
<1> QED
  BY <1>1, FilesApart, PTL

-----------------------------------------------------------------------------
(* The file is accepted.                                                   *)

\* An edit that goes on has read a document that passed and has a value that did.
Checked(e) ==
  /\ ~Refused(read[e])
  /\ edit[e].to = Unset \/ edit[e].to \in Legal[edit[e].key]

\* So have the document it has written, and the one config.json names since.
AcceptedInv ==
  /\ \A e \in Editor : pc[e] \in {"loaded", "opened", "written"} => Checked(e)
  /\ ~mixed => \A e \in Editor : pc[e] = "written" => ~Refused(content[fd[e]])
  /\ NeverRefused

\* Migrating, filling in defaults and changing one checked key keep a document acceptable:
\* what setConfigValue() and unsetConfigValue() write is what the next command reads.
LEMMA WrittenIsAccepted ==
  ASSUME TypeOK, NEW e \in Editor, Checked(e)
  PROVE  ~Refused(Whole(Written(e)))
<1> DEFINE d == File(read[e])
<1>1. d \in Doc /\ Written(e) \in Doc /\ read[e] \in Content
  BY FileIsDoc, WrittenIsDoc DEF TypeOK
<1>2. edit[e].key \in Field /\ To(edit[e]) \in Legal[edit[e].key] \cup {Unset}
  BY ConfigAssumption DEF ConfigAssumption, TypeOK, Edit, To, Checked
<1>3. d.version = 2 /\ \A f \in Field : d.field[f] \in Legal[f] \cup {Unset}
  <2>1. CASE read[e].state = "whole"
    <3> DEFINE m == Migrate(read[e].doc)
    <3>1. m \in Doc /\ m.version = 2
      <4>1. read[e].doc \in Doc /\ read[e].doc.version \in {1, 2}
        BY <1>1, <2>1 DEF Checked, Refused, Content, Doc
      <4> QED
        BY <4>1, ConfigAssumption DEF ConfigAssumption, Migrate, Doc
    <3>2. \A f \in Field : m.field[f] \in Legal[f] \cup {Unset}
      BY <2>1 DEF Checked, Refused, Problems
    <3>3. d = Validated(m)
      BY <2>1 DEF File
    <3> HIDE DEF m, d
    <3> QED
      BY <3>1, <3>2, <3>3, ConfigAssumption DEF ConfigAssumption, Validated, Doc
  <2>2. CASE read[e].state # "whole"
    BY <2>2, ConfigAssumption DEF ConfigAssumption, File, DefaultConfig
  <2> QED
    BY <2>1, <2>2
<1>4. Written(e).version = 2 /\ \A f \in Field : Written(e).field[f] \in Legal[f] \cup {Unset}
  <2> HIDE DEF d
  <2>1. Written(e) = [d EXCEPT !.field[edit[e].key] = To(edit[e])]
    BY DEF Written, d
  <2> QED
    BY <1>1, <1>2, <1>3, <2>1 DEF Doc
<1>5. Migrate(Written(e)) = Written(e)
  BY <1>4 DEF Migrate
<1> QED
  BY <1>4, <1>5 DEF Refused, Whole, Problems

\* No sequence of edits, kills and concurrent edits by other processes takes that away.
THEOREM FilesAccepted == Spec => []AcceptedInv
<1>1. Init => AcceptedInv
  BY DEF Init, AcceptedInv, NeverRefused
<1>2. TypeOK /\ IInv /\ IInv' /\ AcceptedInv /\ [Next]_vars => AcceptedInv'
  <2> SUFFICES ASSUME TypeOK, IInv, IInv', AcceptedInv, [Next]_vars PROVE AcceptedInv'
    OBVIOUS
  <2>1. ASSUME NEW e \in Editor, Load(e) PROVE AcceptedInv'
    <3>1. /\ UNCHANGED <<content, conf, fd, mixed>>
          /\ pc[e] = "idle" /\ pc' = [pc EXCEPT ![e] = pc'[e]] /\ pc'[e] \in {"done", "loaded"}
          /\ \A o \in Editor \ {e} : read'[o] = read[o] /\ edit'[o] = edit[o]
      BY <2>1 DEF Load, End, TypeOK
    <3>2. pc'[e] = "loaded" => Checked(e)'
      BY <2>1 DEF Load, End, TypeOK, Checked, Refused
    <3>3. \A o \in Editor \ {e} : Checked(o) => Checked(o)'
      BY <3>1 DEF Checked, Refused
    <3> QED
      BY <3>1, <3>2, <3>3 DEF AcceptedInv, NeverRefused, TypeOK, Refused
  <2>2. ASSUME NEW e \in Editor, OpenTmp(e) PROVE AcceptedInv'
    <3>1. /\ content' = [content EXCEPT ![fd'[e]] = Empty]
          /\ fd' = [fd EXCEPT ![e] = fd'[e]]
          /\ pc[e] = "loaded" /\ pc' = [pc EXCEPT ![e] = "opened"]
          /\ UNCHANGED <<tui, conf, read, edit>>
          /\ ~mixed' => ~mixed
      BY <2>2 DEF OpenTmp, TypeOK
    <3>2. ASSUME ~mixed' PROVE fd'[e] # conf
      BY <3>1, <3>2, ProcessOfType DEF IInv, OwnTmp, NamesApart, Open, ProcessOf, Process, TypeOK
    <3>3. ASSUME ~mixed', NEW o \in Editor, o # e, pc[o] = "written" PROVE fd[o] # fd'[e]
      <4>1. Open(o)' /\ Open(e)' /\ fd'[o] = fd[o]
        BY <3>1, <3>3 DEF Open, TypeOK
      <4>2. ProcessOf(o)' # ProcessOf(e)' /\ ProcessOf(o)' \in Process /\ ProcessOf(e)' \in Process
        BY <3>3, <4>1 DEF IInv, OwnTmp, ProcessOf, Process
      <4> QED
        BY <3>3, <4>1, <4>2 DEF IInv, OwnTmp, NamesApart
    <3>4. \A o \in Editor : Checked(o)' <=> Checked(o)
      BY <3>1 DEF Checked, Refused
    <3>5. ASSUME ~mixed', NEW o \in Editor, pc'[o] = "written" PROVE ~Refused(content[fd[o]])'
      <4>1. o # e /\ pc[o] = "written" /\ fd'[o] = fd[o]
        BY <3>1, <3>5 DEF TypeOK
      <4>2. fd[o] # fd'[e] /\ fd[o] \in Inode /\ ~Refused(content[fd[o]])
        BY <3>1, <3>3, <3>5, <4>1 DEF AcceptedInv, IInv, OwnTmp, Open, TypeOK
      <4>3. content'[fd[o]] = content[fd[o]]
        BY <3>1, <4>2 DEF TypeOK
      <4> QED
        BY <4>1, <4>2, <4>3 DEF Refused
    <3>6. NeverRefused'
      BY <3>1, <3>2 DEF AcceptedInv, NeverRefused, TypeOK, Refused
    <3> QED
      BY <3>1, <3>4, <3>5, <3>6 DEF AcceptedInv, TypeOK
  <2>3. ASSUME NEW e \in Editor, WriteTmp(e) PROVE AcceptedInv'
    <3>1. /\ pc[e] = "opened" /\ pc' = [pc EXCEPT ![e] = "written"]
          /\ UNCHANGED <<tui, conf, tmp, fd, read, edit, mixed>>
      BY <2>3 DEF WriteTmp
    <3>2. \A o \in Editor : Checked(o)' <=> Checked(o)
      BY <3>1 DEF Checked, Refused
    <3>3. ASSUME ~mixed
          PROVE  (\A o \in Editor : pc'[o] = "written" => ~Refused(content[fd[o]])') /\ NeverRefused'
      <4>1. OwnTmp /\ TmpState /\ NamesApart
        BY <3>3 DEF IInv
      <4>2. fd[e] \in Inode /\ fd[e] # conf
        BY <3>1, <4>1, ProcessOfType DEF OwnTmp, NamesApart, Open, TypeOK
      <4>3. \A o \in Editor \ {e} : pc[o] = "written" => fd[o] # fd[e]
        BY <3>1, <4>1, ProcessOfType DEF OwnTmp, NamesApart, Open
      <4>4. content' = [content EXCEPT ![fd[e]] = Whole(Written(e))]
        BY <2>3, <3>1, <4>1 DEF WriteTmp, TmpState
      <4>5. ~Refused(Whole(Written(e)))
        BY <3>1, WrittenIsAccepted DEF AcceptedInv
      <4>6. content'[fd[e]] = Whole(Written(e))
        BY <4>2, <4>4 DEF TypeOK
      <4>7. ~Refused(content'[fd[e]])
        BY <4>5, <4>6
      <4>8. \A i \in Inode \ {fd[e]} : content'[i] = content[i]
        BY <4>4 DEF TypeOK
      <4>9. ASSUME NEW o \in Editor, pc'[o] = "written" PROVE ~Refused(content'[fd[o]])
        <5>1. CASE o = e
          BY <5>1, <4>7
        <5>2. CASE o # e
          <6>1. pc[o] = "written" /\ fd[o] # fd[e]
            BY <5>2, <3>1, <4>3, <4>9 DEF TypeOK
          <6>2. ~Refused(content[fd[o]]) /\ fd[o] \in Inode
            BY <3>3, <6>1, <4>1 DEF AcceptedInv, OwnTmp, Open, TypeOK
          <6> QED
            BY <6>1, <6>2, <4>8
        <5> QED
          BY <5>1, <5>2
      <4>10. NeverRefused'
        BY <3>1, <3>3, <4>2, <4>8 DEF AcceptedInv, NeverRefused, TypeOK, Refused
      <4> QED
        BY <3>1, <4>9, <4>10 DEF Refused
    <3> QED
      BY <3>1, <3>2, <3>3 DEF AcceptedInv, NeverRefused, TypeOK
  <2>4. ASSUME NEW e \in Editor, Rename(e) PROVE AcceptedInv'
    <3>1. /\ pc[e] = "written" /\ pc' = [pc EXCEPT ![e] = "done"]
          /\ UNCHANGED <<tui, content, read, edit, fd, mixed>>
      BY <2>4 DEF Rename, End
    <3>2. ~mixed => conf' = fd[e]
      BY <2>4, <3>1 DEF Rename, IInv, OwnTmp, Open
    <3> QED
      BY <3>1, <3>2 DEF AcceptedInv, NeverRefused, TypeOK, Checked, Refused
  <2>5. ASSUME NEW p \in Process, Kill(p) PROVE AcceptedInv'
    <3>1. /\ UNCHANGED <<content, conf, read, edit, fd, mixed>>
          /\ \A e \in Editor : pc'[e] \in {pc[e], "done"}
      BY <2>5 DEF Kill, TypeOK
    <3> QED
      BY <3>1 DEF AcceptedInv, NeverRefused, Checked, Refused
  <2>6. CASE UNCHANGED vars
    BY <2>6 DEF vars, AcceptedInv, NeverRefused, Checked, Refused
  <2> QED
    BY <2>1, <2>2, <2>3, <2>4, <2>5, <2>6 DEF Next
<1> QED
  BY <1>1, <1>2, FilesApart, PTL DEF Spec

\* What atc has written, the next atc accepts: no sequence of edits, kills and concurrent
\* edits by other processes leaves a config.json that refuses every later command.
THEOREM NextCommandReads == Spec => []NeverRefused
<1>1. AcceptedInv => NeverRefused
  BY DEF AcceptedInv
<1> QED
  BY <1>1, FilesAccepted, PTL

-----------------------------------------------------------------------------
(* An edit changes its own key.                                            *)

\* An edit that is not over has no result, and the file it is about to rename holds what it
\* has written.
WroteInv ==
  /\ \A e \in Editor : pc[e] # "done" => result[e] = "none"
  /\ ~mixed => \A e \in Editor : pc[e] = "written" => content[fd[e]] = Whole(Written(e))

\* Reading back what writeKey() wrote gives what it had read, but for the key of the edit:
\* migrating and filling in the defaults a second time changes nothing.
LEMMA FileOfWritten ==
  ASSUME TypeOK, NEW e \in Editor, Checked(e)
  PROVE  /\ File(Whole(Written(e))).field = [File(read[e]).field EXCEPT ![edit[e].key] = To(edit[e])]
         /\ File(Whole(Written(e))).unknown = File(read[e]).unknown
<1> DEFINE d == File(read[e])
           w == Written(e)
<1>1. d \in Doc /\ w \in Doc /\ read[e] \in Content
  BY FileIsDoc, WrittenIsDoc DEF TypeOK
<1>2. edit[e].key \in Field /\ (To(edit[e]) = Unset => Default[edit[e].key] = Unset)
  BY DEF TypeOK, Edit, To
<1>3. d.version = 2 /\ \A f \in Field : d.field[f] = Unset => Default[f] = Unset
  <2>1. CASE read[e].state = "whole"
    <3> DEFINE m == Migrate(read[e].doc)
    <3>1. m \in Doc /\ m.version = 2
      <4>1. read[e].doc \in Doc /\ read[e].doc.version \in {1, 2}
        BY <1>1, <2>1 DEF Checked, Refused, Content, Doc
      <4> QED
        BY <4>1, ConfigAssumption DEF ConfigAssumption, Migrate, Doc
    <3>2. d = Validated(m)
      BY <2>1 DEF File
    <3> HIDE DEF m, d
    <3> QED
      BY <3>1, <3>2 DEF Validated, Doc
  <2>2. CASE read[e].state # "whole"
    BY <2>2, ConfigAssumption DEF ConfigAssumption, File, DefaultConfig
  <2> QED
    BY <2>1, <2>2
<1>4. /\ w.version = 2 /\ w.unknown = d.unknown
      /\ w.field = [d.field EXCEPT ![edit[e].key] = To(edit[e])]
  <2> HIDE DEF d
  <2> QED
    BY <1>1, <1>3 DEF Written, Doc, d
<1>5. File(Whole(w)) = Validated(w)
  BY <1>4 DEF File, Whole, Migrate
<1> HIDE DEF w, d
<1>6. \A f \in Field : w.field[f] = Unset => Default[f] = Unset
  BY <1>1, <1>2, <1>3, <1>4 DEF Doc
<1>7. Validated(w).unknown = w.unknown /\ Validated(w).field = w.field
  BY <1>1, <1>6 DEF Validated, Doc
<1> QED
  BY <1>4, <1>5, <1>7 DEF w, d

\* What an edit has written stays in its file until it is renamed.
LEMMA WroteInductive ==
  ASSUME TypeOK, IInv, IInv', WroteInv, [Next]_vars
  PROVE  WroteInv'
<1>1. ASSUME NEW e \in Editor, Load(e) PROVE WroteInv'
  BY <1>1 DEF Load, End, WroteInv, TypeOK, Written
<1>2. ASSUME NEW e \in Editor, OpenTmp(e) PROVE WroteInv'
  <2>1. /\ content' = [content EXCEPT ![fd'[e]] = Empty]
        /\ fd' = [fd EXCEPT ![e] = fd'[e]]
        /\ pc[e] = "loaded" /\ pc' = [pc EXCEPT ![e] = "opened"]
        /\ UNCHANGED <<tui, conf, read, edit, result>>
        /\ ~mixed' => ~mixed
    BY <1>2 DEF OpenTmp, TypeOK
  <2>2. ASSUME ~mixed', NEW o \in Editor, o # e, pc[o] = "written" PROVE fd[o] # fd'[e]
    <3>1. Open(o)' /\ Open(e)' /\ fd'[o] = fd[o]
      BY <2>1, <2>2 DEF Open, TypeOK
    <3>2. ProcessOf(o)' # ProcessOf(e)' /\ ProcessOf(o)' \in Process /\ ProcessOf(e)' \in Process
      BY <2>2, <3>1 DEF IInv, OwnTmp, ProcessOf, Process
    <3> QED
      BY <2>2, <3>1, <3>2 DEF IInv, OwnTmp, NamesApart
  <2>3. ASSUME ~mixed', NEW o \in Editor, pc'[o] = "written" PROVE content'[fd'[o]] = Whole(Written(o))'
    <3>1. o # e /\ pc[o] = "written" /\ fd'[o] = fd[o] /\ Written(o)' = Written(o)
      BY <2>1, <2>3 DEF TypeOK, Written
    <3>2. fd[o] # fd'[e] /\ fd[o] \in Inode /\ content[fd[o]] = Whole(Written(o))
      BY <2>1, <2>2, <2>3, <3>1 DEF WroteInv, IInv, OwnTmp, Open, TypeOK
    <3> QED
      BY <2>1, <3>1, <3>2 DEF TypeOK, Whole
  <2> QED
    BY <2>1, <2>3 DEF WroteInv, TypeOK
<1>3. ASSUME NEW e \in Editor, WriteTmp(e) PROVE WroteInv'
  <2>1. /\ pc[e] = "opened" /\ pc' = [pc EXCEPT ![e] = "written"]
        /\ UNCHANGED <<tui, conf, tmp, fd, read, edit, mixed, result>>
    BY <1>3 DEF WriteTmp
  <2>2. ASSUME ~mixed, NEW o \in Editor, pc'[o] = "written" PROVE content'[fd[o]] = Whole(Written(o))
    <3>1. OwnTmp /\ TmpState /\ NamesApart
      BY <2>2 DEF IInv
    <3>2. fd[e] \in Inode /\ content' = [content EXCEPT ![fd[e]] = Whole(Written(e))]
      BY <1>3, <2>1, <3>1 DEF WriteTmp, TmpState, OwnTmp, Open, TypeOK
    <3>3. CASE o = e
      BY <3>2, <3>3 DEF TypeOK
    <3>4. CASE o # e
      <4>1. pc[o] = "written" /\ fd[o] # fd[e] /\ fd[o] \in Inode
        BY <2>1, <2>2, <3>1, <3>4, ProcessOfType DEF OwnTmp, NamesApart, Open, TypeOK
      <4> QED
        BY <2>2, <3>2, <4>1 DEF WroteInv, TypeOK
    <3> QED
      BY <3>3, <3>4
  <2>3. \A o \in Editor : Whole(Written(o))' = Whole(Written(o))
    BY <2>1 DEF Written, Whole
  <2> QED
    BY <2>1, <2>2, <2>3 DEF WroteInv, TypeOK
<1>4. ASSUME NEW e \in Editor, Rename(e) PROVE WroteInv'
  BY <1>4 DEF Rename, End, WroteInv, TypeOK, Written, Whole
<1>5. ASSUME NEW p \in Process, Kill(p) PROVE WroteInv'
  BY <1>5 DEF Kill, WroteInv, TypeOK, Written, Whole
<1>6. CASE UNCHANGED vars
  BY <1>6 DEF vars, WroteInv, Written, Whole
<1> QED
  BY <1>1, <1>2, <1>3, <1>4, <1>5, <1>6 DEF Next

\* Everything the argument for an edit needs.
THEOREM FilesWritten == Spec => [](TypeOK /\ IInv /\ AcceptedInv /\ WroteInv)
<1>1. Init => WroteInv
  BY DEF Init, WroteInv
<1> QED
  BY <1>1, WroteInductive, FilesApart, FilesAccepted, PTL DEF Spec

\* `atc config set` and `unset` change their own key: when nothing has been written since
\* the edit read the file and it has its temporary file for itself, the next reader finds
\* every other value, the unknown keys included, as it was, and nothing of the environment.
THEOREM EditsKeepTheRest == Spec => EditChangesOnlyItsKey
<1>1. ASSUME TypeOK, IInv, AcceptedInv, WroteInv, [Next]_vars, NEW e \in Editor,
             Saves(e), read[e] = Current, ~mixed
      PROVE  OnlyItsKey(e)
  <2>1. pc[e] = "written" /\ result[e] = "none" /\ result'[e] \in {"ok", "overridden"}
    BY <1>1 DEF Saves, WroteInv
  <2>2. Rename(e)
    BY <1>1, <2>1 DEF Next, Load, OpenTmp, WriteTmp, Rename, Kill, End, vars, TypeOK
  <2>3. fd[e] # NoFile /\ tmp[ProcessOf(e)] = fd[e]
    BY <1>1, <2>1 DEF IInv, OwnTmp, Open
  <2>4. conf' = fd[e] /\ UNCHANGED <<content, edit, read>>
    BY <2>2, <2>3 DEF Rename
  <2>5. content[fd[e]] = Whole(Written(e)) /\ Checked(e)
    BY <1>1, <2>1 DEF WroteInv, AcceptedInv
  <2>6. Current' = Whole(Written(e))
    BY <2>3, <2>4, <2>5 DEF Current
  <2>7. File(Current') = File(Whole(Written(e)))
    BY <2>6
  <2> QED
    BY <1>1, <2>5, <2>7, FileOfWritten DEF OnlyItsKey
<1>2. (TypeOK /\ IInv /\ AcceptedInv /\ WroteInv) /\ [Next]_vars
      => [\A e \in Editor : (Saves(e) /\ read[e] = Current /\ ~mixed) => OnlyItsKey(e)]_vars
  BY <1>1
<1> QED
  BY <1>2, FilesWritten, PTL DEF Spec, EditChangesOnlyItsKey
=============================================================================
