------------------------------- MODULE LogScreen -------------------------------
(***************************************************************************)
(* The terminal UI's Logs screen: readLogTail and followLog, which read    *)
(* the daemon's log while the daemon appends to it (src/daemon/            *)
(* log-follow.ts), the controller that hands the lines on, the reducer     *)
(* that keeps them (reduceLogs, src/tui/state.ts), the keys that scroll    *)
(* and filter them, and the slice of them on the screen (logWindow).       *)
(*                                                                         *)
(* A line of the log reaches the file in two parts, its head and then its  *)
(* tail with the newline: a read may fall between the two.                 *)
(***************************************************************************)
EXTENDS Naturals, Sequences, SequencesExt

CONSTANTS MaxLines,   \* bound on the lines ever written
          MaxCuts,    \* bound on truncations and removals of the file
          TailParts,  \* LOG_TAIL_BYTES, in parts
          MaxLog,     \* MAX_LOG_LINES
          Rows        \* log lines that fit the screen

ASSUME LogAssumption ==
  /\ MaxLines \in Nat /\ MaxCuts \in Nat
  /\ TailParts \in Nat \ {0} /\ MaxLog \in Nat \ {0} /\ Rows \in Nat \ {0}

VARIABLES
  there,     \* whether there is a file
  file,      \* the parts in it
  written,   \* parts ever written
  cuts,      \* how often the file has been truncated
  fpc,       \* the reader: "tail", "tailread", "stat", "read", "ended"
  size,      \* what its stat() said
  position,  \* the offset it has read up to
  partial,   \* the end of the text that has no newline yet
  lines,     \* LogsState of the screen
  follow, scroll, filter,
  cut,       \* history: the line the tail of the file ended in, or 0
  disturbed  \* history: the file was truncated and the reader has not noticed

fileVars == <<there, file, written, cuts>>
readVars == <<fpc, size, position, partial, cut, disturbed>>
screenVars == <<lines, follow, scroll, filter>>
vars == <<there, file, written, cuts, fpc, size, position, partial, lines, follow, scroll, filter,
          cut, disturbed>>

Part == [line : Nat, tail : BOOLEAN]
Text == Seq(Part)

TypeOK ==
  /\ there \in BOOLEAN /\ file \in Text /\ written \in Nat /\ cuts \in Nat
  /\ fpc \in {"tail", "tailread", "stat", "read", "ended"}
  /\ size \in Nat /\ position \in Nat /\ partial \in Text
  /\ lines \in Seq(Text) /\ Len(lines) <= MaxLog
  /\ follow \in BOOLEAN /\ scroll \in Nat /\ filter \in BOOLEAN
  /\ cut \in Nat /\ disturbed \in BOOLEAN

Init ==
  /\ there \in BOOLEAN /\ file = <<>> /\ written = 0 /\ cuts = 0
  /\ fpc = "tail" /\ size = 0 /\ position = 0 /\ partial = <<>>
  /\ lines = <<>> /\ follow = TRUE /\ scroll = 0 /\ filter = FALSE
  /\ cut = 0 /\ disturbed = FALSE

-----------------------------------------------------------------------------
(* The file.                                                               *)

\* The n-th part that is written, to whatever file there is.
Nth(n) == [line |-> (n + 1) \div 2, tail |-> n % 2 = 0]

Write ==
  /\ written < 2 * MaxLines
  /\ file' = Append(file, Nth(written + 1))
  /\ written' = written + 1
  /\ there' = TRUE
  /\ UNCHANGED <<cuts, readVars, screenVars>>

\* Somebody truncates the log or removes it; the next write is the start of a new one.
Truncate ==
  /\ cuts < MaxCuts /\ file # <<>>
  /\ there' \in BOOLEAN
  /\ file' = <<>> /\ cuts' = cuts + 1
  /\ disturbed' = TRUE
  /\ UNCHANGED <<written, fpc, size, position, partial, cut, screenVars>>

\* What a read of the range finds, which need not be there any more.
ReadRange(from, to) == SubSeq(file, from + 1, IF to < Len(file) THEN to ELSE Len(file))

-----------------------------------------------------------------------------
(* Text and lines.                                                         *)

\* split at the newlines: the lines, and lines.pop(), which is what follows the last one.
AddPart(split, part) ==
  IF part.tail
  THEN [lines |-> Append(split.lines, Append(split.rest, part)), rest |-> <<>>]
  ELSE [lines |-> split.lines, rest |-> Append(split.rest, part)]
SplitText(text) == FoldLeft(AddPart, [lines |-> <<>>, rest |-> <<>>], text)
Lines(text) == SplitText(text).lines
Remainder(text) == SplitText(text).rest

LastN(s, n) == IF Len(s) <= n THEN s ELSE SubSeq(s, Len(s) - n + 1, Len(s))

\* tailLines(): an unfinished last line is a line.
TailLines(text) ==
  LastN(Lines(text) \o (IF Remainder(text) = <<>> THEN <<>> ELSE <<Remainder(text)>>), MaxLog)

\* The first line of a text read from the middle of the file is a fragment.
WithoutFragment(text) ==
  IF Lines(text) = <<>> THEN text ELSE SubSeq(text, Len(Lines(text)[1]) + 1, Len(text))

-----------------------------------------------------------------------------
(* The reducer and what the screen shows of it.                            *)

\* The filter stands for any text that some of the lines hold.
Holds(line) == line # <<>> /\ Head(line).line % 2 = 1
Keep(kept, line) == IF Holds(line) THEN Append(kept, line) ELSE kept
Matching(ls) == FoldLeft(Keep, <<>>, ls)
Visible(ls) == IF filter THEN Matching(ls) ELSE ls

Lesser(m, n) == IF m <= n THEN m ELSE n
Above(m, n) == IF m <= n THEN 0 ELSE m - n
Top == Above(Len(Visible(lines)), Rows)

Window ==
  LET v == Visible(lines)
      end == Len(v) - Lesser(scroll, Top)
  IN SubSeq(v, Above(end, Rows) + 1, end)

LogsReset(ls) ==
  /\ lines' = LastN(ls, MaxLog)
  /\ scroll' = 0
  /\ UNCHANGED <<follow, filter>>

\* Mutant: the view is kept by the lines that came, not by those that pass the filter.
AppendUnfiltered(ls) ==
  /\ lines' = LastN(lines \o ls, MaxLog)
  /\ scroll' = IF follow THEN 0 ELSE scroll + Len(ls)
  /\ UNCHANGED <<follow, filter>>

\* logs-append: a view that does not follow keeps its lines.
LogsAppend(ls) ==
  /\ lines' = LastN(lines \o ls, MaxLog)
  /\ scroll' = IF follow THEN 0 ELSE scroll + Len(Visible(ls))
  /\ UNCHANGED <<follow, filter>>

LogsScroll(to) ==
  /\ scroll' = Lesser(to, Top)
  /\ follow' = (scroll' = 0 /\ follow)
  /\ UNCHANGED <<lines, filter>>

\* The keys of the Logs screen.
ScrollKey == LogsScroll(scroll + 1) \/ LogsScroll(Above(scroll, 1))
TopKey == scroll' = Top /\ follow' = FALSE /\ UNCHANGED <<lines, filter>>
EndKey == scroll' = 0 /\ follow' = TRUE /\ UNCHANGED <<lines, filter>>
FollowKey ==
  /\ follow' = ~follow
  /\ scroll' = IF follow THEN scroll ELSE 0
  /\ UNCHANGED <<lines, filter>>
FilterKey == filter' = ~filter /\ scroll' = 0 /\ UNCHANGED <<lines, follow>>

Key ==
  /\ ScrollKey \/ TopKey \/ EndKey \/ FollowKey \/ FilterKey
  /\ UNCHANGED <<fileVars, readVars>>

-----------------------------------------------------------------------------
(* The reader.                                                             *)

\* readLogTail(): stat, then read the end of the file.
TailStat ==
  /\ fpc = "tail"
  /\ IF there THEN fpc' = "tailread" /\ UNCHANGED screenVars
     ELSE fpc' = "stat" /\ LogsReset(<<>>)
  /\ size' = Len(file)
  /\ UNCHANGED <<position, partial, cut, disturbed, fileVars>>

\* Mutant: the reader goes on from the end of the file as it is by now.
TailReadThenStat ==
  /\ fpc = "tailread" /\ there /\ fpc' = "stat"
  /\ LET start == Above(size, TailParts)
         read == ReadRange(start, size)
     IN LogsReset(TailLines(IF start > 0 THEN WithoutFragment(read) ELSE read))
  /\ position' = Len(file)
  /\ size' = 0
  /\ UNCHANGED <<partial, cut, disturbed, fileVars>>

TailRead ==
  /\ fpc = "tailread" /\ there /\ fpc' = "stat"
  /\ LET start == Above(size, TailParts)
         read == ReadRange(start, size)
         text == IF start > 0 THEN WithoutFragment(read) ELSE read
     IN /\ LogsReset(TailLines(text))
        /\ cut' = IF Remainder(text) = <<>> THEN 0 ELSE Last(text).line
  /\ position' = size
  /\ size' = 0
  /\ UNCHANGED <<partial, disturbed, fileVars>>

\* Mutant: the offset is not taken back.
StatOnly ==
  /\ fpc = "stat"
  /\ size' = Len(file)
  /\ IF there /\ size' < position
     THEN partial' = <<>> /\ disturbed' = FALSE /\ LogsReset(<<>>)
     ELSE UNCHANGED <<partial, disturbed, screenVars>>
  /\ fpc' = IF size' > position THEN "read" ELSE "stat"
  /\ UNCHANGED <<position, cut, fileVars>>

\* followLog(), every half second: a shorter file is another one.
Stat ==
  /\ fpc = "stat"
  /\ size' = Len(file)
  /\ IF there /\ size' < position
     THEN position' = 0 /\ partial' = <<>> /\ disturbed' = FALSE /\ LogsReset(<<>>)
     ELSE UNCHANGED <<position, partial, disturbed, screenVars>>
  /\ fpc' = IF size' > position' THEN "read" ELSE "stat"
  /\ UNCHANGED <<cut, fileVars>>

Read ==
  /\ fpc = "read" /\ there /\ fpc' = "stat"
  /\ LET text == partial \o ReadRange(position, size)
     IN /\ IF Lines(text) # <<>> THEN LogsAppend(Lines(text)) ELSE UNCHANGED screenVars
        /\ partial' = Remainder(text)
  /\ position' = size /\ size' = 0
  /\ UNCHANGED <<cut, disturbed, fileVars>>

\* The file went away after its stat(): open() throws, and nobody follows it any more.
Throw ==
  /\ fpc \in {"tailread", "read"} /\ ~there
  /\ fpc' = "ended"
  /\ UNCHANGED <<size, position, partial, cut, disturbed, fileVars, screenVars>>

ReadStep == TailStat \/ TailRead \/ Stat \/ Read \/ Throw

-----------------------------------------------------------------------------
Next == Write \/ Truncate \/ Key \/ ReadStep

Spec == Init /\ [][Next]_vars

\* The reader polls until it throws; nobody has to write or to press a key.
FairSpec == Spec /\ WF_vars(ReadStep)

-----------------------------------------------------------------------------
(* What the screen owes the person.                                        *)

Join(text, line) == text \o line
Flatten(ls) == FoldLeft(Join, <<>>, ls)

\* The screen holds the log up to the reader's position: no line is lost, repeated
\* or out of order, at the hand-over from the tail to following it in particular,
\* and again from the top of a new file once its size has told the reader of it; and
\* a line is in pieces only if the tail of the file ended within it, or if it is in
\* pieces in the file, which begins with it.
HoldsTheLog ==
  (fpc \in {"stat", "read"} /\ ~disturbed) =>
    LET text == Flatten(lines) \o partial
        upTo == SubSeq(file, 1, position)
    IN /\ text = LastN(upTo, Len(text))
       /\ Len(lines) < MaxLog => Len(text) >= Lesser(position, Above(TailParts, 2))
       /\ \A i \in DOMAIN lines :
            \/ Len(lines[i]) = 2
            \/ lines[i][1].line = cut /\ cut # 0
            \/ lines[i] = <<file[1]>>

Held(line, ls) == \E i \in DOMAIN ls : ls[i] = line

\* "Not following: keep the same lines in view as new ones arrive below", as far as
\* they are kept at all.
SameLinesInView ==
  [][(~follow /\ fpc = "read" /\ fpc' = "stat" /\ ~disturbed) =>
       \A i \in DOMAIN Window : Held(Window[i], lines') => Held(Window[i], Window')]_vars

Complete(n) == \E i \in DOMAIN file : file[i] = [line |-> n, tail |-> TRUE]

\* Every line that is completed comes to the screen, if only to be pushed out by newer ones.
EveryLineArrives ==
  \A n \in 1..MaxLines :
    (Complete(n) /\ fpc \in {"stat", "read"})
      ~> (disturbed \/ \E i \in DOMAIN lines : Last(lines[i]).line >= n)

-----------------------------------------------------------------------------
(* What the comments say and the code does not do.                         *)

\* "it may be truncated or replaced, in which case following starts again from the top"
StartsAgain ==
  \A n \in 1..MaxLines :
    (Complete(n) /\ fpc \in {"stat", "read"})
      ~> (~Complete(n) \/ \E i \in DOMAIN lines : Last(lines[i]).line >= n)
=============================================================================
