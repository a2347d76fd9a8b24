---------------------------- MODULE TuiScreensProofs ----------------------------
(***************************************************************************)
(* Proofs about TuiScreens: the type invariant, that each press of a key   *)
(* sees what the ones before it did, that the editors are only open on     *)
(* their own screens, that the selected row is always in view, that what   *)
(* is offered is answered, and that a global flag may stand anywhere.      *)
(***************************************************************************)
EXTENDS TuiScreens, FiniteSetTheorems, SequenceTheorems, WellFoundedInduction, TLAPS

\* The UI is only opened on a screen there is.
OpeningInv == exit = "opening" => ran.outcome.screen \in SCREENS

\* The row under the cursor is a row of the configuration, as far as it is known.
CursorInRows(s) == s.cursor = 0 \/ s.cursor < s.rows

\* An editor belongs to the row under the cursor, a filter prompt to its screen.
EditorOf(s) ==
  /\ s.editing # 0 => /\ s.tab = "config" /\ s.editing = s.cursor + 1 /\ s.editing <= s.rows
                      /\ Fields[s.editing] = "text"
  /\ s.filtering => s.tab = "logs"

\* What both states have of the keys, whatever they know of the configuration.
SameKeys(s, t) ==
  /\ s.tab = t.tab /\ s.editing = t.editing /\ s.draft = t.draft
  /\ s.filter = t.filter /\ s.filtering = t.filtering
  /\ s.selected = t.selected /\ s.open = t.open /\ s.scroll = t.scroll

\* The state of the handler is behind by a configuration at most, and the cursor differs only then.
Behind(s, t) ==
  /\ SameKeys(s, t)
  /\ \/ s.rows = t.rows /\ s.cursor = t.cursor
     \/ s.rows = 0 /\ t.rows = Len(Fields)

ScreenInv == /\ CursorInRows(state) /\ CursorInRows(latest)
             /\ EditorOf(state) /\ EditorOf(latest)
             /\ Behind(latest, state)

IInv == TypeOK /\ OpeningInv /\ ScreenInv

-----------------------------------------------------------------------------
(* The reducer, one type of action at a time.                              *)

TabNames == {Tabs[i] : i \in DOMAIN Tabs}

LEMMA TabsAreFive ==
  TabNames = {"overview", "logs", "config", "doctor", "commands"} /\ DOMAIN Tabs = 1..5
<1>1. DOMAIN Tabs = 1..5 /\ \A i \in 1..5 : Tabs[i] \in {"overview", "logs", "config", "doctor", "commands"}
  BY DEF Tabs
<1>2. /\ Tabs[1] = "overview" /\ Tabs[2] = "logs" /\ Tabs[3] = "config" /\ Tabs[4] = "doctor"
      /\ Tabs[5] = "commands"
  BY DEF Tabs
<1>3. \A t \in TabNames : t \in {"overview", "logs", "config", "doctor", "commands"}
  BY <1>1 DEF TabNames
<1>4. \A t \in {"overview", "logs", "config", "doctor", "commands"} : t \in TabNames
  BY <1>1, <1>2 DEF TabNames
<1>5. QED
  BY <1>1, <1>3, <1>4

LEMMA StepsToATab ==
  ASSUME NEW tab \in TabNames, NEW by \in {-1, 1}
  PROVE  TabAt(TabIndex(tab) + Len(Tabs) + by) \in TabNames
<1>1. DOMAIN Tabs = 1..5 /\ Len(Tabs) = 5
  BY DEF Tabs
<1>2. (CHOOSE i \in DOMAIN Tabs : Tabs[i] = tab) \in 1..5
  BY <1>1 DEF TabNames
<1>3. TabIndex(tab) \in 0..4
  BY <1>2 DEF TabIndex
<1>4. ((TabIndex(tab) + Len(Tabs) + by) % 5) + 1 \in 1..5
  BY <1>1, <1>3
<1>5. QED
  BY <1>1, <1>4 DEF TabAt, TabNames

-----------------------------------------------------------------------------
(* What a key can mean.                                                    *)

\* No editor has the keyboard.
Free(s) == s.editing = 0 /\ ~s.filtering

Sensible(s, a) ==
  \/ a.type \in {"none", "logs-view"}
  \/ a.type = "tab" /\ a.to \in TabNames /\ Free(s)
  \/ a.type = "tab-step" /\ a.by \in {-1, 1} /\ Free(s)
  \/ a.type = "overlay" /\ a.to \in Overlays
  \/ a.type = "config-move" /\ a.by \in Int /\ Free(s)
  \/ /\ a.type = "config-edit" /\ Free(s) /\ s.tab = "config"
     /\ a.by = s.cursor + 1 /\ a.by <= s.rows /\ Fields[a.by] = "text"
  \/ a.type = "config-draft" /\ a.by \in 0..MaxTyped
  \/ a.type = "config-close"
  \/ a.type = "logs-filter" /\ a.by \in 0..MaxTyped /\ (a.to = "typing" => s.tab = "logs")
  \/ a.type = "commands-move" /\ a.by \in Int
  \/ a.type = "commands-open"
  \/ a.type = "commands-scroll" /\ a.by \in Nat

LEMMA TuiStateFields ==
  ASSUME NEW s \in TuiState
  PROVE  /\ s.tab \in TabNames /\ s.overlay \in Overlays /\ s.cursor \in Nat
         /\ s.rows \in Nat /\ s.rows <= Len(Fields)
         /\ s.draft \in 0..MaxTyped /\ s.filter \in 0..MaxTyped
         /\ s.selected \in 1..Len(Commands) /\ s.scroll \in Nat
         /\ s.open \in BOOLEAN /\ s.filtering \in BOOLEAN /\ s.editing \in 0..Len(Fields)
<1>1. Fields \in Seq({"flip", "text"})
  BY ScreensAssumption DEF ScreensAssumption
<1>2. QED
  BY <1>1 DEF TuiState, TabNames

LEMMA GlobalKeysAreSensible ==
  ASSUME NEW s, Free(s), NEW r \in GlobalKeys
  PROVE  Sensible(s, r.act)
<1>1. Tabs[1] \in TabNames /\ Tabs[2] \in TabNames /\ Tabs[3] \in TabNames /\ Tabs[4] \in TabNames
      /\ Tabs[5] \in TabNames
  BY TabsAreFive DEF TabNames
<1>2. QED
  BY <1>1 DEF GlobalKeys, Does, Row, Act, Nothing, Sensible, Overlays

LEMMA EscKeysAreSensible ==
  ASSUME NEW s, NEW r \in EscKeys(s)
  PROVE  Sensible(s, r.act)
<1>1. 0 \in 0..MaxTyped
  BY ScreensAssumption DEF ScreensAssumption
<1>2. QED
  BY <1>1 DEF EscKeys, Does, Row, Act, Nothing, Sensible

LEMMA OverlayKeysAreSensible ==
  ASSUME NEW s, NEW r \in OverlayKeys(s)
  PROVE  Sensible(s, r.act)
BY DEF OverlayKeys, Does, Row, Act, Close, Sensible, Overlays

LEMMA EditKeysAreSensible ==
  ASSUME NEW s \in TuiState, NEW r \in EditKeys(s), r.when
  PROVE  Sensible(s, r.act)
<1>1. s.draft \in 0..MaxTyped /\ MaxTyped \in Nat
  BY TuiStateFields, ScreensAssumption DEF ScreensAssumption
<1> DEFINE typed == Does(Letters, s.draft < MaxTyped, Act("config-draft", "none", s.draft + 1))
<1>2. AtLeast(s.draft - 1, 0) \in 0..MaxTyped /\ (s.draft < MaxTyped => s.draft + 1 \in 0..MaxTyped)
  BY <1>1 DEF AtLeast
<1>3. CASE r = typed
  <2>1. typed.when <=> s.draft < MaxTyped
    BY DEF Does, Row
  <2>2. r.act = Act("config-draft", "none", s.draft + 1)
    BY <1>3 DEF Does, Row
  <2>3. QED
    BY <1>2, <1>3, <2>1, <2>2 DEF Sensible, Act
<1>4. CASE r # typed
  <2>1. r.act \in {Act("config-close", "none", 0), Act("config-draft", "none", 0),
                   Act("config-draft", "none", AtLeast(s.draft - 1, 0))}
    BY <1>4 DEF EditKeys, Does, Row
  <2>2. QED
    BY <1>1, <1>2, <2>1 DEF Sensible, Act
<1>5. QED
  BY <1>3, <1>4

LEMMA FilterKeysAreSensible ==
  ASSUME NEW s \in TuiState, s.tab = "logs", NEW r \in FilterKeys(s), r.when
  PROVE  Sensible(s, r.act)
<1>1. s.filter \in 0..MaxTyped /\ MaxTyped \in Nat
  BY TuiStateFields, ScreensAssumption DEF ScreensAssumption
<1> DEFINE typed == Does(Letters, s.filter < MaxTyped, Act("logs-filter", "typing", s.filter + 1))
<1>2. AtLeast(s.filter - 1, 0) \in 0..MaxTyped /\ (s.filter < MaxTyped => s.filter + 1 \in 0..MaxTyped)
  BY <1>1 DEF AtLeast
<1>3. CASE r = typed
  <2>1. typed.when <=> s.filter < MaxTyped
    BY DEF Does, Row
  <2>2. r.act = Act("logs-filter", "typing", s.filter + 1)
    BY <1>3 DEF Does, Row
  <2>3. QED
    BY <1>2, <1>3, <2>1, <2>2 DEF Sensible, Act
<1>4. CASE r # typed
  <2>1. r.act \in {Act("logs-filter", "done", 0), Act("logs-filter", "done", s.filter),
                   Act("logs-filter", "typing", AtLeast(s.filter - 1, 0))}
    BY <1>4 DEF FilterKeys, Does, Row
  <2>2. QED
    BY <1>1, <1>2, <2>1 DEF Sensible, Act
<1>5. QED
  BY <1>3, <1>4

LEMMA OverviewKeysAreSensible ==
  ASSUME NEW s, NEW r \in OverviewKeys(s)
  PROVE  Sensible(s, r.act)
BY DEF OverviewKeys, Does, Row, Act, Nothing, Sensible, Overlays, Confirms

LEMMA LogsKeysAreSensible ==
  ASSUME NEW s \in TuiState, s.tab = "logs", NEW r \in LogsKeys(s)
  PROVE  Sensible(s, r.act)
<1>1. r.act \in {Act("logs-view", "none", 0), Act("logs-filter", "typing", s.filter)}
  BY DEF LogsKeys, Does, Row
<1>2. s.filter \in 0..MaxTyped
  BY TuiStateFields
<1>3. QED
  BY <1>1, <1>2 DEF Sensible, Act

LEMMA ConfigKeysAreSensible ==
  ASSUME NEW s \in TuiState, s.tab = "config", Free(s), NEW r \in ConfigKeys(s), r.when
  PROVE  Sensible(s, r.act)
<1> DEFINE field == s.cursor + 1
           edits == Does({"return"}, field <= s.rows /\ Fields[field] = "text", Act("config-edit", "none", field))
<1>1. CASE r = edits
  <2>1. edits.when <=> (field <= s.rows /\ Fields[field] = "text")
    BY DEF Does, Row
  <2>2. r.act = Act("config-edit", "none", field)
    BY <1>1 DEF Does, Row
  <2>3. QED
    BY <1>1, <2>1, <2>2 DEF Sensible, Act
<1>2. CASE r # edits
  <2>1. r.act \in {Act("config-move", "none", -1), Act("config-move", "none", 1), Nothing}
    BY <1>2 DEF ConfigKeys, Does, Row
  <2>2. QED
    BY <2>1 DEF Sensible, Act, Nothing
<1>3. QED
  BY <1>1, <1>2

\* A page is at least a line; what can be scrolled is at least none of it.
LEMMA PagesAreNumbers ==
  ASSUME NEW s \in TuiState, NEW z \in Sizes
  PROVE  BodyRows(z) \in Int /\ Page(z) \in Nat /\ HelpMax(s, z) \in Nat
<1>1. z.rows \in Nat /\ z.columns \in Columns /\ BrandRows \in Nat
  BY ScreensAssumption DEF ScreensAssumption, Columns
<1>2. BodyRows(z) \in Int
  BY <1>1 DEF BodyRows
<1>3. Page(z) \in Nat
  BY <1>2 DEF Page, LogRows, AtLeast
<1>4. HelpLines[s.selected][z.columns] \in Nat
  <2>1. s.selected \in DOMAIN Commands
    BY TuiStateFields, ScreensAssumption DEF ScreensAssumption
  <2>2. HelpLines \in [DOMAIN Commands -> [Columns -> Nat]]
    BY ScreensAssumption DEF ScreensAssumption
  <2>3. QED
    BY <1>1, <2>1, <2>2
<1>5. HelpMax(s, z) \in Nat
  BY <1>2, <1>4 DEF HelpMax, AtLeast
<1>6. QED
  BY <1>2, <1>3, <1>5

LEMMA CommandsKeysAreSensible ==
  ASSUME NEW s \in TuiState, NEW z \in Sizes, NEW r \in CommandsKeys(s, z)
  PROVE  Sensible(s, r.act)
<1> DEFINE Scrolled(by) == Clamp(s.scroll + by, 0, HelpMax(s, z))
           Scroll(by) == Act("commands-scroll", "none", Scrolled(by))
           Move(by) == Act("commands-move", "none", by)
<1>1. /\ Page(z) \in Nat /\ HelpMax(s, z) \in Nat /\ s.scroll \in Nat
      /\ -Page(z) \in Int /\ -1 \in Int /\ 1 \in Int /\ Page(z) \in Int
  BY PagesAreNumbers, TuiStateFields
<1>2. \A by \in Int : Scrolled(by) \in Nat
  BY <1>1 DEF Clamp
<1>3. r.act \in {Scroll(-1), Scroll(1), Scroll(-Page(z)), Scroll(Page(z)), Move(-1), Move(1),
                 Move(-Page(z)), Move(Page(z)), Act("commands-open", "list", 0),
                 Act("commands-open", "open", 0)}
  BY DEF CommandsKeys, Does, Row
<1>4. \A by \in Int : Sensible(s, Scroll(by)) /\ Sensible(s, Move(by))
  BY <1>2 DEF Sensible, Act
<1>5. Sensible(s, Act("commands-open", "list", 0)) /\ Sensible(s, Act("commands-open", "open", 0))
  BY DEF Sensible, Act
<1>6. QED
  BY <1>1, <1>3, <1>4, <1>5

\* A press of any key, at any size of the terminal.
LEMMA KeysAreSensible ==
  ASSUME NEW s \in TuiState, NEW z \in Sizes, EditorOf(s), NEW r \in handleKey(s, z)
  PROVE  Sensible(s, r.act)
<1>1. r \in Table(s, z) /\ r.when
  BY DEF handleKey
<1>2. CASE s.overlay # "none"
  BY <1>1, <1>2, OverlayKeysAreSensible DEF Table
<1>3. CASE s.overlay = "none" /\ s.editing # 0 /\ s.tab = "config"
  BY <1>1, <1>3, EditKeysAreSensible DEF Table
<1>4. CASE s.overlay = "none" /\ s.filtering /\ s.tab = "logs"
  BY <1>1, <1>4, FilterKeysAreSensible DEF Table
<1>5. CASE /\ s.overlay = "none" /\ ~(s.editing # 0 /\ s.tab = "config")
           /\ ~(s.filtering /\ s.tab = "logs")
  <2>1. Free(s)
    BY <1>5 DEF EditorOf, Free
  <2>2. r \in GlobalKeys \/ r \in EscKeys(s) \/ r \in TabKeys(s, z)
    BY <1>1, <1>5 DEF Table, ScreenKeys
  <2>3. CASE r \in TabKeys(s, z)
    <3>1. s.tab \in {"overview", "logs", "config", "doctor", "commands"}
      BY TuiStateFields, TabsAreFive
    <3>2. CASE s.tab = "overview"
      BY <2>3, <3>2, OverviewKeysAreSensible DEF TabKeys
    <3>3. CASE s.tab = "logs"
      BY <2>3, <3>3, LogsKeysAreSensible DEF TabKeys
    <3>4. CASE s.tab = "config"
      BY <1>1, <2>1, <2>3, <3>4, ConfigKeysAreSensible DEF TabKeys
    <3>5. CASE s.tab = "doctor"
      BY <2>3, <3>5 DEF TabKeys, Row, Nothing, Act, Sensible
    <3>6. CASE s.tab = "commands"
      BY <2>3, <3>6, CommandsKeysAreSensible DEF TabKeys
    <3>7. QED
      BY <3>1, <3>2, <3>3, <3>4, <3>5, <3>6
  <2>4. QED
    BY <2>1, <2>2, <2>3, GlobalKeysAreSensible, EscKeysAreSensible
<1>6. QED
  BY <1>2, <1>3, <1>4, <1>5

-----------------------------------------------------------------------------
(* What an action leaves of the states.                                    *)

\* A state as the invariant has it.
Proper(s) == s \in TuiState /\ CursorInRows(s) /\ EditorOf(s)

LEMMA MovesInRows ==
  ASSUME NEW n \in Int, NEW rows \in Nat
  PROVE  LET to == Clamp(n, 0, AtLeast(rows - 1, 0)) IN to \in Nat /\ (to = 0 \/ to < rows)
BY DEF Clamp, AtLeast

\* Every action a key can mean leaves a proper state.
LEMMA KeysKeepProper ==
  ASSUME NEW s, NEW a, Proper(s), Sensible(s, a)
  PROVE  Proper(reduce(s, a))
<1> DEFINE t == reduce(s, a)
<1>1. s \in TuiState /\ CursorInRows(s) /\ EditorOf(s)
  BY DEF Proper
<1>2. /\ s.tab \in TabNames /\ s.cursor \in Nat /\ s.rows \in Nat /\ s.rows <= Len(Fields)
      /\ s.selected \in 1..Len(Commands) /\ s.editing \in 0..Len(Fields)
  BY <1>1, TuiStateFields
<1>3. Len(Fields) \in Nat /\ Len(Commands) \in Nat /\ Len(Commands) > 0 /\ MaxTyped \in Nat /\ MaxTyped >= 1
  BY ScreensAssumption DEF ScreensAssumption
<1>4. CASE a.type \in {"none", "logs-view"}
  BY <1>4 DEF reduce, Proper
<1>5. CASE a.type \in {"tab", "tab-step"}
  <2>1. PICK to \in TabNames : t = [s EXCEPT !.tab = to]
    <3>1. CASE a.type = "tab"
      <4>1. t = [s EXCEPT !.tab = a.to]
        BY <3>1 DEF reduce
      <4>2. QED
        BY <3>1, <4>1 DEF Sensible
    <3>2. CASE a.type = "tab-step"
      <4>1. a.by \in {-1, 1}
        BY <3>2 DEF Sensible
      <4>2. TabAt(TabIndex(s.tab) + Len(Tabs) + a.by) \in TabNames
        BY <1>2, <4>1, StepsToATab
      <4>3. t = [s EXCEPT !.tab = TabAt(TabIndex(s.tab) + Len(Tabs) + a.by)]
        BY <3>2 DEF reduce
      <4>4. QED
        BY <4>2, <4>3
    <3>3. QED
      BY <1>5, <3>1, <3>2
  <2>2. Free(s)
    BY <1>5 DEF Sensible
  <2>3. t \in TuiState
    BY <1>1, <2>1 DEF TuiState, TabNames
  <2>4. CursorInRows(t) /\ EditorOf(t)
    BY <1>1, <2>1, <2>2 DEF TuiState, CursorInRows, EditorOf, Free
  <2>5. QED
    BY <2>3, <2>4 DEF Proper
<1>6. CASE a.type = "overlay"
  <2>1. t = [s EXCEPT !.overlay = a.to]
    BY <1>6 DEF reduce
  <2>2. a.to \in Overlays
    BY <1>6 DEF Sensible
  <2>3. QED
    BY <1>1, <2>1, <2>2 DEF Proper, TuiState, CursorInRows, EditorOf
<1>7. CASE a.type = "config-move"
  <2>1. PICK to \in Nat : t = [s EXCEPT !.cursor = to] /\ (to = 0 \/ to < s.rows)
    <3>1. a.by \in Int
      BY <1>7 DEF Sensible
    <3>2. s.cursor + a.by \in Int
      BY <1>2, <3>1
    <3>3. t = [s EXCEPT !.cursor = Clamp(s.cursor + a.by, 0, AtLeast(s.rows - 1, 0))]
      BY <1>7 DEF reduce
    <3>4. QED
      BY <1>2, <3>2, <3>3, MovesInRows
  <2>2. Free(s)
    BY <1>7 DEF Sensible
  <2>3. QED
    BY <1>1, <2>1, <2>2 DEF Proper, TuiState, CursorInRows, EditorOf, Free
<1>8. CASE a.type = "config-edit"
  <2>1. t = [s EXCEPT !.editing = a.by, !.draft = 1]
    BY <1>8 DEF reduce
  <2>2. /\ Free(s) /\ s.tab = "config"
        /\ a.by = s.cursor + 1 /\ a.by <= s.rows /\ Fields[a.by] = "text"
    BY <1>8 DEF Sensible
  <2>3. a.by \in 0..Len(Fields) /\ 1 \in 0..MaxTyped
    BY <1>2, <1>3, <2>2
  <2>4. QED
    BY <1>1, <2>1, <2>2, <2>3 DEF Proper, TuiState, CursorInRows, EditorOf, Free
<1>9. CASE a.type = "config-draft"
  <2>1. t = [s EXCEPT !.draft = a.by]
    BY <1>9 DEF reduce
  <2>2. a.by \in 0..MaxTyped
    BY <1>9 DEF Sensible
  <2>3. QED
    BY <1>1, <2>1, <2>2 DEF Proper, TuiState, CursorInRows, EditorOf
<1>10. CASE a.type = "config-close"
  <2>1. t = [s EXCEPT !.editing = 0, !.draft = 0]
    BY <1>10 DEF reduce
  <2>2. 0 \in 0..Len(Fields) /\ 0 \in 0..MaxTyped
    BY <1>3
  <2>3. QED
    BY <1>1, <2>1, <2>2 DEF Proper, TuiState, CursorInRows, EditorOf
<1>11. CASE a.type = "logs-filter"
  <2>1. t = [s EXCEPT !.filter = a.by, !.filtering = (a.to = "typing")]
    BY <1>11 DEF reduce
  <2>2. a.by \in 0..MaxTyped /\ (a.to = "typing" => s.tab = "logs")
    BY <1>11 DEF Sensible
  <2>3. QED
    BY <1>1, <2>1, <2>2 DEF Proper, TuiState, CursorInRows, EditorOf
<1>12. CASE a.type = "commands-move"
  <2>1. t = [s EXCEPT !.selected = Clamp(s.selected + a.by, 1, Len(Commands))]
    BY <1>12 DEF reduce
  <2>2. a.by \in Int
    BY <1>12 DEF Sensible
  <2>3. Clamp(s.selected + a.by, 1, Len(Commands)) \in 1..Len(Commands)
    BY <1>2, <1>3, <2>2 DEF Clamp
  <2>4. QED
    BY <1>1, <2>1, <2>3 DEF Proper, TuiState, CursorInRows, EditorOf
<1>13. CASE a.type = "commands-open"
  <2>1. t = [s EXCEPT !.open = (a.to = "open"), !.scroll = 0]
    BY <1>13 DEF reduce
  <2>2. t \in TuiState
    <3>1. PICK open \in BOOLEAN : open <=> a.to = "open"
      OBVIOUS
    <3>2. t = [s EXCEPT !.open = open, !.scroll = 0]
      BY <2>1, <3>1
    <3> DEFINE u == [s EXCEPT !.open = open]
    <3>3. u \in TuiState
      BY <1>1 DEF TuiState
    <3>4. t = [u EXCEPT !.scroll = 0]
      BY <1>1, <3>2 DEF TuiState
    <3> HIDE DEF u
    <3>5. QED
      BY <3>3, <3>4 DEF TuiState
  <2>3. /\ t.tab = s.tab /\ t.cursor = s.cursor /\ t.rows = s.rows /\ t.editing = s.editing
        /\ t.filtering = s.filtering
    BY <1>1, <2>1 DEF TuiState
  <2>4. CursorInRows(t) /\ EditorOf(t)
    BY <1>1, <2>3 DEF CursorInRows, EditorOf
  <2>5. QED
    BY <2>2, <2>4 DEF Proper
<1>14. CASE a.type = "commands-scroll"
  <2>1. t = [s EXCEPT !.scroll = a.by]
    BY <1>14 DEF reduce
  <2>2. a.by \in Nat
    BY <1>14 DEF Sensible
  <2>3. QED
    BY <1>1, <2>1, <2>2 DEF Proper, TuiState, CursorInRows, EditorOf
<1>15. QED
  BY <1>4, <1>5, <1>6, <1>7, <1>8, <1>9, <1>10, <1>11, <1>12, <1>13, <1>14 DEF Sensible

\* What means something to the handler means it to the reducer too.
LEMMA SensibleToBoth ==
  ASSUME NEW s, NEW t, Proper(s), Behind(s, t), NEW a, Sensible(s, a)
  PROVE  Sensible(t, a)
<1>1. s.tab = t.tab /\ (Free(s) => Free(t)) /\ (s.rows = 0 \/ (s.rows = t.rows /\ s.cursor = t.cursor))
  BY DEF Behind, SameKeys, Free
<1>2. s.cursor \in Nat
  BY TuiStateFields DEF Proper
<1>3. CASE a.type = "config-edit"
  BY <1>1, <1>2, <1>3 DEF Sensible
<1>4. CASE a.type # "config-edit"
  BY <1>1, <1>4 DEF Sensible
<1>5. QED
  BY <1>3, <1>4

\* The same press advances both the same way.
LEMMA PressKeepsBehind ==
  ASSUME NEW s \in TuiState, NEW t \in TuiState, Behind(s, t), NEW a, Sensible(s, a)
  PROVE  Behind(reduce(s, a), reduce(t, a))
<1>1. SameKeys(s, t) /\ ((s.rows = t.rows /\ s.cursor = t.cursor) \/ (s.rows = 0 /\ t.rows = Len(Fields)))
  BY DEF Behind
<1>2. CASE a.type \in {"none", "logs-view"}
  BY <1>2 DEF reduce
<1>3. CASE a.type = "tab"
  <2>1. /\ reduce(s, a) = [s EXCEPT !.tab = a.to]
        /\ reduce(t, a) = [t EXCEPT !.tab = a.to]
    BY <1>3 DEF reduce
  <2>2. QED
    BY <1>1, <2>1 DEF TuiState, Behind, SameKeys
<1>4. CASE a.type = "tab-step"
  <2>1. /\ reduce(s, a) = [s EXCEPT !.tab = TabAt(TabIndex(@) + Len(Tabs) + a.by)]
        /\ reduce(t, a) = [t EXCEPT !.tab = TabAt(TabIndex(@) + Len(Tabs) + a.by)]
    BY <1>4 DEF reduce
  <2>2. QED
    BY <1>1, <2>1 DEF TuiState, Behind, SameKeys
<1>5. CASE a.type = "overlay"
  <2>1. /\ reduce(s, a) = [s EXCEPT !.overlay = a.to]
        /\ reduce(t, a) = [t EXCEPT !.overlay = a.to]
    BY <1>5 DEF reduce
  <2>2. QED
    BY <1>1, <2>1 DEF TuiState, Behind, SameKeys
<1>6. CASE a.type = "config-move"
  <2>1. /\ reduce(s, a) = [s EXCEPT !.cursor = Clamp(@ + a.by, 0, AtLeast(s.rows - 1, 0))]
        /\ reduce(t, a) = [t EXCEPT !.cursor = Clamp(@ + a.by, 0, AtLeast(t.rows - 1, 0))]
    BY <1>6 DEF reduce
  <2>2. QED
    BY <1>1, <2>1 DEF TuiState, Behind, SameKeys
<1>7. CASE a.type = "config-edit"
  <2>1. /\ reduce(s, a) = [s EXCEPT !.editing = a.by, !.draft = 1]
        /\ reduce(t, a) = [t EXCEPT !.editing = a.by, !.draft = 1]
    BY <1>7 DEF reduce
  <2>2. QED
    BY <1>1, <2>1 DEF TuiState, Behind, SameKeys
<1>8. CASE a.type = "config-draft"
  <2>1. /\ reduce(s, a) = [s EXCEPT !.draft = a.by]
        /\ reduce(t, a) = [t EXCEPT !.draft = a.by]
    BY <1>8 DEF reduce
  <2>2. QED
    BY <1>1, <2>1 DEF TuiState, Behind, SameKeys
<1>9. CASE a.type = "config-close"
  <2>1. /\ reduce(s, a) = [s EXCEPT !.editing = 0, !.draft = 0]
        /\ reduce(t, a) = [t EXCEPT !.editing = 0, !.draft = 0]
    BY <1>9 DEF reduce
  <2>2. QED
    BY <1>1, <2>1 DEF TuiState, Behind, SameKeys
<1>10. CASE a.type = "logs-filter"
  <2>1. /\ reduce(s, a) = [s EXCEPT !.filter = a.by, !.filtering = (a.to = "typing")]
        /\ reduce(t, a) = [t EXCEPT !.filter = a.by, !.filtering = (a.to = "typing")]
    BY <1>10 DEF reduce
  <2>2. QED
    BY <1>1, <2>1 DEF TuiState, Behind, SameKeys
<1>11. CASE a.type = "commands-move"
  <2>1. /\ reduce(s, a) = [s EXCEPT !.selected = Clamp(@ + a.by, 1, Len(Commands))]
        /\ reduce(t, a) = [t EXCEPT !.selected = Clamp(@ + a.by, 1, Len(Commands))]
    BY <1>11 DEF reduce
  <2>2. QED
    BY <1>1, <2>1 DEF TuiState, Behind, SameKeys
<1>12. CASE a.type = "commands-open"
  <2>1. /\ reduce(s, a) = [s EXCEPT !.open = (a.to = "open"), !.scroll = 0]
        /\ reduce(t, a) = [t EXCEPT !.open = (a.to = "open"), !.scroll = 0]
    BY <1>12 DEF reduce
  <2>2. QED
    BY <1>1, <2>1 DEF TuiState, Behind, SameKeys
<1>13. CASE a.type = "commands-scroll"
  <2>1. /\ reduce(s, a) = [s EXCEPT !.scroll = a.by]
        /\ reduce(t, a) = [t EXCEPT !.scroll = a.by]
    BY <1>13 DEF reduce
  <2>2. QED
    BY <1>1, <2>1 DEF TuiState, Behind, SameKeys
<1>14. QED
  BY <1>2, <1>3, <1>4, <1>5, <1>6, <1>7, <1>8, <1>9, <1>10, <1>11, <1>12, <1>13 DEF Sensible

\* What the controller tells on its own.
Told(a) ==
  \/ a.type = "daemon" /\ a.to \in {"up", "down"}
  \/ a.type = "overlay" /\ a.to \in Overlays
  \/ a.type \in {"doctor-running", "doctor-results", "none"}
  \/ a.type = "config-rows" /\ a.by = Len(Fields)

\* It leaves a proper state, and what the keys have made as it was: only the configuration
\* may come that the handler does not know yet, and it comes once.
LEMMA ToldKeepsKeys ==
  ASSUME NEW s, NEW t, Proper(s), Proper(t), Behind(s, t), NEW a, Told(a)
  PROVE  Proper(reduce(t, a)) /\ Behind(s, reduce(t, a))
<1> DEFINE u == reduce(t, a)
<1>1. /\ t \in TuiState /\ CursorInRows(t) /\ EditorOf(t) /\ SameKeys(s, t)
      /\ (s.rows = t.rows /\ s.cursor = t.cursor) \/ (s.rows = 0 /\ t.rows = Len(Fields))
  BY DEF Proper, Behind
<1>2. CASE a.type \in {"daemon", "overlay", "doctor-running", "doctor-results", "none"}
  <2>1. u \in TuiState
    <3>1. CASE a.type = "daemon"
      <4>1. u = [t EXCEPT !.daemon = a.to] /\ a.to \in {"connecting", "down", "up"}
        BY <3>1 DEF reduce, Told
      <4>2. QED
        BY <1>1, <4>1 DEF TuiState
    <3>2. CASE a.type = "overlay"
      <4>1. u = [t EXCEPT !.overlay = a.to] /\ a.to \in Overlays
        BY <3>2 DEF reduce, Told
      <4>2. QED
        BY <1>1, <4>1 DEF TuiState
    <3>3. CASE a.type = "doctor-running"
      <4>1. u = [t EXCEPT !.running = TRUE]
        BY <3>3 DEF reduce
      <4>2. QED
        BY <1>1, <4>1 DEF TuiState
    <3>4. CASE a.type = "doctor-results"
      <4>1. u = [t EXCEPT !.running = FALSE, !.results = TRUE]
        BY <3>4 DEF reduce
      <4>2. QED
        BY <1>1, <4>1 DEF TuiState
    <3>5. CASE a.type = "none"
      BY <1>1, <3>5 DEF reduce
    <3>6. QED
      BY <1>2, <3>1, <3>2, <3>3, <3>4, <3>5
  <2>2. /\ u.tab = t.tab /\ u.cursor = t.cursor /\ u.rows = t.rows /\ u.editing = t.editing
        /\ u.draft = t.draft /\ u.filter = t.filter /\ u.filtering = t.filtering
        /\ u.selected = t.selected /\ u.open = t.open /\ u.scroll = t.scroll
    BY <1>1, <1>2 DEF reduce, TuiState
  <2>3. CursorInRows(u) /\ EditorOf(u) /\ Behind(s, u)
    BY <1>1, <2>2 DEF CursorInRows, EditorOf, Behind, SameKeys
  <2>4. QED
    BY <2>1, <2>3 DEF Proper
<1>3. CASE a.type = "config-rows"
  <2>1. a.by = Len(Fields) /\ Len(Fields) \in Nat
    BY <1>3, ScreensAssumption DEF Told, ScreensAssumption
  <2>2. t.cursor \in Nat /\ t.rows \in {0, Len(Fields)}
    BY <1>1 DEF TuiState
  <2> DEFINE to == Clamp(t.cursor, 0, AtLeast(Len(Fields) - 1, 0))
  <2>3. /\ u = [t EXCEPT !.rows = Len(Fields), !.cursor = to]
        /\ to \in Nat /\ (to = 0 \/ to < Len(Fields))
        /\ t.rows = Len(Fields) => to = t.cursor
    <3>1. u = [t EXCEPT !.rows = Len(Fields), !.cursor = to]
      BY <1>3, <2>1 DEF reduce
    <3>2. t.rows = Len(Fields) => to = t.cursor
      BY <1>1, <2>1, <2>2 DEF Clamp, AtLeast, CursorInRows
    <3>3. to \in Nat /\ (to = 0 \/ to < Len(Fields))
      BY <2>1, <2>2 DEF Clamp, AtLeast
    <3>4. QED
      BY <3>1, <3>2, <3>3
  <2> HIDE DEF to
  <2>4. u \in TuiState
    BY <1>1, <2>3 DEF TuiState
  <2>5. /\ u.rows = Len(Fields) /\ u.cursor = to
        /\ u.tab = t.tab /\ u.editing = t.editing /\ u.draft = t.draft /\ u.filter = t.filter
        /\ u.filtering = t.filtering /\ u.selected = t.selected /\ u.open = t.open
        /\ u.scroll = t.scroll
    BY <1>1, <2>3 DEF TuiState
  <2>6. CursorInRows(u)
    BY <2>3, <2>5 DEF CursorInRows
  <2>7. EditorOf(u)
    <3>1. t.editing # 0 => t.rows = Len(Fields)
      BY <1>1, <2>1, <2>2 DEF EditorOf
    <3>2. QED
      BY <1>1, <2>3, <2>5, <3>1 DEF EditorOf
  <2>8. Behind(s, u)
    BY <1>1, <2>1, <2>2, <2>3, <2>5 DEF Behind, SameKeys
  <2>9. QED
    BY <2>4, <2>6, <2>7, <2>8 DEF Proper
<1>4. QED
  BY <1>2, <1>3 DEF Told

-----------------------------------------------------------------------------
(* The command line: what the shell ran ended with a code there is, and    *)
(* the UI is only opened on a screen there is.                             *)

GoodOutcome(o) == o.code \in 0..3 /\ (o.does = "ui" => o.screen \in SCREENS)

LEMMA RunEndsWell ==
  ASSUME NEW c, NEW values, NEW globals, NEW tty
  PROVE  GoodOutcome(Run(c, values, globals, tty))
<1> DEFINE o == Run(c, values, globals, tty)
<1>1. CASE c.kind = "stub" \/ Unfinished(c.path, values)
  BY <1>1 DEF Run, Outcome, GoodOutcome
<1>2. CASE ~(c.kind = "stub" \/ Unfinished(c.path, values)) /\ c.path # <<"tui">>
  BY <1>2 DEF Run, Outcome, GoodOutcome
<1>3. CASE /\ ~(c.kind = "stub" \/ Unfinished(c.path, values)) /\ c.path = <<"tui">>
           /\ screenOf(values) \notin SCREENS \/ tty = "none" \/ "json" \in globals
  BY <1>3 DEF Run, Outcome, GoodOutcome
<1>4. CASE /\ ~(c.kind = "stub" \/ Unfinished(c.path, values)) /\ c.path = <<"tui">>
           /\ ~(screenOf(values) \notin SCREENS \/ tty = "none" \/ "json" \in globals)
  <2>1. o = Opens(screenOf(values), c.path, globals) /\ screenOf(values) \in SCREENS
    BY <1>4 DEF Run
  <2>2. o.code = 0 /\ o.screen = screenOf(values)
    BY <2>1 DEF Opens, Outcome
  <2>3. QED
    BY <2>1, <2>2 DEF GoodOutcome
<1>5. QED
  BY <1>1, <1>2, <1>3, <1>4

\* Whatever the words and wherever it runs.
LEMMA LinesEndWell ==
  ASSUME NEW words, NEW tty
  PROVE  GoodOutcome(runCli(words, tty))
<1>1. \A does \in {"help", "version", "error"} : \A path, code, globals :
        code \in 0..3 => GoodOutcome(Outcome(does, path, code, globals))
  BY DEF Outcome, GoodOutcome
<1>2. ASSUME NEW to, NEW parsed, NEW globals
      PROVE  GoodOutcome(OutcomeOf(to, parsed, globals, tty))
  BY <1>1, RunEndsWell DEF OutcomeOf
<1>3. QED
  BY <1>1, <1>2 DEF runCli

-----------------------------------------------------------------------------
(* Every step.                                                             *)

LEMMA StartIsProper ==
  ASSUME NEW tab \in TabNames
  PROVE  Proper(initialState(tab)) /\ Behind(initialState(tab), initialState(tab))
<1> DEFINE s == initialState(tab)
<1>1. /\ Len(Fields) \in Nat /\ Len(Commands) \in Nat /\ Len(Commands) > 0 /\ MaxTyped \in Nat
  BY ScreensAssumption DEF ScreensAssumption
<1>2. s \in TuiState
  BY <1>1 DEF initialState, TuiState, TabNames, Overlays
<1>3. QED
  BY <1>2 DEF initialState, Proper, CursorInRows, EditorOf, Behind, SameKeys

\* What the controller does of a press.
LEMMA CarryKeeps ==
  ASSUME NEW s, NEW cmd, NEW a, Proper(s), Proper(reduce(state, a)), Behind(s, reduce(state, a)),
         doctors \in 0..MaxRuns, links \in 0..MaxRuns, Carry(cmd, a)
  PROVE  Proper(state') /\ Behind(s, state') /\ doctors' \in 0..MaxRuns /\ links' \in 0..MaxRuns
<1>1. MaxRuns \in Nat
  BY ScreensAssumption DEF ScreensAssumption
<1>2. CASE cmd = "doctor"
  <2>1. Told(Act("doctor-running", "none", 0))
    BY DEF Told, Act
  <2>2. /\ state' = reduce(reduce(state, a), Act("doctor-running", "none", 0))
        /\ doctors < MaxRuns /\ doctors' = doctors + 1 /\ links' = links
    BY <1>2 DEF Carry
  <2>3. QED
    BY <1>1, <2>1, <2>2, ToldKeepsKeys
<1>3. CASE cmd = "admin-link"
  BY <1>1, <1>3 DEF Carry, Dispatch
<1>4. CASE cmd \notin {"doctor", "admin-link"}
  BY <1>4 DEF Carry, Dispatch
<1>5. QED
  BY <1>2, <1>3, <1>4

LEMMA InvProper ==
  ASSUME IInv
  PROVE  Proper(state) /\ Proper(latest) /\ Behind(latest, state)
BY DEF IInv, TypeOK, ScreenInv, Proper

\* The parts of the invariant from what a step leaves.
LEMMA InvOfParts ==
  ASSUME IInv, Proper(state)', Proper(latest)', Behind(latest, state)',
         size' \in Sizes, doctors' \in 0..MaxRuns, links' \in 0..MaxRuns,
         ran' \in {NoLine, ran},
         exit' \in {"no", "ok", "interrupted"} \/ (exit' = exit /\ ran' = ran)
  PROVE  IInv'
<1>1. exit' \in {"shell", "opening", "no", "ok", "interrupted"}
  BY DEF IInv, TypeOK
<1>2. ran' = NoLine \/ (ran'.words \in Lines /\ ran'.outcome.code \in 0..3)
  BY DEF IInv, TypeOK
<1>3. TypeOK'
  BY <1>1, <1>2 DEF TypeOK, Proper
<1>4. ScreenInv'
  BY DEF ScreenInv, Proper
<1>5. QED
  BY <1>3, <1>4 DEF IInv, OpeningInv

LEMMA InitInv == Init => IInv
<1>1. 0 \in 0..MaxRuns
  BY ScreensAssumption DEF ScreensAssumption
<1>2. "overview" \in TabNames
  BY TabsAreFive
<1>3. QED
  BY <1>1, <1>2, StartIsProper DEF Init, IInv, TypeOK, OpeningInv, ScreenInv, Proper

LEMMA NextInv ==
  ASSUME IInv, [Next]_vars
  PROVE  IInv'
<1> USE InvProper
<1>1. TypeOK
  BY DEF IInv
<1>2. CASE Enter
  <2>1. PICK words \in Lines, tty \in {"full", "dumb", "none"} :
          ran' = [words |-> words, tty |-> tty, outcome |-> runCli(words, tty)]
    BY <1>2 DEF Enter
  <2>2. ran'.words \in Lines /\ GoodOutcome(ran'.outcome)
    BY <2>1, LinesEndWell
  <2>3. exit' = IF ran'.outcome.does = "ui" THEN "opening" ELSE "shell"
    BY <1>2 DEF Enter
  <2>4. OpeningInv'
    BY <2>2, <2>3 DEF OpeningInv, GoodOutcome
  <2>5. TypeOK'
    BY <1>1, <1>2, <2>2, <2>3 DEF TypeOK, Enter, GoodOutcome
  <2>6. ScreenInv'
    BY <1>2 DEF Enter, IInv, ScreenInv
  <2>7. QED
    BY <2>4, <2>5, <2>6 DEF IInv
<1>3. CASE Open
  <2>1. ran.outcome.screen \in TabNames
    BY <1>3, TabsAreFive DEF Open, IInv, OpeningInv, SCREENS
  <2>2. Proper(state)' /\ Proper(latest)' /\ Behind(latest, state)'
    BY <1>3, <2>1, StartIsProper DEF Open
  <2>3. QED
    BY <1>1, <1>3, <2>2, InvOfParts DEF Open, TypeOK
<1>4. CASE Press
  <2>1. PICK r \in handleKey(latest, size) : Carry(r.cmd, r.act) /\ latest' = reduce(latest, r.act)
    BY <1>4 DEF Press
  <2>2. Sensible(latest, r.act)
    BY <1>1, KeysAreSensible DEF TypeOK, Proper
  <2>3. Sensible(state, r.act)
    BY <2>2, SensibleToBoth
  <2>4. Proper(reduce(latest, r.act)) /\ Proper(reduce(state, r.act))
    BY <2>2, <2>3, KeysKeepProper
  <2>5. Behind(reduce(latest, r.act), reduce(state, r.act))
    BY <2>2, PressKeepsBehind DEF Proper
  <2>6. /\ Proper(state') /\ Behind(reduce(latest, r.act), state')
        /\ doctors' \in 0..MaxRuns /\ links' \in 0..MaxRuns
    BY <1>1, <2>1, <2>4, <2>5, CarryKeeps DEF TypeOK
  <2>7. QED
    BY <1>1, <1>4, <2>1, <2>4, <2>6, InvOfParts DEF Press, TypeOK
<1>5. CASE Quit \/ \E how \in {"ok", "interrupted"} : Leave(how)
  <2>1. PICK how \in {"ok", "interrupted"} : Gone(how)
    BY <1>5 DEF Quit, Leave
  <2>2. "overview" \in TabNames /\ 0 \in 0..MaxRuns
    BY TabsAreFive, ScreensAssumption DEF ScreensAssumption
  <2>3. Proper(state)' /\ Proper(latest)' /\ Behind(latest, state)'
    BY <2>1, <2>2, StartIsProper DEF Gone
  <2>4. QED
    BY <1>1, <2>1, <2>2, <2>3, InvOfParts DEF Gone, TypeOK
<1>6. CASE Render
  <2>1. reduce(state, Nothing) = state
    BY DEF reduce, Nothing, Act
  <2>2. Behind(state, state)
    BY DEF Behind, SameKeys
  <2>3. /\ Proper(state') /\ Behind(state, state')
        /\ doctors' \in 0..MaxRuns /\ links' \in 0..MaxRuns
    <3>1. CASE DoctorPending(state)
      BY <1>1, <1>6, <2>1, <2>2, <3>1, CarryKeeps DEF Render, TypeOK
    <3>2. CASE ~DoctorPending(state)
      BY <1>1, <1>6, <2>2, <3>2 DEF Render, TypeOK
    <3>3. QED
      BY <3>1, <3>2
  <2>4. QED
    BY <1>1, <1>6, <2>3, InvOfParts DEF Render, TypeOK
<1>7. CASE \E z \in Sizes : Resize(z)
  BY <1>1, <1>7, InvOfParts DEF Resize, TypeOK
<1>8. CASE \/ \E kind \in {"up", "down"} : DaemonSeen(kind)
           \/ ConfigRead \/ DoctorDone
           \/ \E overlay \in {"link", "linkerror"} : LinkAnswered(overlay)
  <2>1. PICK a : Told(a) /\ Dispatch(a)
    <3>1. ASSUME NEW kind \in {"up", "down"}
          PROVE  Told(Act("daemon", kind, 0))
      BY DEF Told, Act
    <3>2. Told(Act("config-rows", "none", Len(Fields))) /\ Told(Act("doctor-results", "none", 0))
      BY DEF Told, Act
    <3>3. ASSUME NEW overlay \in {"link", "linkerror"}
          PROVE  Told(Act("overlay", overlay, 0))
      BY DEF Told, Act, Overlays
    <3>4. QED
      BY <1>8, <3>1, <3>2, <3>3 DEF DaemonSeen, ConfigRead, DoctorDone, LinkAnswered
  <2>2. Proper(state') /\ Behind(latest, state')
    BY <2>1, ToldKeepsKeys DEF Dispatch
  <2>3. UNCHANGED <<latest, size, exit, ran>>
    BY <1>8 DEF DaemonSeen, ConfigRead, DoctorDone, LinkAnswered
  <2>4. doctors' \in 0..MaxRuns /\ links' \in 0..MaxRuns
    BY <1>1, <1>8, ScreensAssumption
       DEF DaemonSeen, ConfigRead, DoctorDone, LinkAnswered, TypeOK, ScreensAssumption
  <2>5. QED
    BY <1>1, <2>2, <2>3, <2>4, InvOfParts DEF TypeOK
<1>9. CASE UNCHANGED vars
  BY <1>1, <1>9, InvOfParts DEF vars, TypeOK
<1>10. QED
  BY <1>2, <1>3, <1>4, <1>5, <1>6, <1>7, <1>8, <1>9 DEF Next

\* TypeOK and the parts about the screens hold in every state.
THEOREM ScreensInductive == Spec => []IInv
<1>1. Init => IInv
  BY InitInv
<1>2. IInv /\ [Next]_vars => IInv'
  BY NextInv
<1>3. QED
  BY <1>1, <1>2, PTL DEF Spec

-----------------------------------------------------------------------------
(* What follows from it.                                                   *)

\* The state stays a state of the screens, whatever is typed and told: the cursor a number,
\* the selected command one of the commands, the field being edited one of the fields.
THEOREM TypeCorrect == Spec => []TypeOK
<1>1. IInv => TypeOK
  BY DEF IInv
<1>2. QED
  BY <1>1, ScreensInductive, PTL

\* useInput's "each press must see what the previous one did": for every configuration, list of
\* commands and terminal, the state the handler advances agrees with the reducer's in all that
\* only keys change, from the first frame with the configuration on.
THEOREM PressesAreSeen == Spec => []EachPressSeesTheLast
<1>1. IInv => EachPressSeesTheLast
  <2>1. SUFFICES ASSUME IInv, latest.rows = state.rows
                 PROVE  OfTheKeys(latest) = OfTheKeys(state)
    BY DEF EachPressSeesTheLast
  <2>2. Behind(latest, state) /\ Proper(latest) /\ Proper(state)
    BY <2>1, InvProper
  <2>3. latest.cursor = state.cursor
    <3>1. /\ latest.cursor \in Nat /\ CursorInRows(latest)
          /\ state.cursor \in Nat /\ CursorInRows(state)
      BY <2>2, TuiStateFields DEF Proper
    <3>2. CASE latest.rows = 0
      BY <2>1, <3>1, <3>2 DEF CursorInRows
    <3>3. CASE latest.rows # 0
      BY <2>2, <3>3 DEF Behind
    <3>4. QED
      BY <3>2, <3>3
  <2>4. QED
    BY <2>2, <2>3 DEF Behind, SameKeys, OfTheKeys
<1>2. QED
  BY <1>1, ScreensInductive, PTL

\* Nothing that is typed goes to a field, or to a filter, that is not on the screen.
THEOREM EditorsStayOnTheirScreens == Spec => []EditorOnItsScreen
<1>1. IInv => EditorOnItsScreen
  BY DEF IInv, ScreenInv, EditorOf, EditorOnItsScreen
<1>2. QED
  BY <1>1, ScreensInductive, PTL

-----------------------------------------------------------------------------
(* The windows.                                                            *)

\* What a list asks of its window.
GoodWindow(total, cursor, maxRows, w) ==
  /\ w.start <= cursor /\ cursor < w.start + w.count
  /\ w.before + w.count + w.after = total
  /\ w.count = IF RowSize(maxRows) < total THEN RowSize(maxRows) ELSE total

\* "keeping the cursor row in view and saying how much is hidden": the cursor's row is in
\* the window, the rows hidden above and below are counted right, and no line of the screen
\* is left empty while there are rows to show. Whatever the height, even none at all.
THEOREM WindowHoldsCursor ==
  ASSUME NEW total \in Nat \ {0}, NEW cursor \in 0..(total - 1), NEW maxRows \in Int
  PROVE  GoodWindow(total, cursor, maxRows, RowWindow(total, cursor, maxRows))
<1> DEFINE height == RowSize(maxRows)
           start == RowStart(total, cursor, height)
           count == IF height < total - start THEN height ELSE total - start
<1>1. height \in Nat /\ height >= 1
  BY DEF RowSize
<1>2. RowAt(total, cursor) = cursor
  BY DEF RowAt
<1>3. /\ start \in Nat /\ start <= cursor /\ start + count > cursor
      /\ count = IF height < total THEN height ELSE total
      /\ start + count <= total
  BY <1>1 DEF RowStart
<1>4. RowWindow(total, cursor, maxRows) =
        [start |-> start, count |-> count, before |-> start, after |-> total - start - count]
  BY <1>1, <1>2, <1>3 DEF RowWindow
<1>5. QED
  BY <1>1, <1>3, <1>4 DEF GoodWindow

\* A cursor that is out of the list (the list has shrunk) shows the list's nearest end.
THEOREM WindowOfShrunkList ==
  ASSUME NEW total \in Nat \ {0}, NEW cursor \in Nat, cursor >= total, NEW maxRows \in Int
  PROVE  RowWindow(total, cursor, maxRows) = RowWindow(total, total - 1, maxRows)
<1>1. RowAt(total, cursor) = total - 1 /\ RowAt(total, total - 1) = total - 1
  BY DEF RowAt
<1>2. QED
  BY <1>1 DEF RowWindow

\* The headings above a command are among all the headings.
LEMMA HeadingsGrow ==
  ASSUME NEW i \in 1..Len(Commands)
  PROVE  /\ HeadingsTo(i) \in Nat /\ HeadingsTo(Len(Commands)) \in Nat
         /\ HeadingsTo(i) <= HeadingsTo(Len(Commands))
<1> DEFINE To(k) == {j \in 1..k : Commands[j]}
<1>1. Len(Commands) \in Nat
  BY ScreensAssumption DEF ScreensAssumption
<1>2. IsFiniteSet(1..i) /\ IsFiniteSet(1..Len(Commands))
  BY <1>1, FS_Interval
<1>3. To(i) \subseteq To(Len(Commands)) /\ To(i) \subseteq 1..i /\ To(Len(Commands)) \subseteq 1..Len(Commands)
  BY <1>1
<1>4. IsFiniteSet(To(i)) /\ IsFiniteSet(To(Len(Commands)))
  BY <1>2, <1>3, FS_Subset
<1>5. Cardinality(To(i)) <= Cardinality(To(Len(Commands)))
  BY <1>3, <1>4, FS_Subset
<1>6. Cardinality(To(i)) \in Nat /\ Cardinality(To(Len(Commands))) \in Nat
  BY <1>4, FS_CardinalityType
<1>7. QED
  BY <1>5, <1>6 DEF HeadingsTo

\* The selected row is in the part of its list that is drawn, at every size of the terminal,
\* also one that is too small for the frame.
THEOREM RowsStayInView == Spec => []CursorInView
<1>1. IInv => CursorInView
  <2>1. SUFFICES ASSUME IInv
                 PROVE  CursorInView
    OBVIOUS
  <2>2. /\ state \in TuiState /\ CursorInRows(state) /\ size \in Sizes
    BY <2>1 DEF IInv, TypeOK, ScreenInv
  <2>3. state.rows \in Nat /\ state.cursor \in Nat /\ state.selected \in 1..Len(Commands)
    BY <2>2, TuiStateFields
  <2>4. BodyRows(size) \in Int
    BY <2>2, PagesAreNumbers
  <2>5. ASSUME state.rows > 0, NEW warned \in BOOLEAN
        PROVE  InWindow(state.cursor, ConfigWindow(state, size, warned))
    <3>1. state.rows \in Nat \ {0} /\ state.cursor \in 0..(state.rows - 1)
      BY <2>2, <2>3, <2>5 DEF CursorInRows
    <3>2. BodyRows(size) - 2 - (IF warned THEN 1 ELSE 0) \in Int
      BY <2>4
    <3>3. QED
      BY <3>1, <3>2, WindowHoldsCursor DEF InWindow, ConfigWindow, GoodWindow
  <2>6. InWindow(state.selected - 1 + HeadingsTo(state.selected), CommandsWindow(state, size))
    <3> DEFINE total == Len(Commands) + HeadingsTo(Len(Commands))
               line == CommandLine(state.selected)
    <3>1. Len(Commands) \in Nat
      BY ScreensAssumption DEF ScreensAssumption
    <3>2. total \in Nat \ {0} /\ line \in 0..(total - 1)
      BY <2>3, <3>1, HeadingsGrow DEF CommandLine
    <3>3. BodyRows(size) - 1 \in Int
      BY <2>4
    <3>4. GoodWindow(total, line, BodyRows(size) - 1, CommandsWindow(state, size))
      BY <3>2, <3>3, WindowHoldsCursor DEF CommandsWindow
    <3>5. QED
      BY <3>4 DEF InWindow, GoodWindow, CommandLine
  <2>7. QED
    BY <2>5, <2>6 DEF CursorInView
<1>2. QED
  BY <1>1, ScreensInductive, PTL

-----------------------------------------------------------------------------
(* The keys and the hints about them. A key is in one row of a table, or   *)
(* in two that never do something both.                                    *)

Apart(rows) ==
  \A q \in rows, r \in rows : \A k \in q.keys : (k \in r.keys /\ q.when /\ r.when) => q = r

LEMMA OverlayKeysApart == ASSUME NEW s PROVE Apart(OverlayKeys(s))
<1> DEFINE yes == Row({"y"}, s.overlay \in Confirms, Close, s.overlay)
           open == Row({"o"}, s.overlay = "link", Close, "open-url")
           leave == Does({"esc", "q"}, TRUE, Close)
           no == Does({"n"}, s.overlay \in Confirms, Close)
           close == Does({"return", "?"}, s.overlay \notin Confirms, Close)
           Is(k, r) == \/ k = "y" /\ r = yes
                       \/ k = "o" /\ r = open
                       \/ k \in {"esc", "q"} /\ r = leave
                       \/ k = "n" /\ r = no
                       \/ k \in {"return", "?"} /\ r = close
<1>1. \A r \in OverlayKeys(s) : \A k \in r.keys : Is(k, r)
  BY DEF OverlayKeys, Does, Row, Act, Close
<1> HIDE DEF yes, open, leave, no, close
<1>2. \A k, q, r : Is(k, q) /\ Is(k, r) => q = r
  OBVIOUS
<1> HIDE DEF Is
<1>3. QED
  BY <1>1, <1>2 DEF Apart

LEMMA EditKeysApart == ASSUME NEW s PROVE Apart(EditKeys(s))
<1> DEFINE esc == Does({"esc"}, TRUE, Act("config-close", "none", 0))
           return == Row({"return"}, TRUE, Act("config-close", "none", 0), "config-set")
           back == Does({"back"}, TRUE, Act("config-draft", "none", AtLeast(s.draft - 1, 0)))
           clear == Does({"^u"}, TRUE, Act("config-draft", "none", 0))
           typed == Does(Letters, s.draft < MaxTyped, Act("config-draft", "none", s.draft + 1))
           Is(k, r) == \/ k = "esc" /\ r = esc
                       \/ k = "return" /\ r = return
                       \/ k = "back" /\ r = back
                       \/ k = "^u" /\ r = clear
                       \/ k \in Letters /\ r = typed
<1>1. \A r \in EditKeys(s) : \A k \in r.keys : Is(k, r)
  BY DEF EditKeys, Does, Row, Act
<1>2. {"esc", "return", "back", "^u"} \cap Letters = {}
  BY DEF Letters
<1> HIDE DEF esc, return, back, clear, typed
<1>3. \A k, q, r : Is(k, q) /\ Is(k, r) => q = r
  BY <1>2
<1> HIDE DEF Is
<1>4. QED
  BY <1>1, <1>3 DEF Apart

LEMMA FilterKeysApart == ASSUME NEW s PROVE Apart(FilterKeys(s))
<1> DEFINE esc == Does({"esc"}, TRUE, Act("logs-filter", "done", 0))
           return == Does({"return"}, TRUE, Act("logs-filter", "done", s.filter))
           back == Does({"back"}, TRUE, Act("logs-filter", "typing", AtLeast(s.filter - 1, 0)))
           typed == Does(Letters, s.filter < MaxTyped, Act("logs-filter", "typing", s.filter + 1))
           Is(k, r) == \/ k = "esc" /\ r = esc
                       \/ k = "return" /\ r = return
                       \/ k = "back" /\ r = back
                       \/ k \in Letters /\ r = typed
<1>1. \A r \in FilterKeys(s) : \A k \in r.keys : Is(k, r)
  BY DEF FilterKeys, Does, Row, Act
<1>2. {"esc", "return", "back"} \cap Letters = {}
  BY DEF Letters
<1> HIDE DEF esc, return, back, typed
<1>3. \A k, q, r : Is(k, q) /\ Is(k, r) => q = r
  BY <1>2
<1> HIDE DEF Is
<1>4. QED
  BY <1>1, <1>3 DEF Apart

\* The keys of all screens and those of a screen alone; esc is neither.
EveryScreens == {"1", "2", "3", "4", "5", "tab", "right", "shift-tab", "left", "?", "q"}
OneScreens == {"s", "S", "R", "a", "r", "u", "up", "k", "down", "j", "pgup", "pgdn", "g", "home", "G",
               "end", "f", "/", "return"}

LEMMA GlobalKeysApart ==
  Apart(GlobalKeys) /\ \A r \in GlobalKeys : r.keys \subseteq EveryScreens
<1> DEFINE To(n, key) == Does({key}, TRUE, Act("tab", Tabs[n], 0))
           first == To(1, "1")
           second == To(2, "2")
           third == To(3, "3")
           fourth == To(4, "4")
           fifth == To(5, "5")
           next == Does({"tab", "right"}, TRUE, Act("tab-step", "none", 1))
           previous == Does({"shift-tab", "left"}, TRUE, Act("tab-step", "none", -1))
           help == Does({"?"}, TRUE, Act("overlay", "help", 0))
           quit == Row({"q"}, TRUE, Nothing, "quit")
           Is(k, r) == \/ k = "1" /\ r = first
                       \/ k = "2" /\ r = second
                       \/ k = "3" /\ r = third
                       \/ k = "4" /\ r = fourth
                       \/ k = "5" /\ r = fifth
                       \/ k \in {"tab", "right"} /\ r = next
                       \/ k \in {"shift-tab", "left"} /\ r = previous
                       \/ k = "?" /\ r = help
                       \/ k = "q" /\ r = quit
<1>1. \A r \in GlobalKeys : \A k \in r.keys : Is(k, r)
  BY DEF GlobalKeys, Does, Row, Act
<1> HIDE DEF first, second, third, fourth, fifth, next, previous, help, quit
<1>2. \A k, q, r : Is(k, q) /\ Is(k, r) => q = r
  OBVIOUS
<1>3. \A k, r : Is(k, r) => k \in EveryScreens
  BY DEF EveryScreens
<1> HIDE DEF Is
<1>4. QED
  BY <1>1, <1>2, <1>3 DEF Apart

LEMMA EscKeysApart ==
  ASSUME NEW s
  PROVE  Apart(EscKeys(s)) /\ \A r \in EscKeys(s) : r.keys = {"esc"}
<1> DEFINE filtered == s.tab = "logs" /\ s.filter # 0
           reading == s.tab = "commands" /\ s.open
           unfilter == Does({"esc"}, filtered, Act("logs-filter", "done", 0))
           close == Does({"esc"}, reading, Act("commands-open", "list", 0))
           quit == Row({"esc"}, ~filtered /\ ~reading, Nothing, "quit")
<1>1. EscKeys(s) = {unfilter, close, quit}
  BY DEF EscKeys
<1>2. /\ unfilter.keys = {"esc"} /\ close.keys = {"esc"} /\ quit.keys = {"esc"}
      /\ (unfilter.when <=> filtered) /\ (close.when <=> reading) /\ (quit.when <=> ~filtered /\ ~reading)
  BY DEF Does, Row
<1>3. ~(filtered /\ reading)
  OBVIOUS
<1> HIDE DEF unfilter, close, quit, filtered, reading
<1>4. QED
  BY <1>1, <1>2, <1>3, Zenon DEF Apart

OnOneScreen(rows) == Apart(rows) /\ \A r \in rows : r.keys \subseteq OneScreens

LEMMA OverviewKeysApart == ASSUME NEW s PROVE OnOneScreen(OverviewKeys(s))
<1> DEFINE start == Row({"s"}, Down(s), Nothing, "start")
           stop == Does({"S"}, Up(s), Act("overlay", "stop", 0))
           restart == Does({"R"}, Up(s), Act("overlay", "restart", 0))
           admin == Row({"a"}, Up(s), Nothing, "admin-link")
           refresh == Row({"r"}, TRUE, Nothing, "refresh")
           Is(k, r) == \/ k = "s" /\ r = start
                       \/ k = "S" /\ r = stop
                       \/ k = "R" /\ r = restart
                       \/ k = "a" /\ r = admin
                       \/ k = "r" /\ r = refresh
<1>1. \A r \in OverviewKeys(s) : \A k \in r.keys : Is(k, r)
  BY DEF OverviewKeys, Does, Row, Act, Nothing
<1> HIDE DEF start, stop, restart, admin, refresh
<1>2. \A k, q, r : Is(k, q) /\ Is(k, r) => q = r
  OBVIOUS
<1>3. \A k, r : Is(k, r) => k \in OneScreens
  BY DEF OneScreens
<1> HIDE DEF Is
<1>4. QED
  BY <1>1, <1>2, <1>3 DEF Apart, OnOneScreen

LEMMA LogsKeysApart == ASSUME NEW s PROVE OnOneScreen(LogsKeys(s))
<1> DEFINE moves == {"up", "k", "down", "j", "pgup", "pgdn", "g", "home", "G", "end", "f"}
           move == Does(moves, TRUE, Act("logs-view", "none", 0))
           filter == Does({"/"}, TRUE, Act("logs-filter", "typing", s.filter))
           Is(k, r) == \/ k \in moves /\ r = move
                       \/ k = "/" /\ r = filter
<1>1. \A r \in LogsKeys(s) : \A k \in r.keys : Is(k, r)
  BY DEF LogsKeys, Does, Row, Act
<1> HIDE DEF move, filter
<1>2. \A k, q, r : Is(k, q) /\ Is(k, r) => q = r
  OBVIOUS
<1>3. \A k, r : Is(k, r) => k \in OneScreens
  BY DEF OneScreens
<1> HIDE DEF Is
<1>4. QED
  BY <1>1, <1>2, <1>3 DEF Apart, OnOneScreen

LEMMA ConfigKeysApart == ASSUME NEW s PROVE OnOneScreen(ConfigKeys(s))
<1> DEFINE field == s.cursor + 1
           flips == field <= s.rows /\ Fields[field] = "flip"
           edits == field <= s.rows /\ Fields[field] = "text"
           up == Does({"up", "k"}, TRUE, Act("config-move", "none", -1))
           down == Does({"down", "j"}, TRUE, Act("config-move", "none", 1))
           flip == Row({"return"}, flips, Nothing, "config-set")
           edit == Does({"return"}, edits, Act("config-edit", "none", field))
           unset == Row({"u"}, field <= s.rows, Nothing, "config-unset")
           Is(k, r) == \/ k \in {"up", "k"} /\ r = up
                       \/ k \in {"down", "j"} /\ r = down
                       \/ k = "return" /\ r = flip
                       \/ k = "return" /\ r = edit
                       \/ k = "u" /\ r = unset
<1>1. \A r \in ConfigKeys(s) : \A k \in r.keys : Is(k, r)
  BY DEF ConfigKeys, Does, Row, Act, Nothing
<1>2. ~(flip.when /\ edit.when)
  <2>1. (flip.when <=> flips) /\ (edit.when <=> edits)
    BY DEF Does, Row
  <2>2. ~(flips /\ edits)
    OBVIOUS
  <2>3. QED
    BY <2>1, <2>2
<1> HIDE DEF up, down, flip, edit, unset
<1>3. \A k, q, r : Is(k, q) /\ Is(k, r) /\ q.when /\ r.when => q = r
  BY <1>2
<1>4. \A k, r : Is(k, r) => k \in OneScreens
  BY DEF OneScreens
<1> HIDE DEF Is
<1>5. QED
  BY <1>1, <1>3, <1>4 DEF Apart, OnOneScreen

\* The list of the commands and the help of one have the same keys.
LEMMA CommandsKeysApart == ASSUME NEW s, NEW z PROVE OnOneScreen(CommandsKeys(s, z))
<1> DEFINE Scroll(by) == Act("commands-scroll", "none", Clamp(s.scroll + by, 0, HelpMax(s, z)))
           Move(by) == Act("commands-move", "none", by)
           scrollUp == Does({"up", "k"}, s.open, Scroll(-1))
           scrollDown == Does({"down", "j"}, s.open, Scroll(1))
           pageUp == Does({"pgup"}, s.open, Scroll(-Page(z)))
           pageDown == Does({"pgdn"}, s.open, Scroll(Page(z)))
           close == Does({"return"}, s.open, Act("commands-open", "list", 0))
           moveUp == Does({"up", "k"}, ~s.open, Move(-1))
           moveDown == Does({"down", "j"}, ~s.open, Move(1))
           leapUp == Does({"pgup"}, ~s.open, Move(-Page(z)))
           leapDown == Does({"pgdn"}, ~s.open, Move(Page(z)))
           open == Does({"return"}, ~s.open, Act("commands-open", "open", 0))
           Reads(k, r) == \/ k \in {"up", "k"} /\ r = scrollUp
                          \/ k \in {"down", "j"} /\ r = scrollDown
                          \/ k = "pgup" /\ r = pageUp
                          \/ k = "pgdn" /\ r = pageDown
                          \/ k = "return" /\ r = close
           Lists(k, r) == \/ k \in {"up", "k"} /\ r = moveUp
                          \/ k \in {"down", "j"} /\ r = moveDown
                          \/ k = "pgup" /\ r = leapUp
                          \/ k = "pgdn" /\ r = leapDown
                          \/ k = "return" /\ r = open
<1>1. \A r \in CommandsKeys(s, z) : \A k \in r.keys : Reads(k, r) \/ Lists(k, r)
  BY DEF CommandsKeys, Does, Row, Act
<1>2. /\ (scrollUp.when <=> s.open) /\ (scrollDown.when <=> s.open) /\ (pageUp.when <=> s.open)
      /\ (pageDown.when <=> s.open) /\ (close.when <=> s.open)
      /\ (moveUp.when <=> ~s.open) /\ (moveDown.when <=> ~s.open) /\ (leapUp.when <=> ~s.open)
      /\ (leapDown.when <=> ~s.open) /\ (open.when <=> ~s.open)
  BY DEF Does, Row
<1> HIDE DEF scrollUp, scrollDown, pageUp, pageDown, close, moveUp, moveDown, leapUp, leapDown, open
<1>3. \A k, r : (Reads(k, r) => (r.when <=> s.open)) /\ (Lists(k, r) => (r.when <=> ~s.open))
  BY <1>2
<1>4. \A k, q, r : (Reads(k, q) /\ Reads(k, r)) \/ (Lists(k, q) /\ Lists(k, r)) => q = r
  OBVIOUS
<1>5. \A k, r : Reads(k, r) \/ Lists(k, r) => k \in OneScreens
  BY DEF OneScreens
<1> HIDE DEF Reads, Lists
<1>6. Apart(CommandsKeys(s, z))
  BY <1>1, <1>3, <1>4, Zenon DEF Apart
<1>7. QED
  BY <1>1, <1>5, <1>6 DEF OnOneScreen

LEMMA TablesApart ==
  ASSUME NEW s \in TuiState, NEW z
  PROVE  Apart(Table(s, z))
<1>1. OnOneScreen(TabKeys(s, z))
  <2>1. s.tab \in {"overview", "logs", "config", "doctor", "commands"}
    BY TuiStateFields, TabsAreFive
  <2>2. CASE s.tab = "overview"
    BY <2>2, OverviewKeysApart DEF TabKeys
  <2>3. CASE s.tab = "logs"
    BY <2>3, LogsKeysApart DEF TabKeys
  <2>4. CASE s.tab = "config"
    BY <2>4, ConfigKeysApart DEF TabKeys
  <2>5. CASE s.tab = "doctor"
    <3>1. TabKeys(s, z) = {Row({"r"}, TRUE, Nothing, "doctor")}
      BY <2>5 DEF TabKeys
    <3>2. Row({"r"}, TRUE, Nothing, "doctor").keys = {"r"}
      BY DEF Row
    <3>3. QED
      BY <3>1, <3>2 DEF OnOneScreen, Apart, OneScreens
  <2>6. CASE s.tab = "commands"
    BY <2>6, CommandsKeysApart DEF TabKeys
  <2>7. QED
    BY <2>1, <2>2, <2>3, <2>4, <2>5, <2>6
<1>2. EveryScreens \cap OneScreens = {} /\ "esc" \notin EveryScreens /\ "esc" \notin OneScreens
  BY DEF EveryScreens, OneScreens
<1>3. Apart(ScreenKeys(s, z))
  <2> DEFINE Globals == GlobalKeys
             Escs == EscKeys(s)
             Tab == TabKeys(s, z)
  <2>1. /\ Apart(Globals) /\ \A r \in Globals : r.keys \subseteq EveryScreens
        /\ Apart(Escs) /\ \A r \in Escs : r.keys = {"esc"}
        /\ Apart(Tab) /\ \A r \in Tab : r.keys \subseteq OneScreens
    BY <1>1, GlobalKeysApart, EscKeysApart DEF OnOneScreen
  <2>2. ScreenKeys(s, z) = Globals \cup Escs \cup Tab
    BY DEF ScreenKeys
  <2> HIDE DEF Globals, Escs, Tab
  <2>3. SUFFICES ASSUME NEW q \in ScreenKeys(s, z), NEW r \in ScreenKeys(s, z), NEW k \in q.keys,
                        k \in r.keys, q.when, r.when
                 PROVE  q = r
    BY DEF Apart
  <2>4. CASE q \in Globals
    <3>1. r \in Globals
      BY <1>2, <2>1, <2>2, <2>3, <2>4
    <3>2. QED
      BY <2>1, <2>3, <2>4, <3>1 DEF Apart
  <2>5. CASE q \in Escs
    <3>1. r \in Escs
      BY <1>2, <2>1, <2>2, <2>3, <2>5
    <3>2. QED
      BY <2>1, <2>3, <2>5, <3>1 DEF Apart
  <2>6. CASE q \in Tab
    <3>1. r \in Tab
      BY <1>2, <2>1, <2>2, <2>3, <2>6
    <3>2. QED
      BY <2>1, <2>3, <2>6, <3>1 DEF Apart
  <2>7. QED
    BY <2>2, <2>4, <2>5, <2>6
<1>4. QED
  BY <1>3, OverlayKeysApart, EditKeysApart, FilterKeysApart DEF Table

\* A row for the key that does something.
Working(rows, key) == \E r \in rows : key \in r.keys /\ r.when

LEMMA GlobalHintsWork ==
  ASSUME NEW key \in {"right", "?", "q"}
  PROVE  Working(GlobalKeys, key)
BY DEF GlobalKeys, Does, Row, Act, Working

OverviewHint(s, key) ==
  \/ key = "s" /\ Down(s)
  \/ key \in {"S", "R", "a"} /\ Up(s)
  \/ key = "r"

LEMMA OverviewHintsWork ==
  ASSUME NEW s, NEW key, OverviewHint(s, key)
  PROVE  Working(OverviewKeys(s), key)
BY DEF OverviewKeys, Does, Row, Act, Working, OverviewHint

LEMMA LogsHintsWork ==
  ASSUME NEW s, NEW key \in {"up", "pgup", "g", "f", "/"}
  PROVE  Working(LogsKeys(s), key)
BY DEF LogsKeys, Does, Row, Act, Working

LEMMA ConfigHintsWork ==
  ASSUME NEW s \in TuiState, s.rows > 0, CursorInRows(s), NEW key \in {"down", "return", "u"}
  PROVE  Working(ConfigKeys(s), key)
<1> DEFINE field == s.cursor + 1
<1>1. s.cursor \in Nat /\ s.rows \in Nat /\ s.rows <= Len(Fields)
  BY TuiStateFields
<1>2. field \in 1..Len(Fields) /\ field <= s.rows
  BY <1>1, ScreensAssumption DEF CursorInRows, ScreensAssumption
<1>3. Fields[field] \in {"flip", "text"}
  BY <1>2, ScreensAssumption DEF ScreensAssumption
<1> HIDE DEF field
<1>4. QED
  BY <1>2, <1>3 DEF ConfigKeys, Does, Row, Act, Working, field

LEMMA CommandsHintsWork ==
  ASSUME NEW s, NEW z, NEW key \in {"down", "return"}
  PROVE  Working(CommandsKeys(s, z), key)
BY DEF CommandsKeys, Does, Row, Act, Working

LEMMA EscHintWorks ==
  ASSUME NEW s, s.tab = "commands", s.open
  PROVE  Working(EscKeys(s), "esc")
BY DEF EscKeys, Does, Row, Act, Working

\* The keys a screen's own footer names, with what each depends on.
LEMMA HintsAre ==
  ASSUME NEW s \in TuiState, NEW key, key \in footerHints(s)
  PROVE  \/ key \in {"right", "?", "q"}
         \/ s.tab = "overview" /\ OverviewHint(s, key)
         \/ s.tab = "logs" /\ key \in {"up", "pgup", "g", "f", "/"}
         \/ s.tab = "config" /\ key \in {"down", "return", "u"}
         \/ s.tab = "doctor" /\ key = "r"
         \/ s.tab = "commands" /\ (key \in {"down", "return"} \/ (key = "esc" /\ s.open))
<1>1. PICK h \in Hints(s) \cup GlobalHints : h.when /\ h.key = key
  BY DEF footerHints
<1>2. CASE h \in GlobalHints
  BY <1>1, <1>2 DEF GlobalHints, Hint
<1>3. CASE h \in Hints(s)
  <2>1. s.tab \in {"overview", "logs", "config", "doctor", "commands"}
    BY TuiStateFields, TabsAreFive
  <2>2. CASE s.tab = "overview"
    <3> DEFINE start == Hint("s", Down(s))
               OfUp(k) == Hint(k, Up(s))
    <3>1. \/ h = start
          \/ h \in {OfUp("S"), OfUp("R"), OfUp("a")}
          \/ h = Hint("r", TRUE)
      BY <1>3, <2>2 DEF Hints
    <3>2. start.key = "s" /\ (start.when <=> Down(s)) /\ Hint("r", TRUE).key = "r"
      BY DEF Hint
    <3>3. ASSUME NEW k
          PROVE  OfUp(k).key = k /\ (OfUp(k).when <=> Up(s))
      BY DEF Hint
    <3> HIDE DEF start, OfUp
    <3>4. CASE h = start
      <4>1. key = "s" /\ Down(s)
        BY <1>1, <3>2, <3>4, Zenon
      <4>2. QED
        BY <2>2, <4>1 DEF OverviewHint
    <3>5. CASE h \in {OfUp("S"), OfUp("R"), OfUp("a")}
      <4>1. PICK k \in {"S", "R", "a"} : h = OfUp(k)
        BY <3>5
      <4>2. key = k /\ Up(s)
        BY <1>1, <3>3, <4>1, Zenon
      <4>3. QED
        BY <2>2, <4>1, <4>2 DEF OverviewHint
    <3>6. CASE h = Hint("r", TRUE)
      <4>1. key = "r"
        BY <1>1, <3>2, <3>6
      <4>2. QED
        BY <2>2, <4>1 DEF OverviewHint
    <3>7. QED
      BY <3>1, <3>4, <3>5, <3>6
  <2>3. CASE s.tab = "logs"
    BY <1>1, <1>3, <2>3 DEF Hints, Hint
  <2>4. CASE s.tab = "config"
    BY <1>1, <1>3, <2>4 DEF Hints, Hint
  <2>5. CASE s.tab = "doctor"
    BY <1>1, <1>3, <2>5 DEF Hints, Hint
  <2>6. CASE s.tab = "commands"
    <3> DEFINE esc == Hint("esc", s.open)
    <3>1. h = esc \/ h.key \in {"down", "return"}
      BY <1>3, <2>6 DEF Hints, Hint
    <3>2. esc.key = "esc" /\ (esc.when <=> s.open)
      BY DEF Hint
    <3> HIDE DEF esc
    <3>3. CASE h = esc
      <4>1. key = "esc" /\ s.open
        BY <1>1, <3>2, <3>3, Zenon
      <4>2. QED
        BY <2>6, <4>1
    <3>4. CASE h.key \in {"down", "return"}
      BY <1>1, <2>6, <3>4
    <3>5. QED
      BY <3>1, <3>3, <3>4
  <2>7. QED
    BY <2>1, <2>2, <2>3, <2>4, <2>5, <2>6
<1>4. QED
  BY <1>1, <1>2, <1>3

\* Where the screen has the keyboard and there is a configuration, every hint names a key
\* that does something.
LEMMA HintsAreAnswered ==
  ASSUME NEW s \in TuiState, NEW z, s.overlay = "none", Free(s), s.rows > 0, CursorInRows(s),
         NEW key \in footerHints(s)
  PROVE  Answers(key, s, z) # {}
<1>1. Table(s, z) = GlobalKeys \cup EscKeys(s) \cup TabKeys(s, z)
  BY DEF Table, ScreenKeys, Free
<1>2. SUFFICES Working(GlobalKeys, key) \/ Working(EscKeys(s), key) \/ Working(TabKeys(s, z), key)
  BY <1>1 DEF Answers, Working
<1>3. CASE key \in {"right", "?", "q"}
  BY <1>3, GlobalHintsWork
<1>4. CASE s.tab = "overview" /\ OverviewHint(s, key)
  BY <1>4, OverviewHintsWork DEF TabKeys
<1>5. CASE s.tab = "logs" /\ key \in {"up", "pgup", "g", "f", "/"}
  BY <1>5, LogsHintsWork DEF TabKeys
<1>6. CASE s.tab = "config" /\ key \in {"down", "return", "u"}
  BY <1>6, ConfigHintsWork DEF TabKeys
<1>7. CASE s.tab = "doctor" /\ key = "r"
  <2>1. TabKeys(s, z) = {Row({"r"}, TRUE, Nothing, "doctor")}
    BY <1>7 DEF TabKeys
  <2>2. QED
    BY <1>7, <2>1 DEF Row, Nothing, Act, Working
<1>8. CASE s.tab = "commands" /\ (key \in {"down", "return"} \/ (key = "esc" /\ s.open))
  BY <1>8, CommandsHintsWork, EscHintWorks DEF TabKeys
<1>9. QED
  BY <1>3, <1>4, <1>5, <1>6, <1>7, <1>8, HintsAre

\* "a test proves every hint in the table does something": proved of every state of the screens
\* a person can bring about and every size of the terminal; and that no key means two things.
THEOREM EveryHintWorks == Spec => []HintsWork
<1>1. IInv => HintsWork
  <2>1. SUFFICES ASSUME IInv
                 PROVE  HintsWork
    OBVIOUS
  <2>2. state \in TuiState /\ CursorInRows(state)
    BY <2>1 DEF IInv, TypeOK, ScreenInv
  <2>3. ASSUME state.overlay = "none", state.editing = 0, ~state.filtering, state.rows > 0,
               NEW key \in footerHints(state)
        PROVE  Answers(key, state, size) # {}
    BY <2>2, <2>3, HintsAreAnswered DEF Free
  <2>4. ASSUME NEW q \in handleKey(state, size), NEW r \in handleKey(state, size), q # r
        PROVE  q.keys \cap r.keys = {}
    <3>1. q \in Table(state, size) /\ r \in Table(state, size) /\ q.when /\ r.when
      BY DEF handleKey
    <3>2. Apart(Table(state, size))
      BY <2>2, TablesApart
    <3>3. QED
      BY <2>4, <3>1, <3>2 DEF Apart
  <2>5. QED
    BY <2>3, <2>4 DEF HintsWork
<1>2. QED
  BY <1>1, ScreensInductive, PTL

-----------------------------------------------------------------------------
(* The global flags. What the fold of splitGlobalFlags computes is shown   *)
(* by induction over the words, which is taken from the least natural of a *)
(* set that has one.                                                       *)

\* A set of naturals that is not empty has a least element.
LEMMA LeastNatural ==
  ASSUME NEW T \in SUBSET Nat, T # {}
  PROVE  \E m \in T : \A n \in T : m <= n
<1> DEFINE R == OpToRel(<, Nat)
<1>1. IsWellFoundedOn(R, Nat)
  BY NatLessThanWellFounded, Zenon
<1>2. \A x, y \in Nat : <<y, x>> \in R <=> y < x
  BY DEF OpToRel
<1> HIDE DEF R
<1>3. PICK x \in T : \A y \in T : ~ (<<y, x>> \in R)
  BY <1>1, WFMin, Zenon
<1>4. \A y \in T : ~ (y < x)
  BY <1>2, <1>3
<1>5. QED
  BY <1>4

\* Induction, over the set where something holds.
LEMMA Induction ==
  ASSUME NEW T \in SUBSET Nat, 0 \in T, \A n \in T : n + 1 \in T
  PROVE  T = Nat
<1> SUFFICES ASSUME Nat \ T # {} PROVE FALSE
  OBVIOUS
<1>1. PICK m \in Nat \ T : \A n \in Nat \ T : m <= n
  BY LeastNatural
<1>2. m # 0 /\ m - 1 \in Nat
  BY <1>1
<1>3. m - 1 \in T
  BY <1>1, <1>2
<1>4. m \in T
  BY <1>2, <1>3
<1>5. QED
  BY <1>1, <1>4

\* The two folds over the words of a line: of splitGlobalFlags and, parsing, of parseInvocation
\* for a command. What they start from, and what a word does.
Start == Split("word", {}, <<>>)
Unparsed == [at |-> "word", option |-> "none", values |-> <<>>, words |-> 0]
Base(parsing) == IF parsing THEN Unparsed ELSE Start
Then(parsing, c, v, w) == IF parsing THEN Word(c, v, w) ELSE NextWord(v, w)

\* The function that a fold is defined by, over the sets of the line's positions.
FoldOf(F, parsing, c, s, P) ==
  F = [S \in SUBSET P |->
         IF S = {} THEN Base(parsing) ELSE Then(parsing, c, F[S \ {Max(S)}], s[Max(S)])]

LEMMA MaxOfRange == ASSUME NEW k \in Nat, k > 0 PROVE Max(1..k) = k
BY DEF Max

LEMMA SetMax == ASSUME NEW n \in Nat, NEW S \in SUBSET (1..(n + 1)), n + 1 \in S PROVE Max(S) = n + 1
<1>1. \A y \in S : n + 1 >= y
  OBVIOUS
<1>2. \A x \in S : (\A y \in S : x >= y) => x = n + 1
  OBVIOUS
<1>3. Max(S) \in S /\ \A y \in S : Max(S) >= y
  BY <1>1 DEF Max
<1>4. QED
  BY <1>2, <1>3

\* It exists for every number of positions.
LEMMA FoldExtends ==
  ASSUME NEW n \in Nat, NEW parsing, NEW c, NEW s, NEW F, FoldOf(F, parsing, c, s, 1..n)
  PROVE  \E G : FoldOf(G, parsing, c, s, 1..(n + 1))
<1> DEFINE G == [S \in SUBSET (1..(n + 1)) |->
                   IF n + 1 \in S THEN Then(parsing, c, F[S \ {n + 1}], s[n + 1]) ELSE F[S]]
           E(S) == IF S = {} THEN Base(parsing) ELSE Then(parsing, c, G[S \ {Max(S)}], s[Max(S)])
<1>1. ASSUME NEW S \in SUBSET (1..(n + 1)), n + 1 \in S
      PROVE  G[S] = E(S)
  <2>1. Max(S) = n + 1
    BY <1>1, SetMax
  <2>2. S \ {n + 1} \in SUBSET (1..n)
    BY <1>1
  <2>3. G[S \ {n + 1}] = F[S \ {n + 1}]
    BY <2>2
  <2>4. QED
    BY <1>1, <2>1, <2>3
<1>2. ASSUME NEW S \in SUBSET (1..(n + 1)), n + 1 \notin S
      PROVE  G[S] = E(S)
  <2>1. S \in SUBSET (1..n)
    BY <1>2
  <2>2. G[S \ {Max(S)}] = F[S \ {Max(S)}]
    <3> DEFINE m == Max(S)
    <3> HIDE DEF m
    <3>1. S \ {m} \in SUBSET (1..(n + 1)) /\ n + 1 \notin S \ {m}
      BY <1>2
    <3>2. G[S \ {m}] = F[S \ {m}]
      BY <3>1
    <3>3. QED
      BY <3>2 DEF m
  <2>3. F[S] = IF S = {} THEN Base(parsing) ELSE Then(parsing, c, F[S \ {Max(S)}], s[Max(S)])
    BY <2>1 DEF FoldOf
  <2>4. G[S] = F[S]
    BY <1>2
  <2>5. QED
    BY <2>2, <2>3, <2>4
<1>3. G = [S \in SUBSET (1..(n + 1)) |-> E(S)]
  <2> HIDE DEF E
  <2>1. \A S \in SUBSET (1..(n + 1)) : G[S] = E(S)
    BY <1>1, <1>2
  <2>2. QED
    BY <2>1
<1>4. QED
  BY <1>3 DEF FoldOf

LEMMA FoldExists ==
  ASSUME NEW parsing, NEW c, NEW s
  PROVE  \A n \in Nat : \E F : FoldOf(F, parsing, c, s, 1..n)
<1> DEFINE T == {n \in Nat : \E F : FoldOf(F, parsing, c, s, 1..n)}
<1>1. 0 \in T
  <2>1. FoldOf([S \in SUBSET (1..0) |-> Base(parsing)], parsing, c, s, 1..0)
    BY DEF FoldOf
  <2>2. QED
    BY <2>1
<1>2. \A n \in T : n + 1 \in T
  BY FoldExtends
<1>3. T = Nat
  <2> HIDE DEF T
  <2>1. T \in SUBSET Nat
    BY DEF T
  <2>2. QED
    BY <1>1, <1>2, <2>1, Induction
<1>4. QED
  BY <1>3

\* The states that the words of a line go through.
Through(f, parsing, c, s) ==
  /\ f[0] = Base(parsing)
  /\ \A n \in 1..Len(s) : f[n] = Then(parsing, c, f[n - 1], s[n])
States(f, s) ==
  /\ f[0] = Start
  /\ \A n \in 1..Len(s) : f[n] = NextWord(f[n - 1], s[n])

LEMMA StatesOfFold ==
  ASSUME NEW parsing, NEW c, NEW W, NEW s \in Seq(W), NEW F, FoldOf(F, parsing, c, s, DOMAIN s)
  PROVE  \E f : Through(f, parsing, c, s) /\ F[DOMAIN s] = f[Len(s)]
<1>1. DOMAIN s = 1..Len(s) /\ Len(s) \in Nat
  OBVIOUS
<1> DEFINE f == [n \in 0..Len(s) |-> F[1..n]]
<1>2. f[0] = Base(parsing)
  BY <1>1 DEF FoldOf
<1>3. ASSUME NEW n \in 1..Len(s) PROVE f[n] = Then(parsing, c, f[n - 1], s[n])
  <2>1. Max(1..n) = n
    BY MaxOfRange, <1>1
  <2>2. (1..n) \ {n} = 1..(n - 1)
    BY <1>1
  <2>3. n \in Nat /\ 1..n \in SUBSET (DOMAIN s) /\ 1..n # {}
    <3>1. n \in Nat /\ n >= 1 /\ n <= Len(s)
      BY <1>1
    <3>2. \A m \in 1..n : m \in 1..Len(s)
      BY <1>1, <3>1
    <3>3. 1 \in 1..n
      BY <3>1
    <3>4. QED
      BY <1>1, <3>1, <3>2, <3>3
  <2>4. F[1..n] = Then(parsing, c, F[(1..n) \ {Max(1..n)}], s[Max(1..n)])
    BY <2>3 DEF FoldOf
  <2>5. n - 1 \in 0..Len(s) /\ n \in 0..Len(s)
    BY <1>1
  <2>6. QED
    BY <2>1, <2>2, <2>4, <2>5
<1>4. F[DOMAIN s] = f[Len(s)]
  BY <1>1
<1>5. QED
  BY <1>2, <1>3, <1>4 DEF Through

\* The flags of a line are those of its last state.
LEMMA StatesOfLine ==
  ASSUME NEW W, NEW s \in Seq(W)
  PROVE  \E f : States(f, s) /\ splitGlobalFlags(s) = f[Len(s)]
<1>1. DOMAIN s = 1..Len(s) /\ Len(s) \in Nat
  OBVIOUS
<1> DEFINE Is(F) ==
             F = [S \in SUBSET DOMAIN s |-> IF S = {} THEN Start ELSE NextWord(F[S \ {Max(S)}], s[Max(S)])]
<1>2. \E F : Is(F)
  <2>1. PICK F : FoldOf(F, FALSE, 0, s, DOMAIN s)
    BY <1>1, FoldExists
  <2>2. Is(F)
    BY <2>1 DEF FoldOf, Base, Then
  <2>3. QED
    BY <2>2
<1>3. PICK F : FoldOf(F, FALSE, 0, s, DOMAIN s) /\ FoldLeft(NextWord, Start, s) = F[DOMAIN s]
  <2>1. PICK F : Is(F) /\ FoldLeft(NextWord, Start, s) = F[DOMAIN s]
    BY <1>2 DEF FoldLeft, MapThenFoldSet
  <2>2. FoldOf(F, FALSE, 0, s, DOMAIN s)
    BY <2>1 DEF FoldOf, Base, Then
  <2>3. QED
    BY <2>1, <2>2
<1>4. PICK f : Through(f, FALSE, 0, s) /\ F[DOMAIN s] = f[Len(s)]
  BY <1>3, StatesOfFold
<1>5. States(f, s)
  BY <1>4 DEF Through, States, Base, Then
<1>6. QED
  BY <1>3, <1>4, <1>5 DEF splitGlobalFlags, Start

\* And so are the options and arguments of a command.
LEMMA StatesOfArguments ==
  ASSUME NEW c, NEW W, NEW s \in Seq(W)
  PROVE  \E f : Through(f, TRUE, c, s) /\ parseInvocation(c, s) = f[Len(s)]
<1>1. DOMAIN s = 1..Len(s) /\ Len(s) \in Nat
  OBVIOUS
<1> DEFINE Is(F) ==
             F = [S \in SUBSET DOMAIN s |->
                    IF S = {} THEN Unparsed ELSE Word(c, F[S \ {Max(S)}], s[Max(S)])]
<1>2. \E F : Is(F)
  <2>1. PICK F : FoldOf(F, TRUE, c, s, DOMAIN s)
    BY <1>1, FoldExists
  <2>2. Is(F)
    BY <2>1 DEF FoldOf, Base, Then
  <2>3. QED
    BY <2>2
<1>3. PICK F : /\ FoldOf(F, TRUE, c, s, DOMAIN s)
               /\ FoldLeft(LAMBDA v, w : Word(c, v, w), Unparsed, s) = F[DOMAIN s]
  <2>1. PICK F : Is(F) /\ FoldLeft(LAMBDA v, w : Word(c, v, w), Unparsed, s) = F[DOMAIN s]
    BY <1>2 DEF FoldLeft, MapThenFoldSet
  <2>2. FoldOf(F, TRUE, c, s, DOMAIN s)
    BY <2>1 DEF FoldOf, Base, Then
  <2>3. QED
    BY <2>1, <2>2
<1>4. PICK f : Through(f, TRUE, c, s) /\ F[DOMAIN s] = f[Len(s)]
  BY <1>3, StatesOfFold
<1>5. QED
  BY <1>3, <1>4 DEF parseInvocation, Unparsed

\* Induction, up to a number.
LEMMA InductionUpTo ==
  ASSUME NEW N \in Nat, NEW T \in SUBSET (0..N), 0 \in T, \A n \in T : n < N => n + 1 \in T
  PROVE  T = 0..N
<1> DEFINE U == T \cup {n \in Nat : n > N}
<1>1. U \in SUBSET Nat /\ 0 \in U
  <2>1. \A n \in 0..N : n \in Nat
    OBVIOUS
  <2>2. T \in SUBSET Nat
    BY <2>1
  <2>3. QED
    BY <2>2
<1>2. \A n \in U : n + 1 \in U
  OBVIOUS
<1>3. U = Nat
  <2> HIDE DEF U
  <2>1. QED
    BY <1>1, <1>2, Induction
<1>4. \A n \in 0..N : n \in Nat /\ ~ (n > N)
  OBVIOUS
<1>5. \A n \in 0..N : n \in T
  BY <1>3, <1>4
<1>6. QED
  BY <1>5

\* A state with -q said as well.
Quietly(x) == Split(x.at, x.globals \cup {"quiet"}, x.rest)

LEMMA QuietIsAGlobalFlag == "-q" \in DOMAIN Booleans /\ Booleans["-q"] = "quiet"
BY DEF Booleans

LEMMA QuietWord == ASSUME NEW x, x.at = "word" PROVE NextWord(x, "-q") = Quietly(x)
BY QuietIsAGlobalFlag DEF NextWord, GlobalFlag, Split, Quietly

LEMMA NextWordQuietly ==
  ASSUME NEW x, NEW w
  PROVE  NextWord(Quietly(x), w) = Quietly(NextWord(x, w))
<1> DEFINE y == Quietly(x)
<1>1. y.at = x.at /\ y.globals = x.globals \cup {"quiet"} /\ y.rest = x.rest
  BY DEF Quietly, Split
<1> HIDE DEF y
<1>2. CASE x.at = "word"
  <2>1. NextWord(y, w) = GlobalFlag(y, w) /\ NextWord(x, w) = GlobalFlag(x, w)
    BY <1>1, <1>2 DEF NextWord
  <2>2. CASE w = "--"
    <3>1. GlobalFlag(y, w) = Quietly(GlobalFlag(x, w))
      BY <2>2, <1>1 DEF GlobalFlag, Quietly, Split
    <3>2. QED
      BY <2>1, <3>1 DEF y
  <2>3. CASE w = "--data-folder"
    <3>1. GlobalFlag(y, w) = Quietly(GlobalFlag(x, w))
      BY <2>3, <1>1 DEF GlobalFlag, Quietly, Split
    <3>2. QED
      BY <2>1, <3>1 DEF y
  <2>4. CASE w \notin {"--", "--data-folder", "--data-folder=", "--data-folder=path"} /\ w \in DOMAIN Booleans
    <3>1. GlobalFlag(y, w) = Split("word", x.globals \cup {Booleans[w], "quiet"}, x.rest)
      BY <2>4, <1>1 DEF GlobalFlag
    <3>2. GlobalFlag(x, w) = Split("word", x.globals \cup {Booleans[w]}, x.rest)
      BY <2>4 DEF GlobalFlag
    <3>3. Quietly(GlobalFlag(x, w)) = Split("word", x.globals \cup {Booleans[w], "quiet"}, x.rest)
      BY <3>2 DEF Quietly, Split
    <3>4. QED
      BY <2>1, <3>1, <3>3 DEF y
  <2>5. CASE w \notin {"--", "--data-folder", "--data-folder=", "--data-folder=path"} /\ w \notin DOMAIN Booleans
    <3>1. GlobalFlag(y, w) = Quietly(GlobalFlag(x, w))
      BY <2>5, <1>1 DEF GlobalFlag, Quietly, Split
    <3>2. QED
      BY <2>1, <3>1 DEF y
  <2>6. CASE w \in {"--data-folder=", "--data-folder=path"}
    <3>1. GlobalFlag(y, w) = Quietly(GlobalFlag(x, w))
      BY <2>6, <1>1 DEF GlobalFlag, Quietly, Split
    <3>2. QED
      BY <2>1, <3>1 DEF y
  <2>7. QED
    BY <2>2, <2>3, <2>4, <2>5, <2>6
<1>3. CASE x.at # "word"
  BY <1>1, <1>3 DEF NextWord, Quietly, Split, y
<1>4. QED
  BY <1>2, <1>3

\* What a state says of the words before it.
Sane(f, s, n) ==
  /\ f[n].at \in {"word", "path", "verbatim", "error"}
  /\ f[n].at = "path" => n > 0 /\ s[n] = "--data-folder"
  /\ (f[n].at \in {"verbatim", "error"}) \/ \A m \in 1..n : s[m] # "--"
  /\ f[n].at = "verbatim" => \E m \in 1..n : s[m] = "--"

LEMMA DashesAreDashed == Dashed("--")
<1>1. "--" \in {"--", "--data-folder", "--unknown"}
  OBVIOUS
<1>2. QED
  BY <1>1 DEF Dashed, Dashes

LEMMA StatesAreSane ==
  ASSUME NEW W, NEW s \in Seq(W), NEW f, States(f, s)
  PROVE  \A n \in 0..Len(s) : Sane(f, s, n)
<1> DEFINE T == {n \in 0..Len(s) : Sane(f, s, n)}
<1>1. 0 \in T
  BY DEF Sane, States, Start, Split
<1>2. ASSUME NEW n \in T, n < Len(s)
      PROVE  n + 1 \in T
  <2> DEFINE x == f[n]
             w == s[n + 1]
             z == f[n + 1]
  <2>1. z = NextWord(x, w) /\ n + 1 \in 1..Len(s) /\ n \in Nat
    BY <1>2 DEF States
  <2>2. Sane(f, s, n)
    OBVIOUS
  <2>3. /\ z.at \in {"word", "path", "verbatim", "error"}
        /\ z.at = "path" => w = "--data-folder"
        /\ w = "--" => z.at \in {"verbatim", "error"}
        /\ x.at \in {"verbatim", "error"} => z.at \in {"verbatim", "error"}
        /\ z.at = "verbatim" => x.at = "verbatim" \/ w = "--"
    <3> HIDE DEF x, w, z
    <3>1. x.at \in {"word", "path", "verbatim", "error"}
      BY <2>2 DEF Sane, x
    <3>2. QED
      BY <2>1, <3>1, DashesAreDashed DEF NextWord, GlobalFlag, Split
  <2>4. z.at = "path" => n + 1 > 0 /\ s[n + 1] = "--data-folder"
    BY <2>1, <2>3
  <2>5. (z.at \in {"verbatim", "error"}) \/ \A m \in 1..(n + 1) : s[m] # "--"
    <3>1. \A m \in 1..(n + 1) : m \in 1..n \/ m = n + 1
      BY <2>1
    <3>2. QED
      BY <2>2, <2>3, <3>1 DEF Sane
  <2>6. z.at = "verbatim" => \E m \in 1..(n + 1) : s[m] = "--"
    <3>1. \A m \in 1..n : m \in 1..(n + 1)
      BY <2>1
    <3>2. n + 1 \in 1..(n + 1)
      BY <2>1
    <3>3. QED
      BY <2>2, <2>3, <3>1, <3>2 DEF Sane
  <2>7. n + 1 \in 0..Len(s)
    BY <2>1
  <2>8. QED
    BY <2>3, <2>4, <2>5, <2>6, <2>7 DEF Sane
<1>3. Len(s) \in Nat
  OBVIOUS
<1>4. T = 0..Len(s)
  <2>1. T \in SUBSET (0..Len(s))
    OBVIOUS
  <2> HIDE DEF T
  <2>2. QED
    BY <1>1, <1>2, <1>3, <2>1, InductionUpTo
<1>5. QED
  BY <1>4

\* A word put in at a position of a line.
LEMMA Inserted ==
  ASSUME NEW W, NEW s \in Seq(W), NEW i \in 1..(Len(s) + 1), NEW w \in W
  PROVE  LET t == InsertAt(s, i, w) IN
         /\ t \in Seq(W) /\ Len(t) = Len(s) + 1
         /\ \A n \in 1..(i - 1) : t[n] = s[n]
         /\ t[i] = w
         /\ \A n \in i..Len(s) : t[n + 1] = s[n]
<1> DEFINE a == SubSeq(s, 1, i - 1)
           b == SubSeq(s, i, Len(s))
           t == a \o <<w>> \o b
<1>1. a \in Seq(W) /\ Len(a) = i - 1 /\ \A n \in 1..(i - 1) : a[n] = s[n]
  OBVIOUS
<1>2. b \in Seq(W) /\ Len(b) = Len(s) + 1 - i /\ \A n \in 1..(Len(s) + 1 - i) : b[n] = s[i + n - 1]
  OBVIOUS
<1> DEFINE c == a \o <<w>>
<1> HIDE DEF a, b
<1>3. /\ c \in Seq(W) /\ Len(c) = i /\ c[i] = w
      /\ \A n \in 1..(i - 1) : c[n] = a[n]
  <2>1. <<w>> \in Seq(W) /\ Len(<<w>>) = 1 /\ <<w>>[1] = w
    OBVIOUS
  <2>2. c \in Seq(W) /\ Len(c) = i
    BY <1>1, <2>1, ConcatProperties
  <2>3. c[i] = w
    BY <1>1, <2>1, ConcatProperties
  <2>4. \A n \in 1..(i - 1) : c[n] = a[n]
    BY <1>1, <2>1, ConcatProperties
  <2>5. QED
    BY <2>2, <2>3, <2>4
<1> HIDE DEF c
<1> DEFINE d == c \o b
<1> HIDE DEF d
<1>4. b \in Seq(W) /\ c \in Seq(W) /\ Len(c) = i /\ Len(b) = Len(s) + 1 - i
  BY <1>2, <1>3
<1>5. /\ d \in Seq(W) /\ Len(d) = Len(c) + Len(b)
      /\ \A n \in 1..(Len(c) + Len(b)) : d[n] = IF n <= Len(c) THEN c[n] ELSE b[n - Len(c)]
  BY <1>4, ConcatProperties DEF d
<1>6. d \in Seq(W) /\ Len(d) = Len(s) + 1
  BY <1>4, <1>5
<1>7. ASSUME NEW n \in 1..i PROVE d[n] = c[n]
  <2>1. n \in 1..(Len(c) + Len(b)) /\ n <= Len(c)
    BY <1>4
  <2>2. QED
    BY <1>5, <2>1
<1>8. ASSUME NEW n \in i..Len(s) PROVE d[n + 1] = s[n]
  <2>1. /\ n + 1 \in 1..(Len(c) + Len(b)) /\ ~ (n + 1 <= Len(c))
        /\ (n + 1) - Len(c) = n + 1 - i
        /\ n + 1 - i \in 1..(Len(s) + 1 - i) /\ i + (n + 1 - i) - 1 = n
    BY <1>4
  <2>2. d[n + 1] = b[n + 1 - i]
    BY <1>5, <2>1
  <2>3. b[n + 1 - i] = s[i + (n + 1 - i) - 1]
    BY <1>2, <2>1
  <2>4. QED
    BY <2>1, <2>2, <2>3
<1>9. i \in 1..i /\ \A n \in 1..(i - 1) : n \in 1..i
  OBVIOUS
<1>10. d = InsertAt(s, i, w)
  BY DEF InsertAt, a, b, c, d
<1>11. QED
  BY <1>1, <1>3, <1>6, <1>7, <1>8, <1>9, <1>10

\* The states of the line and of the line with the word put in, up to it and after it.
LEMMA SameBefore ==
  ASSUME NEW W, NEW s \in Seq(W), NEW t \in Seq(W), NEW f, NEW g, States(f, s), States(g, t),
         NEW k \in Nat, k <= Len(s), k <= Len(t), \A n \in 1..k : t[n] = s[n]
  PROVE  \A n \in 0..k : g[n] = f[n]
<1> DEFINE T == {n \in 0..k : g[n] = f[n]}
<1>1. 0 \in T
  BY DEF States
<1>2. ASSUME NEW n \in T, n < k
      PROVE  n + 1 \in T
  <2>1. n + 1 \in 1..k /\ n + 1 \in 1..Len(s) /\ n + 1 \in 1..Len(t) /\ (n + 1) - 1 = n
    BY <1>2
  <2>2. g[n + 1] = NextWord(g[n], t[n + 1]) /\ f[n + 1] = NextWord(f[n], s[n + 1])
    BY <2>1 DEF States
  <2>3. QED
    BY <2>1, <2>2
<1>3. T \in SUBSET (0..k)
  OBVIOUS
<1>4. T = 0..k
  <2> HIDE DEF T
  <2>1. QED
    BY <1>1, <1>2, <1>3, InductionUpTo
<1>5. QED
  BY <1>4

\* After -q is put in where a word is due, the states are the same but for being quiet.
LEMMA QuietAfter ==
  ASSUME NEW W, NEW s \in Seq(W), NEW t \in Seq(W), NEW f, NEW g, States(f, s), States(g, t),
         NEW k \in 0..Len(s), Len(t) = Len(s) + 1, \A n \in 1..k : t[n] = s[n], t[k + 1] = "-q",
         \A n \in (k + 1)..Len(s) : t[n + 1] = s[n], f[k].at = "word"
  PROVE  g[Len(t)] = Quietly(f[Len(s)])
<1> DEFINE N == Len(s) - k
           T == {n \in 0..N : g[k + n + 1] = Quietly(f[k + n])}
<1>1. k \in Nat /\ Len(s) \in Nat /\ k <= Len(s) /\ k <= Len(t) /\ Len(t) \in Nat /\ N \in Nat
  OBVIOUS
<1>2. 0 \in T
  <2>1. g[k] = f[k]
    <3>1. \A n \in 0..k : g[n] = f[n]
      BY <1>1, SameBefore
    <3>2. QED
      BY <1>1, <3>1
  <2>2. g[k + 1] = NextWord(g[k], t[k + 1])
    <3>1. k + 1 \in 1..Len(t) /\ (k + 1) - 1 = k
      BY <1>1
    <3>2. QED
      BY <3>1 DEF States
  <2>3. g[k + 1] = Quietly(f[k])
    BY <2>1, <2>2, QuietWord
  <2>4. k + 0 + 1 = k + 1 /\ k + 0 = k /\ 0 \in 0..N
    BY <1>1
  <2>5. QED
    BY <2>3, <2>4
<1>3. ASSUME NEW n \in T, n < N
      PROVE  n + 1 \in T
  <2> DEFINE m == k + n + 1
  <2>1. /\ n \in 0..N /\ n + 1 \in 0..N /\ m \in (k + 1)..Len(s) /\ m \in 1..Len(s)
        /\ m + 1 \in 1..Len(t) /\ (m + 1) - 1 = m /\ m - 1 = k + n
        /\ k + (n + 1) + 1 = m + 1 /\ k + (n + 1) = m
    BY <1>1, <1>3
  <2>2. g[m] = Quietly(f[k + n])
    OBVIOUS
  <2> HIDE DEF m
  <2>3. g[m + 1] = NextWord(g[m], t[m + 1])
    BY <2>1 DEF States
  <2>4. f[m] = NextWord(f[k + n], s[m])
    BY <2>1 DEF States
  <2>5. t[m + 1] = s[m]
    BY <2>1
  <2>6. g[m + 1] = Quietly(f[m])
    BY <2>2, <2>3, <2>4, <2>5, NextWordQuietly
  <2>7. QED
    BY <2>1, <2>6
<1>4. T \in SUBSET (0..N)
  OBVIOUS
<1>5. T = 0..N
  <2> HIDE DEF T, N
  <2>1. QED
    BY <1>1, <1>2, <1>3, <1>4, InductionUpTo
<1>6. N \in T
  <2> HIDE DEF T, N
  <2>1. QED
    BY <1>1, <1>5
<1>7. k + N + 1 = Len(t) /\ k + N = Len(s)
  BY <1>1
<1>8. QED
  BY <1>6, <1>7

\* After a `--` and after an error, no word changes a flag.
LEMMA NothingAfter ==
  ASSUME NEW W, NEW s \in Seq(W), NEW f, States(f, s), NEW k \in 0..Len(s),
         f[k].at \in {"verbatim", "error"}
  PROVE  f[Len(s)].at = f[k].at /\ f[Len(s)].globals = f[k].globals
<1> DEFINE T == {n \in 0..(Len(s) - k) : f[k + n].at = f[k].at /\ f[k + n].globals = f[k].globals}
<1>1. 0 \in T /\ Len(s) - k \in Nat
  OBVIOUS
<1>2. ASSUME NEW n \in T, n < Len(s) - k
      PROVE  n + 1 \in T
  <2> DEFINE m == k + n + 1
  <2>1. /\ m \in 1..Len(s) /\ m - 1 = k + n /\ k + (n + 1) = m /\ n + 1 \in 0..(Len(s) - k)
    BY <1>2
  <2>2. f[k + n].at = f[k].at /\ f[k + n].globals = f[k].globals
    OBVIOUS
  <2> HIDE DEF m
  <2>3. f[m] = NextWord(f[k + n], s[m])
    BY <2>1 DEF States
  <2>4. f[m].at = f[k].at /\ f[m].globals = f[k].globals
    BY <2>2, <2>3 DEF NextWord, Split
  <2>5. QED
    BY <2>1, <2>4
<1>3. T \in SUBSET (0..(Len(s) - k))
  OBVIOUS
<1>4. T = 0..(Len(s) - k)
  <2> HIDE DEF T
  <2>1. QED
    BY <1>1, <1>2, <1>3, InductionUpTo
<1>5. Len(s) - k \in T /\ k + (Len(s) - k) = Len(s)
  BY <1>1, <1>4
<1>6. QED
  BY <1>5

\* Where a path is due, nothing is put in: what -q does to a line's flags.
LEMMA QuietSplit ==
  ASSUME NEW W, NEW s \in Seq(W), "-q" \in W, NEW k \in 0..Len(s), k = 0 \/ s[k] # "--data-folder"
  PROVE  LET t == splitGlobalFlags(InsertAt(s, k + 1, "-q"))
             u == splitGlobalFlags(s)
         IN IF "--" \in ToSet(SubSeq(s, 1, k)) THEN t.globals = u.globals
            ELSE t = Quietly(u) \/ (t.at = "error" /\ u.at = "error")
<1> DEFINE q == InsertAt(s, k + 1, "-q")
<1>1. /\ q \in Seq(W) /\ Len(q) = Len(s) + 1
      /\ \A n \in 1..k : q[n] = s[n]
      /\ q[k + 1] = "-q"
      /\ \A n \in (k + 1)..Len(s) : q[n + 1] = s[n]
  <2>1. k + 1 \in 1..(Len(s) + 1) /\ (k + 1) - 1 = k
    OBVIOUS
  <2> DEFINE i == k + 1
  <2> HIDE DEF i
  <2>2. i \in 1..(Len(s) + 1)
    BY <2>1 DEF i
  <2>3. LET p == InsertAt(s, i, "-q") IN
        /\ p \in Seq(W) /\ Len(p) = Len(s) + 1
        /\ \A n \in 1..(i - 1) : p[n] = s[n]
        /\ p[i] = "-q"
        /\ \A n \in i..Len(s) : p[n + 1] = s[n]
    BY <2>2, Inserted
  <2>4. QED
    BY <2>1, <2>3 DEF i
<1> HIDE DEF q
<1>2. PICK f : States(f, s) /\ splitGlobalFlags(s) = f[Len(s)]
  BY StatesOfLine
<1>3. PICK g : States(g, q) /\ splitGlobalFlags(q) = g[Len(q)]
  BY <1>1, StatesOfLine
<1>4. k \in Nat /\ k <= Len(s) /\ k <= Len(q) /\ Len(s) \in Nat /\ k \in 0..Len(q) /\ Len(q) \in Nat
  BY <1>1
<1>5. g[k] = f[k]
  BY <1>1, <1>2, <1>3, <1>4, SameBefore
<1>6. Sane(f, s, k)
  BY <1>2, StatesAreSane
<1>7. "--" \in ToSet(SubSeq(s, 1, k)) <=> \E m \in 1..k : s[m] = "--"
  <2>1. DOMAIN SubSeq(s, 1, k) = 1..k /\ \A m \in 1..k : SubSeq(s, 1, k)[m] = s[m]
    BY <1>4
  <2>2. QED
    BY <2>1 DEF ToSet
<1>8. CASE f[k].at = "word"
  <2>1. ~ \E m \in 1..k : s[m] = "--"
    BY <1>6, <1>8 DEF Sane
  <2>2. g[Len(q)] = Quietly(f[Len(s)])
    BY <1>1, <1>2, <1>3, <1>4, <1>8, QuietAfter
  <2>3. QED
    BY <1>2, <1>3, <1>7, <2>1, <2>2 DEF q
<1>9. CASE f[k].at = "verbatim"
  <2>1. \E m \in 1..k : s[m] = "--"
    BY <1>6, <1>9 DEF Sane
  <2>2. f[Len(s)].globals = f[k].globals /\ g[Len(q)].globals = g[k].globals
    BY <1>1, <1>2, <1>3, <1>4, <1>5, <1>9, NothingAfter
  <2>3. QED
    BY <1>2, <1>3, <1>5, <1>7, <2>1, <2>2 DEF q
<1>10. CASE f[k].at = "error"
  <2>1. /\ f[Len(s)].globals = f[k].globals /\ g[Len(q)].globals = g[k].globals
        /\ f[Len(s)].at = "error" /\ g[Len(q)].at = "error"
    BY <1>1, <1>2, <1>3, <1>4, <1>5, <1>10, NothingAfter
  <2>2. QED
    BY <1>2, <1>3, <1>5, <2>1 DEF q
<1>11. f[k].at \in {"word", "verbatim", "error"}
  BY <1>4, <1>6 DEF Sane
<1>12. QED
  BY <1>8, <1>9, <1>10, <1>11

-----------------------------------------------------------------------------
\* What a line does is decided by the words left of it and by flags other than -q.
SameButQuiet(o, p) == o.does = p.does /\ o.path = p.path /\ o.code = p.code

LEMMA QuietRun ==
  ASSUME NEW c, NEW values, NEW globals, NEW tty
  PROVE  /\ SameButQuiet(Run(c, values, globals \cup {"quiet"}, tty), Run(c, values, globals, tty))
         /\ Run(c, values, globals \cup {"quiet"}, tty).globals = globals \cup {"quiet"}
         /\ Run(c, values, globals, tty).globals = globals
<1> DEFINE more == globals \cup {"quiet"}
<1>1. "json" \in more <=> "json" \in globals
  OBVIOUS
<1> HIDE DEF more
<1>2. CASE c.kind = "stub" \/ Unfinished(c.path, values)
  BY <1>2 DEF Run, Outcome, SameButQuiet, more
<1>3. CASE ~(c.kind = "stub" \/ Unfinished(c.path, values)) /\ c.path # <<"tui">>
  BY <1>3 DEF Run, Outcome, SameButQuiet, more
<1>4. CASE /\ ~(c.kind = "stub" \/ Unfinished(c.path, values)) /\ c.path = <<"tui">>
           /\ screenOf(values) \notin SCREENS \/ tty = "none" \/ "json" \in globals
  BY <1>1, <1>4 DEF Run, Outcome, SameButQuiet, more
<1>5. CASE /\ ~(c.kind = "stub" \/ Unfinished(c.path, values)) /\ c.path = <<"tui">>
           /\ ~(screenOf(values) \notin SCREENS \/ tty = "none" \/ "json" \in globals)
  <2>1. /\ Run(c, values, globals, tty) = Opens(screenOf(values), c.path, globals)
        /\ Run(c, values, more, tty) = Opens(screenOf(values), c.path, more)
    BY <1>1, <1>5 DEF Run
  <2>2. \A g : /\ Opens(screenOf(values), c.path, g).does = "ui"
               /\ Opens(screenOf(values), c.path, g).path = c.path
               /\ Opens(screenOf(values), c.path, g).code = 0
               /\ Opens(screenOf(values), c.path, g).globals = g
    BY DEF Opens, Outcome
  <2>3. QED
    BY <2>1, <2>2 DEF SameButQuiet, more
<1>6. QED
  BY <1>2, <1>3, <1>4, <1>5

LEMMA QuietOutcome ==
  ASSUME NEW to, NEW parsed, NEW globals, NEW tty
  PROVE  LET o == OutcomeOf(to, parsed, globals \cup {"quiet"}, tty)
             p == OutcomeOf(to, parsed, globals, tty)
         IN SameButQuiet(o, p) /\ o.globals = globals \cup {"quiet"} /\ p.globals = globals
<1> DEFINE more == globals \cup {"quiet"}
           run(g) == Run(to.command, parsed.values, g, tty)
<1>1. ("version" \in more <=> "version" \in globals) /\ ("help" \in more <=> "help" \in globals)
  OBVIOUS
<1>2. SameButQuiet(run(more), run(globals)) /\ run(more).globals = more /\ run(globals).globals = globals
  BY QuietRun
<1> HIDE DEF more, run
<1>3. \A does, path, code, g :
        /\ Outcome(does, path, code, g).does = does /\ Outcome(does, path, code, g).path = path
        /\ Outcome(does, path, code, g).code = code /\ Outcome(does, path, code, g).globals = g
  BY DEF Outcome
<1>4. SameButQuiet(OutcomeOf(to, parsed, more, tty), OutcomeOf(to, parsed, globals, tty))
  BY <1>1, <1>2, <1>3 DEF OutcomeOf, SameButQuiet, run
<1>5. OutcomeOf(to, parsed, more, tty).globals = more /\ OutcomeOf(to, parsed, globals, tty).globals = globals
  BY <1>2, <1>3 DEF OutcomeOf, run
<1>6. QED
  BY <1>4, <1>5 DEF more

\* The outcome of a line from its flags and what is left of it.
OutcomeAfter(u, tty) ==
  LET to == resolveCommand(IF opensTui(u, tty) THEN <<"tui">> ELSE u.rest)
  IN IF u.at \in {"path", "error"} THEN Outcome("error", <<>>, 2, u.globals)
     ELSE OutcomeOf(to, parseInvocation(to.command, to.args), u.globals, tty)

LEMMA RunsAfterSplit == \A words, tty : runCli(words, tty) = OutcomeAfter(splitGlobalFlags(words), tty)
BY DEF runCli, OutcomeAfter

LEMMA GlobalsOfOutcome ==
  ASSUME NEW u, NEW tty
  PROVE  OutcomeAfter(u, tty).globals = u.globals
<1>1. \A g : Outcome("error", <<>>, 2, g).globals = g
  BY DEF Outcome
<1>2. ASSUME NEW to, NEW parsed
      PROVE  OutcomeOf(to, parsed, u.globals, tty).globals = u.globals
  <2> DEFINE g == u.globals
  <2> HIDE DEF g
  <2>1. LET o == OutcomeOf(to, parsed, g \cup {"quiet"}, tty)
            p == OutcomeOf(to, parsed, g, tty)
        IN SameButQuiet(o, p) /\ o.globals = g \cup {"quiet"} /\ p.globals = g
    BY QuietOutcome
  <2>2. QED
    BY <2>1 DEF g
<1>3. QED
  BY <1>1, <1>2 DEF OutcomeAfter

LEMMA QuietlyAfter ==
  ASSUME NEW u, NEW tty
  PROVE  SameButQuiet(OutcomeAfter(Quietly(u), tty), OutcomeAfter(u, tty))
<1> DEFINE v == Quietly(u)
           to == resolveCommand(IF opensTui(u, tty) THEN <<"tui">> ELSE u.rest)
<1>1. v.at = u.at /\ v.rest = u.rest /\ v.globals = u.globals \cup {"quiet"}
  BY DEF Quietly, Split
<1> HIDE DEF v
<1>2. v.globals \cap {"json", "help", "version"} = u.globals \cap {"json", "help", "version"}
  BY <1>1
<1>3. opensTui(v, tty) <=> opensTui(u, tty)
  BY <1>1, <1>2 DEF opensTui
<1>4. CASE u.at \in {"path", "error"}
  BY <1>1, <1>4 DEF OutcomeAfter, Outcome, SameButQuiet, v
<1>5. CASE u.at \notin {"path", "error"}
  <2>1. OutcomeAfter(u, tty) = OutcomeOf(to, parseInvocation(to.command, to.args), u.globals, tty)
    BY <1>5 DEF OutcomeAfter
  <2>2. OutcomeAfter(v, tty) =
          OutcomeOf(to, parseInvocation(to.command, to.args), u.globals \cup {"quiet"}, tty)
    BY <1>1, <1>3, <1>5 DEF OutcomeAfter
  <2> HIDE DEF to
  <2>3. QED
    BY <2>1, <2>2, QuietOutcome DEF v
<1>6. QED
  BY <1>4, <1>5

\* What -q does to a line, whatever its words.
LEMMA QuietLine ==
  ASSUME NEW W, NEW s \in Seq(W), "-q" \in W, NEW k \in 0..Len(s), k = 0 \/ s[k] # "--data-folder",
         NEW tty
  PROVE  LET quiet == runCli(InsertAt(s, k + 1, "-q"), tty)
             line == runCli(s, tty)
         IN IF "--" \in ToSet(SubSeq(s, 1, k)) THEN quiet.globals = line.globals
            ELSE /\ SameButQuiet(quiet, line)
                 /\ quiet.does \in {"runs", "ui"} => "quiet" \in quiet.globals
<1> DEFINE t == splitGlobalFlags(InsertAt(s, k + 1, "-q"))
           u == splitGlobalFlags(s)
<1>1. IF "--" \in ToSet(SubSeq(s, 1, k)) THEN t.globals = u.globals
      ELSE t = Quietly(u) \/ (t.at = "error" /\ u.at = "error")
  BY QuietSplit
<1>2. runCli(InsertAt(s, k + 1, "-q"), tty) = OutcomeAfter(t, tty) /\ runCli(s, tty) = OutcomeAfter(u, tty)
  BY RunsAfterSplit
<1> HIDE DEF t, u
<1>3. OutcomeAfter(t, tty).globals = t.globals /\ OutcomeAfter(u, tty).globals = u.globals
  BY GlobalsOfOutcome
<1>4. t = Quietly(u) => "quiet" \in t.globals
  BY DEF Quietly, Split
<1>5. t = Quietly(u) => SameButQuiet(OutcomeAfter(t, tty), OutcomeAfter(u, tty))
  BY QuietlyAfter
<1>6. (t.at = "error" /\ u.at = "error") =>
        /\ SameButQuiet(OutcomeAfter(t, tty), OutcomeAfter(u, tty))
        /\ OutcomeAfter(t, tty).does = "error"
  BY DEF OutcomeAfter, Outcome, SameButQuiet
<1>7. QED
  BY <1>1, <1>2, <1>3, <1>4, <1>5, <1>6

\* What the shell last ran is one of its lines, with its outcome.
RanALine == ran # NoLine => ran.words \in Lines /\ ran.outcome = runCli(ran.words, ran.tty)

LEMMA RanALineInductive == Spec => []RanALine
<1>1. Init => RanALine
  BY DEF Init, RanALine
<1>2. RanALine /\ [Next]_vars => RanALine'
  <2> SUFFICES ASSUME RanALine, [Next]_vars PROVE RanALine'
    OBVIOUS
  <2>1. CASE Enter
    <3>1. PICK words \in Lines, tty \in {"full", "dumb", "none"} :
            ran' = [words |-> words, tty |-> tty, outcome |-> runCli(words, tty)]
      BY <2>1 DEF Enter
    <3>2. ran'.words = words /\ ran'.tty = tty /\ ran'.outcome = runCli(words, tty)
      BY <3>1
    <3>3. QED
      BY <3>2 DEF RanALine
  <2>2. CASE ran' = NoLine \/ ran' = ran
    BY <2>2 DEF RanALine
  <2>3. Next /\ ~Enter => ran' = NoLine \/ ran' = ran
    BY DEF Next, Open, Press, Quit, Leave, Gone, Render, Resize, DaemonSeen, ConfigRead, DoctorDone, LinkAnswered
  <2>4. UNCHANGED vars => ran' = ran
    BY DEF vars
  <2>5. QED
    BY <2>1, <2>2, <2>3, <2>4
<1>3. QED
  BY <1>1, <1>2, PTL DEF Spec

\* splitGlobalFlags and the dispatcher: for any line of any words, -q put in before, between or
\* after them changes nothing but that it is quiet, unless it is the path of --data-folder or
\* follows a `--`, from where on no flag of the line changes.
THEOREM FlagsAreTakenAnywhere == Spec => []FlagsAnywhere
<1>1. RanALine => FlagsAnywhere
  <2> SUFFICES ASSUME RanALine, ran # NoLine, NEW i \in 1..(Len(ran.words) + 1),
                      i = 1 \/ ran.words[i - 1] # "--data-folder"
               PROVE  LET quiet == runCli(InsertAt(ran.words, i, "-q"), ran.tty)
                          line == ran.outcome
                      IN IF "--" \in ToSet(SubSeq(ran.words, 1, i - 1)) THEN quiet.globals = line.globals
                         ELSE /\ <<quiet.does, quiet.path, quiet.code>> = <<line.does, line.path, line.code>>
                              /\ quiet.does \in {"runs", "ui"} => "quiet" \in quiet.globals
    BY DEF FlagsAnywhere
  <2> DEFINE s == ran.words
             k == i - 1
             W == STRING \cup {"-q"}
  <2>1. s \in Seq(W) /\ "-q" \in W
    <3>1. s \in Lines /\ Lines \subseteq Seq(STRING)
      BY ScreensAssumption DEF RanALine, ScreensAssumption
    <3>2. \A S, T : S \subseteq T => Seq(S) \subseteq Seq(T)
      BY SeqMonotonic
    <3>3. STRING \subseteq W /\ "-q" \in W
      OBVIOUS
    <3>4. s \in Seq(STRING)
      BY <3>1
    <3> HIDE DEF s, W
    <3>5. QED
      BY <3>2, <3>3, <3>4
  <2>2. k \in 0..Len(s) /\ (k = 0 \/ s[k] # "--data-folder") /\ k + 1 = i
    BY <2>1
  <2>3. ran.outcome = runCli(s, ran.tty)
    BY DEF RanALine
  <2> HIDE DEF s, k, W
  <2>4. LET quiet == runCli(InsertAt(s, k + 1, "-q"), ran.tty)
            line == runCli(s, ran.tty)
        IN IF "--" \in ToSet(SubSeq(s, 1, k)) THEN quiet.globals = line.globals
           ELSE /\ SameButQuiet(quiet, line)
                /\ quiet.does \in {"runs", "ui"} => "quiet" \in quiet.globals
    BY <2>1, <2>2, QuietLine
  <2>5. QED
    BY <2>2, <2>3, <2>4 DEF SameButQuiet, s, k
<1>2. QED
  BY <1>1, RanALineInductive, PTL

-----------------------------------------------------------------------------
(* Lines without an option.                                                *)

\* A word that is no option is no global flag.
LEMMA PlainWord ==
  ASSUME NEW w, ~Dashed(w)
  PROVE  w \notin {"--", "--data-folder", "--data-folder=", "--data-folder=path"} /\ w \notin DOMAIN Booleans
<1>1. {"--", "--data-folder", "--data-folder=path", "--data-folder=", "--unknown"} \cup DOMAIN Booleans
        \subseteq Dashes
  BY DEF Dashes
<1>2. {"--", "--data-folder", "--data-folder=", "--data-folder=path"} \subseteq Dashes
  BY <1>1
<1>3. QED
  BY <1>1, <1>2 DEF Dashed

\* A line without an option has no global flag: all of it is left.
LEMMA PlainSplit ==
  ASSUME NEW W, NEW s \in Seq(W), Plain(s)
  PROVE  splitGlobalFlags(s) = Split("word", {}, s)
<1>1. PICK f : States(f, s) /\ splitGlobalFlags(s) = f[Len(s)]
  BY StatesOfLine
<1>2. Len(s) \in Nat /\ DOMAIN s = 1..Len(s)
  OBVIOUS
<1>3. \A n \in 1..Len(s) : ~Dashed(s[n])
  BY <1>2 DEF Plain, ToSet
<1> DEFINE T == {n \in 0..Len(s) : f[n] = Split("word", {}, SubSeq(s, 1, n))}
<1>4. 0 \in T
  <2>1. SubSeq(s, 1, 0) = <<>>
    BY <1>2
  <2>2. f[0] = Split("word", {}, <<>>)
    BY <1>1, Zenon DEF States, Start
  <2>3. f[0] = Split("word", {}, SubSeq(s, 1, 0))
    BY <2>1, <2>2, Zenon
  <2>4. 0 \in 0..Len(s)
    BY <1>2
  <2>5. QED
    BY <2>3, <2>4, Zenon
<1>5. ASSUME NEW n \in T, n < Len(s) PROVE n + 1 \in T
  <2>1. n \in Nat /\ n + 1 \in 1..Len(s) /\ n + 1 \in 0..Len(s) /\ (n + 1) - 1 = n
    BY <1>2, <1>5
  <2>2. f[n + 1] = NextWord(f[n], s[n + 1])
    BY <1>1, <2>1 DEF States
  <2>3. SubSeq(s, 1, n + 1) = Append(SubSeq(s, 1, n), s[n + 1])
    BY <2>1, <1>2
  <2>4. f[n] = Split("word", {}, SubSeq(s, 1, n))
    BY <1>5
  <2> DEFINE b == SubSeq(s, 1, n)
             w == s[n + 1]
  <2>5. ~Dashed(w)
    BY <1>3, <2>1
  <2> HIDE DEF b, w, T
  <2>6. NextWord(Split("word", {}, b), w) = Split("word", {}, Append(b, w))
    BY <2>5, PlainWord DEF NextWord, GlobalFlag, Split
  <2>7. QED
    BY <2>1, <2>2, <2>3, <2>4, <2>6 DEF b, w, T
<1>6. T = 0..Len(s)
  <2>1. T \in SUBSET (0..Len(s))
    OBVIOUS
  <2> HIDE DEF T
  <2>2. QED
    BY <1>2, <1>4, <1>5, <2>1, InductionUpTo
<1>7. f[Len(s)] = Split("word", {}, SubSeq(s, 1, Len(s)))
  BY <1>2, <1>6
<1>8. SubSeq(s, 1, Len(s)) = s
  OBVIOUS
<1>9. QED
  BY <1>1, <1>7, <1>8

\* Nor any option of a command: its words are its arguments.
LEMMA PlainArguments ==
  ASSUME NEW c, NEW W, NEW s \in Seq(W), Plain(s)
  PROVE  parseInvocation(c, s) = [at |-> "word", option |-> "none", values |-> <<>>, words |-> Len(s)]
<1> DEFINE P(n) == [at |-> "word", option |-> "none", values |-> <<>>, words |-> n]
<1>1. PICK f : Through(f, TRUE, c, s) /\ parseInvocation(c, s) = f[Len(s)]
  BY StatesOfArguments
<1>2. Len(s) \in Nat /\ DOMAIN s = 1..Len(s)
  OBVIOUS
<1>3. \A n \in 1..Len(s) : ~Dashed(s[n])
  BY <1>2 DEF Plain, ToSet
<1> DEFINE T == {n \in 0..Len(s) : f[n] = P(n)}
<1>4. 0 \in T
  BY <1>1, <1>2 DEF Through, Base, Unparsed
<1>5. ASSUME NEW n \in T, n < Len(s) PROVE n + 1 \in T
  <2>1. n \in Nat /\ n + 1 \in 1..Len(s) /\ n + 1 \in 0..Len(s) /\ (n + 1) - 1 = n
    BY <1>2, <1>5
  <2>2. f[n + 1] = Word(c, f[n], s[n + 1])
    BY <1>1, <2>1 DEF Through, Then
  <2>3. ~Dashed(s[n + 1])
    BY <1>3, <2>1
  <2>4. \A w : ~Dashed(w) => Word(c, P(n), w) = [P(n) EXCEPT !.words = @ + 1]
    BY DEF Word
  <2>5. [P(n) EXCEPT !.words = @ + 1] = P(n + 1)
    OBVIOUS
  <2>6. f[n] = P(n)
    OBVIOUS
  <2> HIDE DEF P
  <2>7. QED
    BY <2>1, <2>2, <2>3, <2>4, <2>5, <2>6
<1>6. T = 0..Len(s)
  <2>1. T \in SUBSET (0..Len(s))
    OBVIOUS
  <2> HIDE DEF T
  <2>2. QED
    BY <1>2, <1>4, <1>5, <2>1, InductionUpTo
<1>7. QED
  BY <1>1, <1>2, <1>6

-----------------------------------------------------------------------------
(* The tree of commands: what holds of each of them, list by list.         *)

\* An iteration is planned for it.
IsPlanned(path) == \E i \in DOMAIN PLANNED : path \in PLANNED[i]

\* What the dispatcher and the Commands screen take for granted of a command.
Sound(c) ==
  /\ c.need \in Nat /\ c.most \in Nat /\ c.kind \in {"runs", "stub", "group"}
  /\ c.kind = "group" => c.most = 0
  /\ c.kind = "stub" => IsPlanned(c.path)

Heads(L) == {c.path : c \in {c \in L : c.kind = "group"}}

\* Up to three words, of which those before the last are a group's.
Shape(path, L, name) ==
  \/ path = <<name>>
  \/ \E s : path = <<name, s>> /\ <<name>> \in Heads(L)
  \/ \E s, t : path = <<name, s, t>> /\ <<name>> \in Heads(L) /\ <<name, s>> \in Heads(L)

\* Where a bare call of it leads is a command.
Leads(c, L) ==
  c.default # "none" => c.kind = "group" /\
    \E d \in L : d.path = Append(c.path, c.default) /\ d.kind = "runs" /\ d.need = 0

\* Commands that start with one of these names.
Tree(list, names) ==
  /\ list \in Seq(ToSet(list))
  /\ \A c \in ToSet(list) :
       /\ Sound(c) /\ Leads(c, ToSet(list))
       /\ \E name \in names : Shape(c.path, ToSet(list), name)
  /\ \A c, d \in ToSet(list) : c.path = d.path => c = d

\* A command's fields, without what its options are.
LEMMA Parts ==
  ASSUME NEW p, NEW k, NEW n, NEW m, NEW f, NEW t, NEW d
  PROVE  LET c == Command(p, k, n, m, f, t, d)
         IN c.path = p /\ c.kind = k /\ c.need = n /\ c.most = m /\ c.default = d
  BY DEF Command

LEMMA SoundCommand ==
  ASSUME NEW p, NEW n \in Nat, NEW f, NEW t
  PROVE  /\ \A m \in Nat : Sound(Command(p, "runs", n, m, f, t, "none"))
         /\ \A d : Sound(Command(p, "group", n, 0, f, t, d))
         /\ \A m \in Nat : IsPlanned(p) => Sound(Command(p, "stub", n, m, f, t, "none"))
  BY Parts DEF Sound

\* A command that is no group of others.
LEMMA OneCommand ==
  ASSUME NEW name, NEW c, Sound(c), c.default = "none", c.path = <<name>>
  PROVE  Tree(<<c>>, {name})
<1>1. ToSet(<<c>>) = {c} /\ <<c>> \in Seq({c})
  BY DEF ToSet
<1> DEFINE s == <<c>>
<1> HIDE DEF s
<1>2. QED
  BY <1>1, Zenon DEF Tree, Leads, Shape, s

LEMMA OneOfItsOwn ==
  ASSUME NEW name, NEW f, NEW t, NEW n \in Nat, NEW m \in Nat
  PROVE  /\ Tree(<<Command(<<name>>, "runs", n, m, f, t, "none")>>, {name})
         /\ IsPlanned(<<name>>) => Tree(<<Command(<<name>>, "stub", n, m, f, t, "none")>>, {name})
<1> DEFINE c == Command(<<name>>, "runs", n, m, f, t, "none")
           d == Command(<<name>>, "stub", n, m, f, t, "none")
<1>1. c.path = <<name>> /\ c.default = "none" /\ d.path = <<name>> /\ d.default = "none"
  BY Parts
<1>2. Sound(c) /\ (IsPlanned(<<name>>) => Sound(d))
  BY SoundCommand
<1> HIDE DEF c, d
<1>3. Tree(<<c>>, {name}) /\ (IsPlanned(<<name>>) => Tree(<<d>>, {name}))
  BY <1>1, <1>2, OneCommand
<1>4. QED
  BY <1>3 DEF c, d

LEMMA AppendToOne == ASSUME NEW a, NEW b PROVE Append(<<a>>, b) = <<a, b>>
<1> DEFINE U == {a, b}
           s == <<a>>
           t == <<a, b>>
<1>1. s \in Seq(U) /\ t \in Seq(U) /\ b \in U
  OBVIOUS
<1>2. Len(s) = 1 /\ Len(t) = 2 /\ s[1] = a /\ t[1] = a /\ t[2] = b
  OBVIOUS
<1> HIDE DEF s, t, U
<1>3. Append(s, b) \in Seq(U) /\ Len(Append(s, b)) = 2 /\ Append(s, b)[1] = a /\ Append(s, b)[2] = b
  BY <1>1, <1>2, AppendProperties
<1> DEFINE u == Append(s, b)
<1>4. \A i \in 1..2 : u[i] = t[i]
  BY <1>2, <1>3
<1> HIDE DEF u
<1>5. u \in Seq(U) /\ Len(u) = 2
  BY <1>3 DEF u
<1>6. u = t
  BY <1>1, <1>2, <1>4, <1>5, SeqEqual
<1>7. QED
  BY <1>6 DEF s, t, u

\* The commands of a list of so many.
LEMMA ListOf2 ==
  ASSUME NEW a, NEW b
  PROVE  /\ ToSet(<<a, b>>) = {a, b}
         /\ <<a, b>> \in Seq({a, b})
  BY DEF ToSet

LEMMA ListOf3 ==
  ASSUME NEW a, NEW b, NEW c
  PROVE  /\ ToSet(<<a, b, c>>) = {a, b, c}
         /\ <<a, b, c>> \in Seq({a, b, c})
  BY DEF ToSet

LEMMA ListOf4 ==
  ASSUME NEW a, NEW b, NEW c, NEW d
  PROVE  /\ ToSet(<<a, b, c, d>>) = {a, b, c, d}
         /\ <<a, b, c, d>> \in Seq({a, b, c, d})
  BY DEF ToSet

LEMMA ListOf5 ==
  ASSUME NEW a, NEW b, NEW c, NEW d, NEW e
  PROVE  /\ ToSet(<<a, b, c, d, e>>) = {a, b, c, d, e}
         /\ <<a, b, c, d, e>> \in Seq({a, b, c, d, e})
  BY DEF ToSet

LEMMA ListOf6 ==
  ASSUME NEW a, NEW b, NEW c, NEW d, NEW e, NEW f
  PROVE  /\ ToSet(<<a, b, c, d, e, f>>) = {a, b, c, d, e, f}
         /\ <<a, b, c, d, e, f>> \in Seq({a, b, c, d, e, f})
  BY DEF ToSet

LEMMA ListOf9 ==
  ASSUME NEW a, NEW b, NEW c, NEW d, NEW e, NEW f, NEW g, NEW h, NEW i
  PROVE  /\ ToSet(<<a, b, c, d, e, f, g, h, i>>) = {a, b, c, d, e, f, g, h, i}
         /\ <<a, b, c, d, e, f, g, h, i>> \in Seq({a, b, c, d, e, f, g, h, i})
  BY DEF ToSet

\* src/commands, file by file.
LEMMA StartTree == Tree(startCommand, {"start"})
  BY OneOfItsOwn DEF startCommand, Runs

LEMMA StopTree == Tree(stopCommand, {"stop"})
  BY OneOfItsOwn DEF stopCommand, Runs

LEMMA RestartTree == Tree(restartCommand, {"restart"})
  BY OneOfItsOwn DEF restartCommand, Runs

LEMMA StatusTree == Tree(statusCommand, {"status"})
  BY OneOfItsOwn DEF statusCommand, Runs

LEMMA LogsTree == Tree(logsCommand, {"logs"})
  BY OneOfItsOwn DEF logsCommand, Runs

LEMMA RunTree == Tree(runCommand, {"run"})
<1>1. IsPlanned(<<"run">>)
  BY DEF IsPlanned, PLANNED
<1>2. QED
  BY <1>1, OneOfItsOwn DEF runCommand, StubOn

LEMMA UnloadTree == Tree(unloadCommand, {"unload"})
<1>1. IsPlanned(<<"unload">>)
  BY DEF IsPlanned, PLANNED
<1>2. QED
  BY <1>1, OneOfItsOwn DEF unloadCommand, StubOn

LEMMA ModelsTree == Tree(modelsCommand, {"models"})
<1> DEFINE L ==
      { Group(<<"models">>, "none"),
        StubOn(<<"models", "search">>, 1, {"--fit"}, {"--limit"}),
        StubOn(<<"models", "pull">>, 1, {"--mmproj"}, {"--quant", "--hf-token"}),
        Stub(<<"models", "list">>, {"--loaded"}, {}),
        StubOn(<<"models", "rm">>, 1, {}, {}),
        StubOn(<<"models", "info">>, 1, {}, {}) }
<1>1. ToSet(modelsCommand) = L /\ modelsCommand \in Seq(L)
  BY ListOf6 DEF modelsCommand
<1>2. \A c \in L : Sound(c)
  <2>1. \A p \in {<<"models", "search">>, <<"models", "pull">>, <<"models", "list">>,
                  <<"models", "rm">>, <<"models", "info">>} : IsPlanned(p)
    BY DEF IsPlanned, PLANNED
  <2>2. QED
    BY <2>1, SoundCommand DEF Group, Stub, StubOn
<1>3. \A c \in L : Shape(c.path, L, "models")
  <2>1. <<"models">> \in Heads(L)
    BY Parts DEF Heads, Group, Stub, StubOn
  <2>2. \A c \in L : c.path = <<"models">> \/ (\E s : c.path = <<"models", s>>)
    BY Parts DEF Group, Stub, StubOn
  <2> HIDE DEF L
  <2>3. QED
    BY <2>1, <2>2 DEF Shape
<1>4. \A c, d \in L : c.path = d.path => c = d
  BY Parts DEF Group, Stub, StubOn
<1>5. \A c \in L : Leads(c, L)
  BY Parts DEF Leads, Group, Stub, StubOn
<1> HIDE DEF L
<1>6. QED
  BY <1>1, <1>2, <1>3, <1>4, <1>5, Zenon DEF Tree

LEMMA EnginesTree == Tree(enginesCommand, {"engines"})
<1> DEFINE L ==
      { Group(<<"engines">>, "none"),
        Stub(<<"engines", "list">>, {}, {"--engine"}),
        StubOn(<<"engines", "install">>, 0, {"--force", "--dry-run"}, {"--build", "--resume"}),
        Stub(<<"engines", "status">>, {}, {}),
        StubOn(<<"engines", "rm">>, 1, {}, {"--build"}) }
<1>1. ToSet(enginesCommand) = L /\ enginesCommand \in Seq(L)
  BY ListOf5 DEF enginesCommand
<1>2. \A c \in L : Sound(c)
  <2>1. \A p \in {<<"engines", "list">>, <<"engines", "install">>, <<"engines", "status">>,
                  <<"engines", "rm">>} : IsPlanned(p)
    BY DEF IsPlanned, PLANNED
  <2>2. QED
    BY <2>1, SoundCommand DEF Group, Stub, StubOn
<1>3. \A c \in L : Shape(c.path, L, "engines")
  <2>1. <<"engines">> \in Heads(L)
    BY Parts DEF Heads, Group, Stub, StubOn
  <2>2. \A c \in L : c.path = <<"engines">> \/ (\E s : c.path = <<"engines", s>>)
    BY Parts DEF Group, Stub, StubOn
  <2> HIDE DEF L
  <2>3. QED
    BY <2>1, <2>2 DEF Shape
<1>4. \A c, d \in L : c.path = d.path => c = d
  BY Parts DEF Group, Stub, StubOn
<1>5. \A c \in L : Leads(c, L)
  BY Parts DEF Leads, Group, Stub, StubOn
<1> HIDE DEF L
<1>6. QED
  BY <1>1, <1>2, <1>3, <1>4, <1>5, Zenon DEF Tree

LEMMA HardwareTree == Tree(hardwareCommand, {"hardware"})
<1> DEFINE L ==
      { Group(<<"hardware">>, "none"),
        Stub(<<"hardware", "show">>, {}, {}),
        Stub(<<"hardware", "refresh">>, {}, {"--cpu-extensions"}) }
<1>1. ToSet(hardwareCommand) = L /\ hardwareCommand \in Seq(L)
  BY ListOf3 DEF hardwareCommand
<1>2. \A c \in L : Sound(c)
  <2>1. \A p \in {<<"hardware", "show">>, <<"hardware", "refresh">>} : IsPlanned(p)
    BY DEF IsPlanned, PLANNED
  <2>2. QED
    BY <2>1, SoundCommand DEF Group, Stub
<1>3. \A c \in L : Shape(c.path, L, "hardware")
  <2>1. <<"hardware">> \in Heads(L)
    BY Parts DEF Heads, Group, Stub
  <2>2. \A c \in L : c.path = <<"hardware">> \/ (\E s : c.path = <<"hardware", s>>)
    BY Parts DEF Group, Stub
  <2> HIDE DEF L
  <2>3. QED
    BY <2>1, <2>2 DEF Shape
<1>4. \A c, d \in L : c.path = d.path => c = d
  BY Parts DEF Group, Stub
<1>5. \A c \in L : Leads(c, L)
  BY Parts DEF Leads, Group, Stub
<1> HIDE DEF L
<1>6. QED
  BY <1>1, <1>2, <1>3, <1>4, <1>5, Zenon DEF Tree

LEMMA ApiTree == Tree(apiCommand, {"api"})
<1> DEFINE L ==
      { Group(<<"api">>, "none"),
        Stub(<<"api", "start">>, {"--cors"}, apiOptions \cup {"--prefix", "--trusted-host"}),
        Stub(<<"api", "stop">>, {}, {}),
        Stub(<<"api", "status">>, {}, {}),
        Group(<<"api", "key">>, "none"),
        Stub(<<"api", "key", "show">>, {"--reveal"}, {}),
        StubOn(<<"api", "key", "set">>, 1, {}, {}),
        Stub(<<"api", "key", "rotate">>, {}, {}),
        Stub(<<"api", "key", "clear">>, {}, {}) }
<1>1. ToSet(apiCommand) = L /\ apiCommand \in Seq(L)
  BY ListOf9 DEF apiCommand
<1>2. \A c \in L : Sound(c)
  <2>1. \A p \in {<<"api", "start">>, <<"api", "stop">>, <<"api", "status">>,
                  <<"api", "key", "show">>, <<"api", "key", "set">>, <<"api", "key", "rotate">>,
                  <<"api", "key", "clear">>} : IsPlanned(p)
    BY DEF IsPlanned, PLANNED
  <2>2. QED
    BY <2>1, SoundCommand DEF Group, Stub, StubOn
<1>3. \A c \in L : Shape(c.path, L, "api")
  <2>1. <<"api">> \in Heads(L) /\ <<"api", "key">> \in Heads(L)
    BY Parts DEF Heads, Group, Stub, StubOn
  <2>2. \A c \in L : c.path = <<"api">> \/ (\E s : c.path = <<"api", s>>)
                      \/ (\E s : c.path = <<"api", "key", s>>)
    BY Parts DEF Group, Stub, StubOn
  <2> HIDE DEF L
  <2>3. QED
    BY <2>1, <2>2 DEF Shape
<1>4. \A c, d \in L : c.path = d.path => c = d
  BY Parts DEF Group, Stub, StubOn
<1>5. \A c \in L : Leads(c, L)
  BY Parts DEF Leads, Group, Stub, StubOn
<1> HIDE DEF L
<1>6. QED
  BY <1>1, <1>2, <1>3, <1>4, <1>5, Zenon DEF Tree

LEMMA AdminTree == Tree(adminCommand, {"admin"})
<1> DEFINE L ==
      { Group(<<"admin">>, "open"),
        Runs(<<"admin", "open">>, {"--open"}, {"--host", "--port"}),
        Runs(<<"admin", "status">>, {}, {}),
        Runs(<<"admin", "token">>, {"--rotate"}, {}) }
<1>1. ToSet(adminCommand) = L /\ adminCommand \in Seq(L)
  BY ListOf4 DEF adminCommand
<1>2. \A c \in L : Sound(c)
  BY SoundCommand DEF Group, Runs
<1>3. \A c \in L : Shape(c.path, L, "admin")
  <2>1. <<"admin">> \in Heads(L)
    BY Parts DEF Heads, Group, Runs
  <2>2. \A c \in L : c.path = <<"admin">> \/ (\E s : c.path = <<"admin", s>>)
    BY Parts DEF Group, Runs
  <2> HIDE DEF L
  <2>3. QED
    BY <2>1, <2>2 DEF Shape
<1>4. \A c, d \in L : c.path = d.path => c = d
  BY Parts DEF Group, Runs
<1>5. \A c \in L : Leads(c, L)
  <2>1. \A c \in L : c.default # "none" => c.kind = "group" /\ c.path = <<"admin">> /\ c.default = "open"
    BY Parts DEF Group, Runs
  <2>2. \E d \in L : d.path = <<"admin", "open">> /\ d.kind = "runs" /\ d.need = 0
    BY Parts DEF Group, Runs
  <2> HIDE DEF L
  <2>3. Append(<<"admin">>, "open") = <<"admin", "open">>
    BY AppendToOne
  <2>4. QED
    BY <2>1, <2>2, <2>3 DEF Leads
<1> HIDE DEF L
<1>6. QED
  BY <1>1, <1>2, <1>3, <1>4, <1>5, Zenon DEF Tree

LEMMA TuiTree == Tree(tuiCommand, {"tui"})
  BY OneOfItsOwn DEF tuiCommand, Runs

LEMMA ConfigTree == Tree(configCommand, {"config"})
<1> DEFINE L ==
      { Group(<<"config">>, "none"),
        RunsOn(<<"config", "get">>, 1),
        RunsOn(<<"config", "set">>, 2),
        RunsOn(<<"config", "unset">>, 1),
        Runs(<<"config", "list">>, {}, {}),
        Runs(<<"config", "path">>, {}, {}) }
<1>1. ToSet(configCommand) = L /\ configCommand \in Seq(L)
  BY ListOf6 DEF configCommand
<1>2. \A c \in L : Sound(c)
  BY SoundCommand DEF Group, Runs, RunsOn
<1>3. \A c \in L : Shape(c.path, L, "config")
  <2>1. <<"config">> \in Heads(L)
    BY Parts DEF Heads, Group, Runs, RunsOn
  <2>2. \A c \in L : c.path = <<"config">> \/ (\E s : c.path = <<"config", s>>)
    BY Parts DEF Group, Runs, RunsOn
  <2> HIDE DEF L
  <2>3. QED
    BY <2>1, <2>2 DEF Shape
<1>4. \A c, d \in L : c.path = d.path => c = d
  BY Parts DEF Group, Runs, RunsOn
<1>5. \A c \in L : Leads(c, L)
  BY Parts DEF Leads, Group, Runs, RunsOn
<1> HIDE DEF L
<1>6. QED
  BY <1>1, <1>2, <1>3, <1>4, <1>5, Zenon DEF Tree

LEMMA DoctorTree == Tree(doctorCommand, {"doctor"})
  BY OneOfItsOwn DEF doctorCommand, Runs

LEMMA ServiceTree == Tree(serviceCommand, {"service"})
<1> DEFINE L ==
      { Group(<<"service">>, "none"),
        Stub(<<"service", "install">>, {"--system"}, {"--name"}),
        Stub(<<"service", "uninstall">>, {}, {}),
        Stub(<<"service", "status">>, {}, {}),
        Stub(<<"service", "start">>, {}, {}),
        Stub(<<"service", "stop">>, {}, {}) }
<1>1. ToSet(serviceCommand) = L /\ serviceCommand \in Seq(L)
  BY ListOf6 DEF serviceCommand
<1>2. \A c \in L : Sound(c)
  <2>1. \A p \in {<<"service", "install">>, <<"service", "uninstall">>, <<"service", "status">>,
                  <<"service", "start">>, <<"service", "stop">>} : IsPlanned(p)
    BY DEF IsPlanned, PLANNED
  <2>2. QED
    BY <2>1, SoundCommand DEF Group, Stub
<1>3. \A c \in L : Shape(c.path, L, "service")
  <2>1. <<"service">> \in Heads(L)
    BY Parts DEF Heads, Group, Stub
  <2>2. \A c \in L : c.path = <<"service">> \/ (\E s : c.path = <<"service", s>>)
    BY Parts DEF Group, Stub
  <2> HIDE DEF L
  <2>3. QED
    BY <2>1, <2>2 DEF Shape
<1>4. \A c, d \in L : c.path = d.path => c = d
  BY Parts DEF Group, Stub
<1>5. \A c \in L : Leads(c, L)
  BY Parts DEF Leads, Group, Stub
<1> HIDE DEF L
<1>6. QED
  BY <1>1, <1>2, <1>3, <1>4, <1>5, Zenon DEF Tree

LEMMA UpdateTree == Tree(updateCommand, {"update"})
  BY OneOfItsOwn DEF updateCommand, Runs

LEMMA VersionTree == Tree(versionCommand, {"version"})
  BY OneOfItsOwn DEF versionCommand, Runs

LEMMA CompletionTree == Tree(completionCommand, {"completion"})
  BY OneOfItsOwn DEF completionCommand, RunsOn

LEMMA DaemonTree == Tree(daemonCommand, {"daemon"})
  BY OneOfItsOwn DEF daemonCommand, Runs

LEMMA HostStepTree == Tree(hostStepCommand, {"host-step"})
<1> DEFINE L ==
      { Group(<<"host-step">>, "none"),
        RunsOn(<<"host-step", "exec">>, 1) }
<1>1. ToSet(hostStepCommand) = L /\ hostStepCommand \in Seq(L)
  BY ListOf2 DEF hostStepCommand
<1>2. \A c \in L : Sound(c)
  BY SoundCommand DEF Group, RunsOn
<1>3. \A c \in L : Shape(c.path, L, "host-step")
  <2>1. <<"host-step">> \in Heads(L)
    BY Parts DEF Heads, Group, RunsOn
  <2>2. \A c \in L : c.path = <<"host-step">> \/ (\E s : c.path = <<"host-step", s>>)
    BY Parts DEF Group, RunsOn
  <2> HIDE DEF L
  <2>3. QED
    BY <2>1, <2>2 DEF Shape
<1>4. \A c, d \in L : c.path = d.path => c = d
  BY Parts DEF Group, RunsOn
<1>5. \A c \in L : Leads(c, L)
  BY Parts DEF Leads, Group, RunsOn
<1> HIDE DEF L
<1>6. QED
  BY <1>1, <1>2, <1>3, <1>4, <1>5, Zenon DEF Tree

\* The members of two lists in a row.
LEMMA ConcatSet ==
  ASSUME NEW U, NEW s \in Seq(U), NEW t \in Seq(U)
  PROVE  s \o t \in Seq(U) /\ ToSet(s \o t) = ToSet(s) \cup ToSet(t)
<1> DEFINE m == Len(s)
           n == Len(t)
<1>2. m \in Nat /\ n \in Nat /\ DOMAIN s = 1..m /\ DOMAIN t = 1..n
  OBVIOUS
<1>3. /\ s \o t \in Seq(U) /\ Len(s \o t) = m + n
      /\ \A i \in 1..(m + n) : (s \o t)[i] = IF i <= m THEN s[i] ELSE t[i - m]
  BY ConcatProperties
<1>4. DOMAIN (s \o t) = 1..(m + n)
  BY <1>3
<1> DEFINE u == s \o t
<1> HIDE DEF u, m, n
<1>5. ToSet(u) = ToSet(s) \cup ToSet(t)
  <2>1. \A i \in 1..m : i \in 1..(m + n) /\ u[i] = s[i]
    BY <1>2, <1>3 DEF u
  <2>2. \A i \in 1..n : i + m \in 1..(m + n) /\ u[i + m] = t[i]
    BY <1>2, <1>3 DEF u
  <2>3. \A i \in 1..(m + n) : (i \in 1..m /\ u[i] = s[i]) \/ (i - m \in 1..n /\ u[i] = t[i - m])
    BY <1>2, <1>3 DEF u
  <2>4. DOMAIN u = 1..(m + n)
    BY <1>4 DEF u
  <2>5. /\ ToSet(u) = {u[i] : i \in 1..(m + n)}
        /\ ToSet(s) = {s[i] : i \in 1..m} /\ ToSet(t) = {t[i] : i \in 1..n}
    BY <1>2, <2>4 DEF ToSet
  <2>6. QED
    BY <2>1, <2>2, <2>3, <2>5
<1>6. QED
  BY <1>3, <1>5 DEF u

\* Lists whose commands start with other words.
LEMMA JoinedTrees ==
  ASSUME NEW s, NEW t, NEW M, NEW N, Tree(s, M), Tree(t, N), M \cap N = {}
  PROVE  Tree(s \o t, M \cup N) /\ ToSet(s \o t) = ToSet(s) \cup ToSet(t)
<1> DEFINE S == ToSet(s)
           T == ToSet(t)
<1>1. s \o t \in Seq(S \cup T) /\ ToSet(s \o t) = S \cup T
  <2>1. s \in Seq(S) /\ t \in Seq(T)
    BY DEF Tree
  <2> HIDE DEF S, T
  <2>2. s \in Seq(S \cup T) /\ t \in Seq(S \cup T)
    BY <2>1
  <2>3. s \o t \in Seq(S \cup T) /\ ToSet(s \o t) = ToSet(s) \cup ToSet(t)
    BY <2>2, ConcatSet
  <2>4. QED
    BY <2>3 DEF S, T
<1>2. \A p, name : Shape(p, S, name) \/ Shape(p, T, name) => Shape(p, S \cup T, name) /\ p[1] = name
  BY DEF Shape, Heads
<1>3. /\ \A c \in S : Sound(c) /\ Leads(c, S) /\ \E name \in M : Shape(c.path, S, name)
      /\ \A c, d \in S : c.path = d.path => c = d
      /\ \A c \in T : Sound(c) /\ Leads(c, T) /\ \E name \in N : Shape(c.path, T, name)
      /\ \A c, d \in T : c.path = d.path => c = d
  BY DEF Tree
<1>4. \A c : Leads(c, S) \/ Leads(c, T) => Leads(c, S \cup T)
  BY DEF Leads
<1> HIDE DEF S, T
<1>5. \A c \in S \cup T : Sound(c) /\ Leads(c, S \cup T)
                             /\ \E name \in M \cup N : Shape(c.path, S \cup T, name)
  BY <1>2, <1>3, <1>4
<1>6. /\ \A c \in S : c.path[1] \in M
      /\ \A c \in T : c.path[1] \in N
  BY <1>2, <1>3
<1>7. \A c, d \in S \cup T : c.path = d.path => c = d
  BY <1>3, <1>6
<1>8. QED
  <2> DEFINE u == s \o t
  <2> HIDE DEF u
  <2>1. u \in Seq(S \cup T) /\ ToSet(u) = S \cup T
    BY <1>1 DEF u
  <2>2. Tree(u, M \cup N)
    <3> DEFINE U == ToSet(u)
    <3>1. U = S \cup T /\ u \in Seq(U)
      BY <2>1
    <3> HIDE DEF U
    <3>2. /\ \A c \in U : Sound(c) /\ Leads(c, U) /\ \E name \in M \cup N : Shape(c.path, U, name)
          /\ \A c, d \in U : c.path = d.path => c = d
      BY <1>5, <1>7, <3>1
    <3>3. QED
      BY <3>1, <3>2, Zenon DEF Tree, U
  <2>3. QED
    BY <2>1, <2>2 DEF u, S, T


\* One more list.
LEMMA OneMore ==
  ASSUME NEW s, NEW t, NEW M, NEW name, Tree(s, M), Tree(t, {name}), name \notin M
  PROVE  Tree(s \o t, M \cup {name})
  BY JoinedTrees

\* walkCommands, over all the lists.
LEMMA RootTree == \E names : Tree(ROOT, names)
<1> DEFINE l2 == startCommand \o stopCommand
           n2 == {"start"} \cup {"stop"}
<1> DEFINE l3 == l2 \o restartCommand
           n3 == n2 \cup {"restart"}
<1> DEFINE l4 == l3 \o statusCommand
           n4 == n3 \cup {"status"}
<1> DEFINE l5 == l4 \o logsCommand
           n5 == n4 \cup {"logs"}
<1> DEFINE l6 == l5 \o runCommand
           n6 == n5 \cup {"run"}
<1> DEFINE l7 == l6 \o unloadCommand
           n7 == n6 \cup {"unload"}
<1> DEFINE l8 == l7 \o modelsCommand
           n8 == n7 \cup {"models"}
<1> DEFINE l9 == l8 \o enginesCommand
           n9 == n8 \cup {"engines"}
<1> DEFINE l10 == l9 \o hardwareCommand
           n10 == n9 \cup {"hardware"}
<1> DEFINE l11 == l10 \o apiCommand
           n11 == n10 \cup {"api"}
<1> DEFINE l12 == l11 \o adminCommand
           n12 == n11 \cup {"admin"}
<1> DEFINE l13 == l12 \o tuiCommand
           n13 == n12 \cup {"tui"}
<1> DEFINE l14 == l13 \o configCommand
           n14 == n13 \cup {"config"}
<1> DEFINE l15 == l14 \o doctorCommand
           n15 == n14 \cup {"doctor"}
<1> DEFINE l16 == l15 \o serviceCommand
           n16 == n15 \cup {"service"}
<1> DEFINE l17 == l16 \o updateCommand
           n17 == n16 \cup {"update"}
<1> DEFINE l18 == l17 \o versionCommand
           n18 == n17 \cup {"version"}
<1> DEFINE l19 == l18 \o completionCommand
           n19 == n18 \cup {"completion"}
<1> DEFINE l20 == l19 \o daemonCommand
           n20 == n19 \cup {"daemon"}
<1> DEFINE l21 == l20 \o hostStepCommand
           n21 == n20 \cup {"host-step"}
<1>2. Tree(l2, n2)
  BY StartTree, StopTree, OneMore
<1>3. Tree(l3, n3)
  BY <1>2, RestartTree, OneMore
<1>4. Tree(l4, n4)
  BY <1>3, StatusTree, OneMore
<1>5. Tree(l5, n5)
  BY <1>4, LogsTree, OneMore
<1>6. Tree(l6, n6)
  BY <1>5, RunTree, OneMore
<1>7. Tree(l7, n7)
  BY <1>6, UnloadTree, OneMore
<1>8. Tree(l8, n8)
  BY <1>7, ModelsTree, OneMore
<1>9. Tree(l9, n9)
  BY <1>8, EnginesTree, OneMore
<1>10. Tree(l10, n10)
  BY <1>9, HardwareTree, OneMore
<1>11. Tree(l11, n11)
  BY <1>10, ApiTree, OneMore
<1>12. Tree(l12, n12)
  BY <1>11, AdminTree, OneMore
<1>13. Tree(l13, n13)
  BY <1>12, TuiTree, OneMore
<1>14. Tree(l14, n14)
  BY <1>13, ConfigTree, OneMore
<1>15. Tree(l15, n15)
  BY <1>14, DoctorTree, OneMore
<1>16. Tree(l16, n16)
  BY <1>15, ServiceTree, OneMore
<1>17. Tree(l17, n17)
  BY <1>16, UpdateTree, OneMore
<1>18. Tree(l18, n18)
  BY <1>17, VersionTree, OneMore
<1>19. Tree(l19, n19)
  BY <1>18, CompletionTree, OneMore
<1>20. Tree(l20, n20)
  BY <1>19, DaemonTree, OneMore
<1>21. Tree(l21, n21)
  BY <1>20, HostStepTree, OneMore
<1>22. QED
  BY <1>21 DEF ROOT

\* A line starts with the words it has in common with another.
LEMMA FirstWords ==
  ASSUME NEW W, NEW s \in Seq(W), NEW t \in Seq(W), Len(t) <= Len(s), \A i \in 1..Len(t) : t[i] = s[i]
  PROVE  SubSeq(s, 1, Len(t)) = t
<1> DEFINE n == Len(t)
           u == SubSeq(s, 1, n)
<1>1. n \in Nat /\ n <= Len(s) /\ Len(s) \in Nat
  OBVIOUS
<1>2. u \in Seq(W) /\ Len(u) = n /\ \A i \in 1..n : u[i] = s[i]
  BY <1>1
<1> HIDE DEF u
<1>3. Len(u) = Len(t) /\ \A i \in 1..Len(u) : u[i] = t[i]
  BY <1>1, <1>2
<1>4. u = t
  BY <1>2, <1>3, SeqEqual
<1>5. QED
  BY <1>4 DEF u

\* The words before the last of a command are those of a group.
LEMMA ShapeOfPath ==
  ASSUME NEW p, NEW L, NEW name, Shape(p, L, name)
  PROVE  /\ Len(p) \in 1..3 /\ SubSeq(p, 1, Len(p)) = p /\ \E W : p \in Seq(W)
         /\ \A m \in 1..(Len(p) - 1) : SubSeq(p, 1, m) \in Heads(L)
<1> DEFINE Good(q) ==
             /\ Len(q) \in 1..3 /\ SubSeq(q, 1, Len(q)) = q /\ \E W : q \in Seq(W)
             /\ \A m \in 1..(Len(q) - 1) : SubSeq(q, 1, m) \in Heads(L)
<1>1. ASSUME NEW a PROVE Good(<<a>>)
  <2> DEFINE s == <<a>>
             W == {a}
  <2>1. s \in Seq(W) /\ Len(s) = 1
    OBVIOUS
  <2> HIDE DEF s
  <2>2. SubSeq(s, 1, 1) = s
    BY <2>1, FirstWords
  <2>3. Good(s)
    BY <2>1, <2>2
  <2>4. QED
    BY <2>3 DEF s
<1>2. ASSUME NEW a, NEW b, <<a>> \in Heads(L) PROVE Good(<<a, b>>)
  <2> DEFINE s == <<a, b>>
             t == <<a>>
             W == {a, b}
  <2>1. s \in Seq(W) /\ Len(s) = 2 /\ t \in Seq(W) /\ Len(t) = 1 /\ t[1] = s[1]
    OBVIOUS
  <2>2. t \in Heads(L)
    BY <1>2
  <2> HIDE DEF s, t, W
  <2>3. SubSeq(s, 1, 2) = s
    BY <2>1, FirstWords
  <2>4. SubSeq(s, 1, 1) = t
    BY <2>1, FirstWords
  <2>5. \A m \in 1..(Len(s) - 1) : SubSeq(s, 1, m) \in Heads(L)
    <3>1. \A m \in 1..(Len(s) - 1) : m = 1
      BY <2>1
    <3>2. QED
      BY <2>2, <2>4, <3>1
  <2>6. Len(s) \in 1..3 /\ SubSeq(s, 1, Len(s)) = s
    BY <2>1, <2>3
  <2>7. Good(s)
    BY <2>1, <2>5, <2>6, Zenon
  <2>8. QED
    BY <2>7 DEF s
<1>3. ASSUME NEW a, NEW b, NEW c, <<a>> \in Heads(L), <<a, b>> \in Heads(L) PROVE Good(<<a, b, c>>)
  <2> DEFINE s == <<a, b, c>>
             t == <<a>>
             u == <<a, b>>
             W == {a, b, c}
  <2>1. s \in Seq(W) /\ Len(s) = 3 /\ t \in Seq(W) /\ Len(t) = 1 /\ u \in Seq(W) /\ Len(u) = 2
    OBVIOUS
  <2>2. t[1] = s[1] /\ u[1] = s[1] /\ u[2] = s[2]
    OBVIOUS
  <2>3. t \in Heads(L) /\ u \in Heads(L)
    BY <1>3
  <2> HIDE DEF s, t, u, W
  <2>4. SubSeq(s, 1, 3) = s
    BY <2>1, FirstWords
  <2>5. SubSeq(s, 1, 1) = t
    BY <2>1, <2>2, FirstWords
  <2>6. SubSeq(s, 1, 2) = u
    <3>1. \A i \in 1..2 : u[i] = s[i]
      BY <2>2
    <3>2. QED
      BY <2>1, <3>1, FirstWords
  <2>7. \A m \in 1..(Len(s) - 1) : m = 1 \/ m = 2
    BY <2>1
  <2>8. \A m \in 1..(Len(s) - 1) : SubSeq(s, 1, m) \in Heads(L)
    BY <2>3, <2>5, <2>6, <2>7
  <2>9. Len(s) \in 1..3 /\ SubSeq(s, 1, Len(s)) = s
    BY <2>1, <2>4
  <2>10. Good(s)
    BY <2>1, <2>8, <2>9, Zenon
  <2>11. QED
    BY <2>10 DEF s
<1> HIDE DEF Good
<1>4. Good(p)
  BY <1>1, <1>2, <1>3 DEF Shape
<1>5. QED
  BY <1>4 DEF Good

\* The tree as resolveCommand goes through it.
LEMMA AllOfTheTree ==
  /\ \A c \in AllCommands : Sound(c) /\ Leads(c, AllCommands)
  /\ \A c, d \in AllCommands : c.path = d.path => c = d
  /\ \A c \in AllCommands :
       /\ Len(c.path) \in 1..3 /\ SubSeq(c.path, 1, Len(c.path)) = c.path /\ \E W : c.path \in Seq(W)
       /\ \A m \in 1..(Len(c.path) - 1) : SubSeq(c.path, 1, m) \in Heads(AllCommands)
<1>1. PICK names : Tree(ROOT, names)
  BY RootTree
<1> DEFINE L == AllCommands
<1>2. ToSet(ROOT) = L
  BY DEF AllCommands
<1> HIDE DEF L
<1>3. /\ \A c \in L : Sound(c) /\ Leads(c, L) /\ \E name \in names : Shape(c.path, L, name)
      /\ \A c, d \in L : c.path = d.path => c = d
  BY <1>1, <1>2, Zenon DEF Tree
<1>4. \A c \in L : /\ Len(c.path) \in 1..3 /\ SubSeq(c.path, 1, Len(c.path)) = c.path
                   /\ \E W : c.path \in Seq(W)
                   /\ \A m \in 1..(Len(c.path) - 1) : SubSeq(c.path, 1, m) \in Heads(L)
  BY <1>3, ShapeOfPath
<1>5. QED
  BY <1>3, <1>4, Zenon DEF L

\* No other command's name is further along the line: only a group's goes on, and it takes no
\* arguments.
LEMMA LongestName ==
  ASSUME NEW W, NEW w \in Seq(W), NEW c \in AllCommands, IsPrefix(c.path, w),
         Len(w) - Len(c.path) \in c.need..c.most
  PROVE  /\ Len(c.path) \in 1..Len(w) /\ SubSeq(w, 1, Len(c.path)) = c.path
         /\ Max({n \in 0..Len(w) : \A m \in 1..n : SubSeq(w, 1, m) \in Paths}) = Len(c.path)
<1> DEFINE p == c.path
           k == Len(p)
           H == Heads(AllCommands)
           M == {n \in 0..Len(w) : \A m \in 1..n : SubSeq(w, 1, m) \in Paths}
<1>1. /\ k \in 1..3 /\ SubSeq(p, 1, k) = p /\ \E V : p \in Seq(V)
      /\ \A m \in 1..(k - 1) : SubSeq(p, 1, m) \in H
  BY AllOfTheTree, Zenon
<1>2. Len(w) \in Nat /\ k <= Len(w) /\ SubSeq(w, 1, k) = p
  <2>1. Len(w) \in Nat
    OBVIOUS
  <2>2. k <= Len(w) /\ SubSeq(p, 1, k) = SubSeq(w, 1, k)
    BY Zenon DEF IsPrefix
  <2>3. QED
    BY <1>1, <2>1, <2>2
<1>3. H \subseteq Paths
  BY DEF Heads, Paths
<1>4. \A m \in 1..k : SubSeq(w, 1, m) \in Paths
  <2>1. p \in Paths
    BY DEF Paths
  <2> SUFFICES ASSUME NEW m \in 1..k PROVE SubSeq(w, 1, m) \in Paths
    OBVIOUS
  <2>2. CASE m = k
    BY <1>2, <2>1, <2>2
  <2>3. CASE m # k
    <3>1. m \in 1..(k - 1)
      BY <1>1, <2>3
    <3>2. SubSeq(w, 1, m) = SubSeq(p, 1, m)
      <4>1. PICK V : p \in Seq(V)
        BY <1>1
      <4> DEFINE U == V \cup W
                 u == SubSeq(w, 1, m)
                 v == SubSeq(p, 1, m)
      <4>2. \A i \in 1..k : SubSeq(w, 1, k)[i] = w[i]
        BY <1>1, <1>2
      <4>3. \A i \in 1..m : p[i] = w[i] /\ i \in 1..k
        BY <1>1, <1>2, <3>1, <4>2
      <4>4. u \in Seq(W) /\ Len(u) = m /\ \A i \in 1..m : u[i] = w[i]
        BY <1>1, <1>2, <3>1
      <4>5. v \in Seq(V) /\ Len(v) = m /\ \A i \in 1..m : v[i] = p[i]
        BY <1>1, <1>2, <3>1, <4>1
      <4> HIDE DEF u, v, p, k
      <4>6. u \in Seq(U) /\ v \in Seq(U)
        BY <4>4, <4>5
      <4> HIDE DEF U
      <4>7. \A i \in 1..Len(u) : u[i] = v[i]
        BY <4>3, <4>4, <4>5
      <4>8. u = v
        BY <4>4, <4>5, <4>6, <4>7, SeqEqual
      <4>9. QED
        BY <4>8 DEF u, v
    <3>3. QED
      BY <1>1, <1>3, <3>1, <3>2
  <2>4. QED
    BY <2>2, <2>3
<1>5. k \in M
  BY <1>1, <1>2, <1>4
<1>6. \A n \in M : n <= k
  <2> SUFFICES ASSUME NEW n \in M, n > k PROVE FALSE
    BY <1>1, <1>2
  <2>1. k + 1 \in 1..n /\ n <= Len(w) /\ n \in Nat
    BY <1>1, <1>2
  <2>2. PICK d \in AllCommands : d.path = SubSeq(w, 1, k + 1)
    BY <2>1 DEF Paths
  <2>3. Len(d.path) = k + 1 /\ SubSeq(d.path, 1, k) \in H
    <3>1. Len(SubSeq(w, 1, k + 1)) = k + 1
      BY <1>1, <1>2, <2>1
    <3>2. k \in 1..(Len(d.path) - 1)
      BY <1>1, <2>2, <3>1
    <3>3. QED
      BY <2>2, <3>1, <3>2, AllOfTheTree, Zenon
  <2>4. SubSeq(d.path, 1, k) = SubSeq(w, 1, k)
    <3> DEFINE a == SubSeq(w, 1, k + 1)
               u == SubSeq(a, 1, k)
               v == SubSeq(w, 1, k)
    <3>1. a \in Seq(W) /\ Len(a) = k + 1 /\ \A i \in 1..(k + 1) : a[i] = w[i]
      BY <1>1, <1>2, <2>1
    <3>2. v \in Seq(W) /\ Len(v) = k /\ \A i \in 1..k : v[i] = w[i]
      BY <1>1, <1>2
    <3> HIDE DEF a, k
    <3>3. u \in Seq(W) /\ Len(u) = k /\ \A i \in 1..k : u[i] = a[i]
      BY <1>1, <3>1
    <3> HIDE DEF u, v
    <3>4. \A i \in 1..Len(u) : u[i] = v[i]
      BY <1>1, <3>1, <3>2, <3>3
    <3>5. u = v
      BY <3>2, <3>3, <3>4, SeqEqual
    <3>6. QED
      BY <2>2, <3>5 DEF u, v, a
  <2>5. PICK g \in AllCommands : g.kind = "group" /\ g.path = p
    BY <1>2, <2>3, <2>4 DEF Heads
  <2>6. g = c /\ Sound(c)
    BY <2>5, AllOfTheTree, Zenon
  <2>7. c.most = 0 /\ c.need \in Nat
    BY <2>5, <2>6 DEF Sound
  <2>8. Len(w) = k
    BY <1>1, <1>2, <2>7
  <2>9. QED
    BY <1>1, <2>1, <2>8
<1>7. Max(M) = k
  <2>1. M \subseteq Int
    OBVIOUS
  <2> HIDE DEF M, k
  <2>2. \A x \in M : (\A y \in M : x >= y) => x = k
    BY <1>1, <1>5, <1>6, <2>1
  <2>3. k \in M /\ \A y \in M : k >= y
    BY <1>1, <1>5, <1>6, <2>1
  <2>4. QED
    BY <2>2, <2>3, Zenon DEF Max
<1>8. k \in 1..Len(w)
  <2>1. k \in 1..3
    BY <1>1, Zenon
  <2> HIDE DEF k
  <2>2. QED
    BY <1>2, <2>1
<1>9. QED
  BY <1>2, <1>7, <1>8, Zenon

\* What is left of a line after its first words.
LEMMA RestOfLine ==
  ASSUME NEW W, NEW w \in Seq(W), Plain(w), NEW k \in Nat, k <= Len(w)
  PROVE  LET left == SubSeq(w, k + 1, Len(w))
         IN left \in Seq(W) /\ Len(left) = Len(w) - k /\ Plain(left)
<1> DEFINE left == SubSeq(w, k + 1, Len(w))
<1>1. Len(w) \in Nat /\ DOMAIN w = 1..Len(w)
  OBVIOUS
<1>2. left \in Seq(W) /\ Len(left) = Len(w) - k /\ \A i \in 1..Len(left) : left[i] = w[k + i]
  <2>1. \A i \in (k + 1)..Len(w) : w[i] \in W
    BY <1>1
  <2>2. k <= Len(w) /\ k + 1 \in Int /\ Len(w) \in Int
    BY <1>1
  <2>3. /\ left \in Seq(W)
        /\ Len(left) = IF k + 1 <= Len(w) THEN Len(w) - (k + 1) + 1 ELSE 0
        /\ \A i \in 1..(Len(w) - (k + 1) + 1) : left[i] = w[(k + 1) + i - 1]
    BY <2>1, <2>2, SubSeqProperties
  <2> HIDE DEF left
  <2>4. Len(left) = Len(w) - k
    <3>1. Len(left) = IF k + 1 <= Len(w) THEN Len(w) - (k + 1) + 1 ELSE 0
      BY <2>3
    <3> DEFINE m == Len(w)
    <3>2. m \in Nat /\ k \in Nat /\ k <= m
      BY <1>1
    <3>3. Len(left) = IF k + 1 <= m THEN m - (k + 1) + 1 ELSE 0
      BY <3>1
    <3> HIDE DEF m
    <3>4. CASE k + 1 <= m
      <4>1. Len(left) = m - (k + 1) + 1
        BY <3>3, <3>4, Zenon
      <4>2. m - (k + 1) + 1 = m - k
        BY <3>2
      <4>3. QED
        BY <4>1, <4>2, Zenon DEF m
    <3>5. CASE ~(k + 1 <= m)
      <4>1. k = m
        BY <3>2, <3>5
      <4>2. Len(left) = 0
        BY <3>3, <3>5, Zenon
      <4>3. m - k = 0
        BY <3>2, <4>1
      <4>4. QED
        BY <4>2, <4>3, Zenon DEF m
    <3>6. QED
      BY <3>4, <3>5
  <2>5. \A i \in 1..Len(left) : i \in 1..(Len(w) - (k + 1) + 1) /\ (k + 1) + i - 1 = k + i
    BY <1>1, <2>4
  <2>6. QED
    BY <2>3, <2>4, <2>5
<1>3. \A i \in 1..Len(left) : ~Dashed(left[i])
  <2>1. \A j \in 1..Len(w) : ~Dashed(w[j])
    BY <1>1 DEF Plain, ToSet
  <2> HIDE DEF left
  <2>2. \A i \in 1..Len(left) : k + i \in 1..Len(w)
    BY <1>1, <1>2
  <2>3. QED
    BY <1>2, <2>1, <2>2
<1>4. Plain(left)
  <2> HIDE DEF left
  <2>1. DOMAIN left = 1..Len(left)
    BY <1>2
  <2>2. QED
    BY <1>3, <2>1 DEF Plain, ToSet
<1>5. QED
  BY <1>2, <1>4

LEMMA SomeWords == \A p : Len(p) \in 1..3 => p # <<>>
  OBVIOUS

\* What a call of a command leads to: the command, or the default of a bare group.
LEMMA LeadsTo ==
  ASSUME NEW W, NEW w \in Seq(W), Plain(w), NEW c \in AllCommands, IsPrefix(c.path, w),
         Len(w) - Len(c.path) \in c.need..c.most
  PROVE  \E d \in AllCommands, left \in Seq(W) :
           /\ resolveCommand(w) = [command |-> d, args |-> left]
           /\ Plain(left) /\ Len(left) = Len(w) - Len(c.path)
           /\ \/ d = c /\ (c.kind = "group" => c.default = "none")
              \/ /\ c.kind = "group" /\ d.path = Append(c.path, c.default) /\ d.kind = "runs"
                 /\ d.need = 0
<1> DEFINE k == Len(c.path)
           left == SubSeq(w, k + 1, Len(w))
           bare == c.default # "none" /\ (left = <<>> \/ Dashed(left[1]))
<1>1. /\ k \in 1..Len(w) /\ SubSeq(w, 1, k) = c.path
      /\ Max({n \in 0..Len(w) : \A m \in 1..n : SubSeq(w, 1, m) \in Paths}) = k
  BY LongestName
<1>2. c.path # <<>>
  BY <1>1
<1>3. \A d \in AllCommands : d.path # <<>> => CommandAt(d.path) = d
  BY AllOfTheTree DEF CommandAt
<1>4. Len(w) \in Nat /\ DOMAIN w = 1..Len(w) /\ k \in Nat
  BY <1>1
<1>5. left \in Seq(W) /\ Len(left) = Len(w) - k /\ Plain(left)
  <2> HIDE DEF k
  <2>1. k \in Nat /\ k <= Len(w)
    BY <1>1, <1>4
  <2>2. QED
    BY <2>1, RestOfLine
<1>8. resolveCommand(w) =
        [command |-> IF bare THEN CommandAt(Append(c.path, c.default)) ELSE c, args |-> left]
  BY <1>1, <1>2, <1>3 DEF resolveCommand
<1>9. CASE ~bare
  <2>1. c.kind = "group" => c.most = 0 /\ c.need \in Nat
    BY AllOfTheTree DEF Sound
  <2>2. c.kind = "group" => Len(left) = 0
    BY <1>4, <1>5, <2>1
  <2>3. c.kind = "group" => left = <<>>
    <3> HIDE DEF left
    <3>1. left \in Seq(W)
      BY <1>5
    <3>2. QED
      BY <2>2, <3>1
  <2>4. c.kind = "group" => c.default = "none"
    BY <1>9, <2>3
  <2>5. resolveCommand(w) = [command |-> c, args |-> left]
    BY <1>8, <1>9
  <2> HIDE DEF left
  <2>6. QED
    BY <1>5, <2>4, <2>5
<1>10. CASE bare
  <2>1. PICK d \in AllCommands : d.path = Append(c.path, c.default) /\ d.kind = "runs" /\ d.need = 0
    BY <1>10, AllOfTheTree DEF Leads
  <2>2. c.kind = "group"
    BY <1>10, AllOfTheTree DEF Leads
  <2>3. d.path # <<>>
    <3>1. Len(d.path) \in 1..3
      BY AllOfTheTree, Zenon
    <3>2. QED
      BY <3>1, SomeWords
  <2>4. resolveCommand(w) = [command |-> d, args |-> left]
    BY <1>3, <1>8, <1>10, <2>1, <2>3
  <2> HIDE DEF left
  <2>5. QED
    BY <1>5, <2>1, <2>2, <2>4
<1>11. QED
  BY <1>9, <1>10

\* What a command that runs does without its options.
LEMMA PlainRun ==
  ASSUME NEW c, c.kind = "runs", c.path # <<"update">>
  PROVE  LET o == Run(c, <<>>, {}, "full")
         IN /\ o.does \in {"runs", "ui"} /\ o.path = c.path
            /\ c.path # <<"tui">> => o.does = "runs"
<1>1. DOMAIN <<>> = {}
  OBVIOUS
<1>2. ~Unfinished(c.path, <<>>)
  BY <1>1, Zenon DEF Unfinished
<1>3. screenOf(<<>>) = "overview"
  BY <1>1, Zenon DEF screenOf
<1>4. "overview" \in SCREENS
  BY DEF SCREENS
<1>5. \/ Run(c, <<>>, {}, "full") = Outcome("runs", c.path, 0, {})
      \/ c.path = <<"tui">> /\ Run(c, <<>>, {}, "full") = Opens("overview", c.path, {})
  <2>1. c.kind # "stub" /\ "json" \notin {} /\ "full" # "none"
    OBVIOUS
  <2>2. CASE c.path # <<"tui">>
    BY <1>2, <2>1, <2>2 DEF Run
  <2>3. CASE c.path = <<"tui">>
    BY <1>2, <1>3, <1>4, <2>1, <2>3, Zenon DEF Run
  <2>4. QED
    BY <2>2, <2>3
<1>6. /\ Outcome("runs", c.path, 0, {}).does = "runs" /\ Outcome("runs", c.path, 0, {}).path = c.path
      /\ Opens("overview", c.path, {}).does = "ui" /\ Opens("overview", c.path, {}).path = c.path
  BY DEF Outcome, Opens
<1>7. QED
  BY <1>5, <1>6

LEMMA OneWordMore ==
  ASSUME NEW V, NEW p \in Seq(V), NEW x
  PROVE  Len(Append(p, x)) = Len(p) + 1 /\ IsPrefix(p, Append(p, x))
<1> DEFINE U == V \cup {x}
           q == Append(p, x)
           n == Len(p)
<1>1. p \in Seq(U) /\ x \in U /\ n \in Nat
  OBVIOUS
<1> HIDE DEF U
<1>2. q \in Seq(U) /\ Len(q) = n + 1 /\ \A i \in 1..n : q[i] = p[i]
  BY <1>1, AppendProperties
<1> HIDE DEF q
<1>3. SubSeq(q, 1, n) = p
  BY <1>1, <1>2, FirstWords
<1>4. SubSeq(p, 1, n) = p
  BY <1>1, FirstWords
<1>5. n <= Len(q)
  BY <1>1, <1>2
<1>6. QED
  BY <1>2, <1>3, <1>4, <1>5 DEF IsPrefix, q

\* A call with no option, of as many arguments as the command takes.
LEMMA PlainCall ==
  ASSUME NEW W, NEW w \in Seq(W), Plain(w), NEW c \in AllCommands, IsPrefix(c.path, w),
         Len(w) - Len(c.path) \in c.need..c.most, c.path # <<"update">>
  PROVE  LET o == runCli(w, "full")
         IN /\ c.kind = "runs" => o.does \in {"runs", "ui"} /\ o.path = c.path
            /\ c.kind = "stub" => o.does = "error" /\ o.code = 3
            /\ c.kind = "group" => \/ o.does = "help" /\ o.code = 2
                                   \/ o.does = "runs" /\ IsPrefix(c.path, o.path)
<1>1. PICK d \in AllCommands, left \in Seq(W) :
        /\ resolveCommand(w) = [command |-> d, args |-> left]
        /\ Plain(left) /\ Len(left) = Len(w) - Len(c.path)
        /\ \/ d = c /\ (c.kind = "group" => c.default = "none")
           \/ c.kind = "group" /\ d.path = Append(c.path, c.default) /\ d.kind = "runs" /\ d.need = 0
  BY LeadsTo
<1> DEFINE parsed == [at |-> "word", option |-> "none", values |-> <<>>, words |-> Len(left)]
           to == [command |-> d, args |-> left]
           o == runCli(w, "full")
<1>2. splitGlobalFlags(w) = Split("word", {}, w)
  BY PlainSplit
<1>3. w # <<>>
  <2>1. Len(c.path) \in 1..Len(w)
    BY LongestName
  <2>2. QED
    BY <2>1
<1>4. o = OutcomeOf(to, parseInvocation(d, left), {}, "full")
  <2>1. ~opensTui(Split("word", {}, w), "full")
    BY <1>3 DEF opensTui, Split
  <2>2. QED
    BY <1>1, <1>2, <2>1 DEF runCli, Split
<1>5. parseInvocation(d, left) = parsed
  BY <1>1, PlainArguments
<1>6. Sound(c) /\ Sound(d)
  BY AllOfTheTree
<1>7. o = OutcomeOf(to, parsed, {}, "full")
  BY <1>4, <1>5
<1> HIDE DEF o
<1>8. d.kind # "group" /\ d.need <= Len(left) /\ Len(left) <= d.most => o = Run(d, <<>>, {}, "full")
  <2>1. d.need <= Len(left) /\ Len(left) <= d.most => Accepts(d, parsed)
    BY DEF Accepts
  <2>2. QED
    BY <1>7, <2>1 DEF OutcomeOf
<1>9. CASE c.kind # "group"
  <2>1. d = c
    BY <1>1, <1>9
  <2>2. c.need <= Len(left) /\ Len(left) <= c.most
    BY <1>1, <1>6 DEF Sound
  <2>3. o = Run(c, <<>>, {}, "full")
    BY <1>8, <1>9, <2>1, <2>2
  <2>4. c.kind = "stub" => o.does = "error" /\ o.code = 3
    BY <2>3 DEF Run, Outcome
  <2>5. c.kind = "runs" => o.does \in {"runs", "ui"} /\ o.path = c.path
    <3>1. CASE c.kind = "runs"
      <4> HIDE DEF parsed
      <4>1. LET r == Run(c, <<>>, {}, "full") IN r.does \in {"runs", "ui"} /\ r.path = c.path
        BY <3>1, PlainRun, Zenon
      <4>2. QED
        BY <2>3, <4>1
    <3>2. QED
      BY <3>1
  <2>6. QED
    BY <1>9, <2>4, <2>5 DEF o
<1>10. ASSUME c.kind = "group" PROVE left = <<>> /\ Len(left) = 0
  <2>1. c.most = 0 /\ c.need \in Nat
    BY <1>6, <1>10 DEF Sound
  <2>2. Len(left) = 0
    BY <1>1, <2>1
  <2>3. QED
    BY <1>1, <2>2
<1>11. CASE c.kind = "group" /\ d.kind = "group"
  <2>1. o = Outcome("help", d.path, 2, {})
    BY <1>7, <1>10, <1>11 DEF OutcomeOf
  <2>2. o.does = "help" /\ o.code = 2
    BY <2>1 DEF Outcome
  <2>3. QED
    BY <1>11, <2>2 DEF o
<1>12. CASE c.kind = "group" /\ d.kind = "runs"
  <2>1. d.path = Append(c.path, c.default) /\ d.need = 0
    BY <1>1, <1>12
  <2>2. d.most \in Nat
    BY <1>6 DEF Sound
  <2>3. o = Run(d, <<>>, {}, "full")
    BY <1>8, <1>10, <1>12, <2>1, <2>2
  <2>4. PICK V : c.path \in Seq(V) /\ Len(c.path) \in 1..3
    BY AllOfTheTree, Zenon
  <2>5. Len(d.path) = Len(c.path) + 1 /\ IsPrefix(c.path, d.path)
    BY <2>1, <2>4, OneWordMore
  <2>6. d.path # <<"update">> /\ d.path # <<"tui">>
    <3> DEFINE n == Len(c.path)
    <3>1. n \in 1..3 /\ Len(d.path) = n + 1
      BY <2>4, <2>5
    <3> HIDE DEF n
    <3>2. Len(d.path) # 1
      BY <3>1
    <3>3. Len(<<"update">>) = 1 /\ Len(<<"tui">>) = 1
      OBVIOUS
    <3>4. QED
      BY <3>2, <3>3, Zenon
  <2>7. o.does = "runs" /\ o.path = d.path
    <3>1. LET r == Run(d, <<>>, {}, "full") IN r.does = "runs" /\ r.path = d.path
      BY <1>12, <2>6, PlainRun, Zenon
    <3>2. QED
      BY <2>3, <3>1
  <2>8. QED
    BY <1>12, <2>5, <2>7 DEF o
<1>13. QED
  BY <1>1, <1>6, <1>9, <1>11, <1>12 DEF Sound

\* commandRows: every command that help, completion and the Commands screen show, said with as
\* many arguments as it takes and without an option on a terminal, does what they say of it.
THEOREM ScreenSaysWhatTheCliDoes == Spec => []ScreenAgreesWithCli
<1>1. RanALine => ScreenAgreesWithCli
  <2> SUFFICES ASSUME RanALine, ran # NoLine, NEW row \in commandRows, ran.tty = "full",
                      Plain(ran.words), IsPrefix(row.path, ran.words),
                      Len(ran.words) - Len(row.path) \in row.need..row.most,
                      row.path # <<"update">>
               PROVE  LET o == ran.outcome
                      IN /\ row.status = "works" => o.does \in {"runs", "ui"} /\ o.path = row.path
                         /\ row.status = "iteration" => o.does = "error" /\ o.code = 3
                         /\ row.status = "group" => \/ o.does = "help" /\ o.code = 2
                                                    \/ o.does = "runs" /\ IsPrefix(row.path, o.path)
                         /\ row.status # "later"
    BY DEF ScreenAgreesWithCli
  <2>1. PICK c \in AllCommands :
          /\ row.path = c.path /\ row.need = c.need /\ row.most = c.most
          /\ c.kind = "stub" => row.status = IF IsPlanned(c.path) THEN "iteration" ELSE "later"
          /\ c.kind = "group" => row.status = "group"
          /\ c.kind = "runs" => row.status = "works"
    <3> DEFINE Status(c) == CASE c.kind = "stub" -> IF IsPlanned(c.path) THEN "iteration" ELSE "later"
                              [] c.kind = "group" -> "group"
                              [] c.kind = "runs" -> "works"
    <3>1. \E c \in AllCommands :
            row = [path |-> c.path, need |-> c.need, most |-> c.most, status |-> Status(c)]
      BY Zenon DEF commandRows, IsPlanned
    <3> HIDE DEF Status
    <3>2. PICK c \in AllCommands :
            /\ row.path = c.path /\ row.need = c.need /\ row.most = c.most /\ row.status = Status(c)
      BY <3>1
    <3>3. /\ c.kind = "stub" => Status(c) = IF IsPlanned(c.path) THEN "iteration" ELSE "later"
          /\ c.kind = "group" => Status(c) = "group"
          /\ c.kind = "runs" => Status(c) = "works"
      BY DEF Status
    <3>4. QED
      BY <3>2, <3>3, Zenon
  <2>2. Sound(c)
    BY AllOfTheTree
  <2>3. \/ c.kind = "runs" /\ row.status = "works"
        \/ c.kind = "stub" /\ row.status = "iteration"
        \/ c.kind = "group" /\ row.status = "group"
    <3>1. c.kind \in {"runs", "stub", "group"} /\ (c.kind = "stub" => IsPlanned(c.path))
      BY <2>2 DEF Sound
    <3>2. CASE c.kind = "runs"
      BY <2>1, <3>2
    <3>3. CASE c.kind = "stub"
      BY <2>1, <3>1, <3>3
    <3>4. CASE c.kind = "group"
      BY <2>1, <3>4
    <3>5. QED
      BY <3>1, <3>2, <3>3, <3>4
  <2>4. ran.words \in Seq(STRING) /\ ran.outcome = runCli(ran.words, "full")
    <3>1. ran.words \in Lines /\ ran.outcome = runCli(ran.words, ran.tty)
      BY DEF RanALine
    <3>2. QED
      BY <3>1, ScreensAssumption DEF ScreensAssumption
  <2> DEFINE o == runCli(ran.words, "full")
  <2>5. /\ c.kind = "runs" => o.does \in {"runs", "ui"} /\ o.path = c.path
        /\ c.kind = "stub" => o.does = "error" /\ o.code = 3
        /\ c.kind = "group" => \/ o.does = "help" /\ o.code = 2
                               \/ o.does = "runs" /\ IsPrefix(c.path, o.path)
    BY <2>1, <2>4, PlainCall
  <2> HIDE DEF o
  <2>6. ran.outcome = o
    BY <2>4 DEF o
  <2>7. QED
    BY <2>1, <2>3, <2>5, <2>6
<1>2. QED
  BY <1>1, RanALineInductive, PTL
=============================================================================
