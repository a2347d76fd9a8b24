------------------------------- MODULE RowWindow -------------------------------
(***************************************************************************)
(* computeRowWindow (src/tui/row-window.ts): the slice of a list that fits *)
(* the screen, with the cursor's row in it. TuiScreens uses it for the     *)
(* Config and the Commands screen.                                         *)
(***************************************************************************)
EXTENDS Integers

\* The row the window is built round; a cursor outside the list is taken back into it.
RowAt(total, cursor) ==
  IF cursor < 0 THEN 0 ELSE IF cursor > total - 1 THEN total - 1 ELSE cursor

RowSize(maxRows) == IF maxRows < 1 THEN 1 ELSE maxRows

RowStart(total, at, size) ==
  IF total <= size \/ at < size THEN 0
  ELSE IF at - size + 1 < total - size THEN at - size + 1 ELSE total - size

RowWindow(total, cursor, maxRows) ==
  IF total <= 0 THEN [start |-> 0, count |-> 0, before |-> 0, after |-> 0]
  ELSE LET size == RowSize(maxRows)
           start == RowStart(total, RowAt(total, cursor), size)
           count == IF size < total - start THEN size ELSE total - start
           after == total - start - count
       IN [start |-> start, count |-> count, before |-> start,
           after |-> IF after > 0 THEN after ELSE 0]
=============================================================================
