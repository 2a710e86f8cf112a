----------------------------- MODULE PickerLayout -----------------------------
(***************************************************************************)
(* How the picker divides the terminal (internal/picker/view.go and        *)
(* preview.go), in rows and columns; what is drawn into them is left out.  *)
(* Rows are counted from 1 and a window of a list is [first, last].        *)
(***************************************************************************)
EXTENDS Integers, FiniteSets

Smaller(a, b) == IF a <= b THEN a ELSE b
Larger(a, b)  == IF a >= b THEN a ELSE b

CloseListMin    == 78
CloseListMax    == 100
ClosePreviewMin == 85
CloseSideBySideMin == CloseListMin + ClosePreviewMin

SideBySideMin(mode) == IF mode = "close" THEN CloseSideBySideMin ELSE 120

\* The footer is one row, cut to the width.
BodyHeight(size) == Larger(5, size.height - 1)

StacksPanel(mode, size) == size.width >= 80 /\ size.width < SideBySideMin(mode)

PanelFrameHeight(mode, size) ==
  LET body == BodyHeight(size) IN IF StacksPanel(mode, size) THEN body - body \div 2 ELSE body

PreviewInnerHeight(mode, size) == Larger(1, PanelFrameHeight(mode, size) - 2)

\* What the panel leaves to the list, and to the tree beside it.
ListHeight(mode, size) ==
  IF StacksPanel(mode, size) THEN BodyHeight(size) - PanelFrameHeight(mode, size) ELSE BodyHeight(size)

CloseListWidth(width) == Smaller(CloseListMax, Larger(CloseListMin, (width * 2) \div 5))

\* 0 columns: not shown, or shown under the list.
PaneWidths(mode, width) ==
  IF width < SideBySideMin(mode)
  THEN LET list == IF width < 80 \/ mode = "close" THEN width ELSE Larger(28, width \div 3)
       IN  [list |-> list, tree |-> width - list, preview |-> 0]
  ELSE LET list == IF mode = "close" THEN CloseListWidth(width) ELSE width \div 4
           tree == IF mode = "close" THEN 0 ELSE width \div 3
       IN  [list |-> list, tree |-> tree, preview |-> width - list - tree]

\* No tree beside the list of a terminal narrower than that.
DrawsTree(mode, size) == mode = "snapshot" /\ size.width >= 80

-----------------------------------------------------------------------------
\* Mutant: the cursor one row lower than the middle.
ScrollWindowOffByOne(cursor, total, rows) ==
  IF total <= rows THEN [first |-> 1, last |-> total]
  ELSE LET first == Larger(1, cursor + 1 - rows \div 2)
       IN  IF first + rows - 1 > total THEN [first |-> total - rows + 1, last |-> total]
           ELSE [first |-> first, last |-> first + rows - 1]

\* The rows of a list shown, with the cursor in the middle where possible.
ScrollWindow(cursor, total, rows) ==
  IF total <= rows THEN [first |-> 1, last |-> total]
  ELSE LET first == Larger(1, cursor - rows \div 2)
       IN  IF first + rows - 1 > total THEN [first |-> total - rows + 1, last |-> total]
           ELSE [first |-> first, last |-> first + rows - 1]

\* Rows inside a list frame, and what the count of hidden entries leaves.
FrameRows(height) == Larger(1, height - 2)
RowBudget(height, hidden) ==
  LET rows == FrameRows(height) IN IF hidden > 0 /\ rows > 1 THEN rows - 1 ELSE rows

\* The close list: the header of the cursor's section, once it is above the
\* window, takes the first row.
CloseListWindow(cursor, total, header, budget) ==
  LET window == ScrollWindow(cursor, total, budget)
  IN  IF header >= window.first \/ budget < 2
      THEN [pin |-> 0, window |-> window]
      ELSE [pin |-> header, window |-> ScrollWindow(cursor, total, budget - 1)]

\* The tree: a title and the border around the rows.
TreeRows(height) == Larger(1, height - 3)
TreeWindow(highlight, total, height) == ScrollWindow(highlight, total, TreeRows(height))

\* The line of its frame on which a row of a window comes, below the border
\* and so many other lines.  A frame has as many lines as it is high: what
\* would come below is cut off.
FrameLine(above, window, index) == 1 + above + (index - window.first + 1)

-----------------------------------------------------------------------------
\* The lines of a text shown in so many rows, scrolled up from its end.
PreviewWindow(total, height, scroll) ==
  LET end == Smaller(total, Larger(0, total - scroll))
  IN  [first |-> Larger(0, end - height) + 1, last |-> end]

Overflow(total, height) == Larger(0, total - height)

PaneMapHintHeight == 7

\* A preview with the map of the window above it, where there is room.
HintFits(inner) == inner >= PaneMapHintHeight + 1 + 6
PaneScrollbackHeight(inner, hint) ==
  IF hint THEN Larger(1, inner - (PaneMapHintHeight + 1)) ELSE inner

CloseHeaderLines == 2

\* The rows of each pane's block, a label bar included: two where there is
\* but a note to show, else an even share of what these leave.
CloseBlockHeights(fixed, body) ==
  LET blocks   == Smaller(Cardinality(DOMAIN fixed), body \div 2)
      shown    == 1 .. blocks
      flexible == {i \in shown : ~fixed[i]}
      left     == body - 2 * Cardinality(shown \ flexible)
      base     == left \div Cardinality(flexible)
      extra    == left % Cardinality(flexible)
      before(i) == Cardinality({j \in flexible : j < i})
  IN  [i \in shown |-> IF fixed[i] THEN 2 ELSE IF before(i) < extra THEN base + 1 ELSE base]

\* The rows that blocks of these heights take, one under the other.
BlockRows(blocks) == UNION {{i} \X (1 .. blocks[i]) : i \in DOMAIN blocks}
=============================================================================
