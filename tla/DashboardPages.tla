--------------------------- MODULE DashboardPages ---------------------------
(***************************************************************************)
(* How Daisen's dashboard divides the components that match the filter     *)
(* into pages: the grid of widgets, the widgets of a page and the buttons  *)
(* that lead to other pages.                                               *)
(***************************************************************************)
EXTENDS Integers, Sequences

CONSTANTS
    MaxWidgets,     \* widgets on a page (16 in the code)
    NaN             \* 0 / 0: every comparison with it is false

ASSUME PagesAssumption == MaxWidgets \in 1..16 /\ NaN \notin Int

\* _resetNumRowCol: number of widgets -> rows and columns.
rowColTable ==
    << <<1, 1>>, <<2, 1>>, <<2, 2>>, <<2, 2>>, <<2, 3>>, <<2, 3>>, <<3, 3>>,
       <<3, 3>>, <<3, 3>>, <<3, 4>>, <<3, 4>>, <<3, 4>>, <<4, 4>>, <<4, 4>>,
       <<4, 4>>, <<4, 4>> >>

\* _filter: the cells of the grid when n components match.
Cells(n) == LET w == IF n > MaxWidgets THEN MaxWidgets ELSE n
            IN  IF w = 0 THEN 0 ELSE rowColTable[w][1] * rowColTable[w][2]

\* _addPageButtons: the division is rounded up; it is 0 / 0 without a match.
numPages(n, cells) == IF cells = 0 THEN NaN ELSE (n + cells - 1) \div cells

\* Mutant: the last page but one is treated like the pages before it.
OffsetMutant(curr, pages) ==
    IF pages # NaN /\ curr = pages - 1 THEN -4
    ELSE IF curr <= 1 THEN -curr ELSE -2

\* The numbers on the buttons and, with Prev and Next, where they lead.
Offset(curr, pages) ==
    CASE pages # NaN /\ curr = pages - 1 -> -4
      [] pages # NaN /\ curr = pages - 2 -> -3
      [] OTHER -> IF curr <= 1 THEN -curr ELSE -2

PageButtons(curr, pages) ==
    {p \in {curr + i + Offset(curr, pages) : i \in 0..4} :
        ~(p < 0) /\ (pages # NaN => p < pages)}

PageTargets(curr, pages) ==
    PageButtons(curr, pages)
      \cup (IF curr > 0 THEN {curr - 1} ELSE {})
      \cup (IF pages # NaN /\ curr < pages - 1 THEN {curr + 1} ELSE {})

\* _renderPage: slice(startIndex, endIndex).
PageOf(names, curr, cells) ==
    LET end == IF (curr + 1) * cells < Len(names) THEN (curr + 1) * cells
               ELSE Len(names)
    IN  SubSeq(names, curr * cells + 1, end)
=============================================================================
