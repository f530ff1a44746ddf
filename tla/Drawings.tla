------------------------------ MODULE Drawings ------------------------------
(***************************************************************************)
(* The computations behind what the two web pages draw, one at a time: the *)
(* bars of Daisen's component view, the call graph of a profile, and the   *)
(* page buttons of the dashboard as the user goes from page to page.       *)
(***************************************************************************)
EXTENDS TaskBars, ProfileNetwork, DashboardPages

CONSTANT MaxMatches     \* bound: components that match the filter

ASSUME MatchesAssumption == MaxMatches \in Nat

VARIABLE pager          \* Dashboard._currPage and the number of pages

vars == <<barVars, networkVars, pager>>

NoBars ==
    /\ tasks = <<>> /\ height = 0 /\ row = <<>> /\ dim = <<>>
    /\ placed = {} /\ tallest = 0
NoSamples == samples = <<>> /\ EmptyNetwork
NoPager == [curr |-> 0, pages |-> NaN]

PagerInit ==
    \E n \in 1..MaxMatches :
        pager = [curr |-> 0, pages |-> numPages(n, Cells(n))]

switchPage(p) ==
    /\ pager.pages # NaN
    /\ p \in PageTargets(pager.curr, pager.pages)
    /\ pager' = [pager EXCEPT !.curr = p]

Init ==
    \/ BarsInit /\ NoSamples /\ pager = NoPager
    \/ NoBars /\ NetworkInit /\ pager = NoPager
    \/ NoBars /\ NoSamples /\ PagerInit

Next ==
    \/ BarsNext /\ UNCHANGED <<networkVars, pager>>
    \/ AddSample /\ UNCHANGED <<barVars, pager>>
    \/ \E p \in 0..MaxMatches : switchPage(p) /\ UNCHANGED <<barVars, networkVars>>

Spec == Init /\ [][Next]_vars

-----------------------------------------------------------------------------
(* Properties *)

\* Wherever the user has gone, the page exists, as many as five buttons show
\* existing pages, and the current page and its neighbours are among them.
PagerShowsNeighbours ==
    LET curr == pager.curr
        pages == pager.pages
        shown == PageButtons(curr, pages)
    IN  pages # NaN =>
        /\ curr \in 0..(pages - 1)
        /\ shown \subseteq 0..(pages - 1)
        /\ Cardinality(shown) = IF pages < 5 THEN pages ELSE 5
        /\ {curr - 1, curr, curr + 1} \cap (0..(pages - 1)) \subseteq shown
=============================================================================
