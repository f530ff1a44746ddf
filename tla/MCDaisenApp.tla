---------------------------- MODULE MCDaisenApp ----------------------------
(***************************************************************************)
(* A trace with a simulation that has a task with a subtask, in two        *)
(* components; a dashboard of two widgets a page, and filters that match   *)
(* every component, one and none.                                          *)
(***************************************************************************)
EXTENDS DaisenApp

CONSTANTS sim, t1, t2, c1, c2, c3, r1, r2, all, some, none

TheTasks == {sim, t1, t2}
TheParents == (sim :> NoTask) @@ (t1 :> sim) @@ (t2 :> t1)
ThePlaces == (sim :> c1) @@ (t1 :> c1) @@ (t2 :> c2)
TheKinds == [t \in TheTasks |-> t]
TheRanges == (sim :> r2) @@ (t1 :> r1) @@ (t2 :> r2)
TheComponents == <<c1, c2, c3>>
TheMatches == (all :> TheComponents) @@ (some :> <<c2>>) @@ (none :> <<>>)
Bounds == (TRUE :> 5) @@ (FALSE :> 2)
TheEntries ==
    {TaskUrl(NoTask), [TaskUrl(t1) EXCEPT !.range = r2],
     ComponentUrl(c1), [ComponentUrl(c2) EXCEPT !.range = r2],
     DashboardUrl(0, all, [p |-> Primary, s |-> Secondary], NoRange)}
=============================================================================
