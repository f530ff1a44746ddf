--------------------------- MODULE DaisenTaskPage ---------------------------
(***************************************************************************)
(* Daisen's task page, which shows either a task with its parent, its      *)
(* subtasks and the tasks of the same location, or the tasks of one        *)
(* component.  App routes the URL to the page; showing a task takes a      *)
(* chain of requests (the task and its subtasks, the parent, the location) *)
(* with an await between them, and many chains can be under way: one per   *)
(* click, per Back or Forward, per shift of the time range.  Each commits  *)
(* to the page what it has gathered when its last answer comes.            *)
(***************************************************************************)
EXTENDS DaisenBrowser, SequencesExt

CONSTANTS
    Tasks,          \* ids of tasks
    Sim,            \* the task of kind "Simulation"
    ParentOf,       \* task -> its parent, or NoTask
    Where,          \* task -> component
    KindOf,         \* task -> its kind
    RangeOf,        \* task -> the range _updateTimeAxisAccordingToTask gives
    MaxCalls,       \* bound: chains of requests under way
    NoTask

ASSUME TaskPageAssumption ==
    /\ Sim \in Tasks /\ SimRange \in Ranges
    /\ ParentOf \in [Tasks -> Tasks \cup {NoTask}]
    /\ RangeOf \in [Tasks -> Ranges]
    /\ NoTask \notin Tasks /\ NoRange \notin Ranges

VARIABLES
    page,       \* TaskPage: mode, componentName, currTasks.task, time range
    taskView,   \* TaskView: the task drawn, where its bars are
    compView,   \* ComponentView: the component drawn, where its bars are
    colors,     \* TaskColorCoder: the kinds that have a color
    calls,      \* the chains of requests under way
    handlers    \* the MouseEventHandlers registered on the left column

pageVars == <<page, taskView, compView, colors>>
taskPageVars == <<page, taskView, compView, colors, calls, handlers>>

\* The tasks each view draws.
Family(t) == IF t = NoTask THEN {}
             ELSE {t} \cup {s \in Tasks : ParentOf[s] = t}
                      \cup ({ParentOf[t]} \ {NoTask})
At(c) == {t \in Tasks : Where[t] = c}
Kinds(ts) == {KindOf[t] : t \in ts}

\* A URL /task?id=key or /component?name=key, with or without a time range.
TaskUrl(key) == [page |-> "task", key |-> key, range |-> NoRange]
ComponentUrl(key) == [page |-> "component", key |-> key, range |-> NoRange]

\* A chain of requests: what it waits for, what it is about and what it
\* has captured.
Call(wait, key, keep, range) ==
    [wait |-> wait, key |-> key, keep |-> keep, range |-> range]

\* Bars move to where the axis was when they were drawn in a transition of
\* 300 ms (TaskRenderer.render).
Drawn(view, what, range) ==
    [view EXCEPT !.shows = what, !.target = range, !.moving = TRUE]

\* updateXAxis: the bars jump to the axis; a transition goes on.
Placed(view, range) == [view EXCEPT !.placed = range]

-----------------------------------------------------------------------------
(* App: routes.  Every visit registers one more MouseEventHandler. *)

\* The first request of _showTaskPage and of _showComponentPage.
RouteCall(e) ==
    CASE e.page = "task" /\ e.key = NoTask -> Call("simulation", NoTask, FALSE, NoRange)
      [] e.page = "task" /\ e.key # NoTask -> Call("find", e.key, FALSE, e.range)
      [] e.page = "component" /\ e.range = NoRange ->
            Call("span", e.key, FALSE, NoRange)
      [] e.page = "component" /\ e.range # NoRange ->
            Call("component", e.key, FALSE, e.range)

\* setTimeRange without a reload.
Shifted(range) ==
    /\ page' = [page EXCEPT !.range = range]
    /\ taskView' = Placed(taskView, range)
    /\ compView' = Placed(compView, range)

\* route: a component with a range is shown at once.
routeTaskPage(e) ==
    /\ Len(calls) < MaxCalls
    /\ handlers' = Append(handlers, NewHandler)
    /\ calls' = Append(calls, RouteCall(e))
    /\ IF e.page = "component" /\ e.range # NoRange
       THEN /\ page' = [page EXCEPT !.range = e.range, !.mode = "component",
                                    !.comp = e.key]
            /\ taskView' = Placed(taskView, e.range)
            /\ compView' = Placed(compView, e.range)
       ELSE UNCHANGED <<page, taskView, compView>>
    /\ UNCHANGED colors

\* The first part of showTask, up to its first await.
showTask(id, keep) == Call("task", id, keep, NoRange)

\* /task without an id: the simulation is found, gets an entry of its own
\* in the history and is shown.
SimulationAnswered(i) ==
    /\ calls[i].wait = "simulation" /\ HasRoom
    /\ nav' = pushState(nav, TaskUrl(Sim))
    /\ calls' = [calls EXCEPT ![i] = showTask(Sim, FALSE)]
    /\ page' = [page EXCEPT !.mode = "task"]
    /\ UNCHANGED <<taskView, compView, colors, handlers, patient, pointer, gestures>>

\* /task?id=...: the task is found and shown, in the range of the URL of
\* the visit if it has one.
FindAnswered(i) ==
    LET c == calls[i] IN
    /\ c.wait = "find"
    /\ calls' = [calls EXCEPT ![i] = showTask(c.key, c.range # NoRange)]
    /\ page' = [page EXCEPT !.mode = "task",
                            !.range = IF c.range = NoRange THEN @ ELSE c.range]
    /\ taskView' = IF c.range = NoRange THEN taskView ELSE Placed(taskView, c.range)
    /\ compView' = IF c.range = NoRange THEN compView ELSE Placed(compView, c.range)
    /\ UNCHANGED <<colors, handlers, browserVars>>

\* /component?name=... without a range: the range of the simulation is
\* taken.  The entry current by then is replaced by the URL of the visit,
\* with a parameter "endTime" no one reads: as good as without a range.
SpanAnswered(i) ==
    LET c == calls[i] IN
    /\ c.wait = "span"
    /\ nav' = replaceState(nav, ComponentUrl(c.key))
    /\ calls' = [calls EXCEPT ![i] = Call("component", c.key, FALSE, SimRange)]
    /\ page' = [page EXCEPT !.range = SimRange, !.mode = "component",
                            !.comp = c.key]
    /\ taskView' = Placed(taskView, SimRange)
    /\ compView' = Placed(compView, SimRange)
    /\ UNCHANGED <<colors, handlers, patient, pointer, gestures>>

-----------------------------------------------------------------------------
(* TaskPage.showTask and showComponent: what follows each await *)

\* The task and its subtasks have come: unless the view is to be kept the
\* axis is that of the task from now on.  A task without a parent goes on
\* to the location, in the range the page has at this moment.
TaskAnswered(i) ==
    LET c == calls[i]
        range == IF c.keep THEN page.range ELSE RangeOf[c.key]
    IN  /\ c.wait = "task"
        /\ page' = [page EXCEPT !.range = range]
        /\ calls' = [calls EXCEPT ![i] =
                        IF ParentOf[c.key] = NoTask
                        THEN Call("where", c.key, c.keep, range)
                        ELSE Call("parent", c.key, c.keep, NoRange)]
        /\ UNCHANGED <<taskView, compView, colors, handlers, browserVars>>

ParentAnswered(i) ==
    LET c == calls[i] IN
    /\ c.wait = "parent"
    /\ calls' = [calls EXCEPT ![i] = Call("where", c.key, c.keep, page.range)]
    /\ UNCHANGED <<pageVars, handlers, browserVars>>

\* Mutant: the component view is drawn in the range of the request.
WhereAnsweredMutant(i) ==
    LET t == calls[i].key IN
    /\ calls[i].wait = "where"
    /\ calls' = RemoveAt(calls, i)
    /\ page' = [page EXCEPT !.curr = t]
    /\ colors' = Kinds(Family(t) \cup At(Where[t]))
    /\ taskView' = Drawn(taskView, t, page.range)
    /\ compView' = [Drawn(compView, Where[t], calls[i].range)
                     EXCEPT !.data = calls[i].range]
    /\ UNCHANGED <<handlers, browserVars>>

\* Everything has come: both views and the colors are drawn anew.
WhereAnswered(i) ==
    LET t == calls[i].key IN
    /\ calls[i].wait = "where"
    /\ calls' = RemoveAt(calls, i)
    /\ page' = [page EXCEPT !.curr = t]
    /\ colors' = Kinds(Family(t) \cup At(Where[t]))
    /\ taskView' = Drawn(taskView, t, page.range)
    /\ compView' = [Drawn(compView, Where[t], page.range)
                     EXCEPT !.data = calls[i].range]
    /\ UNCHANGED <<handlers, browserVars>>

\* The tasks of a component have come: the colors are coded for them alone,
\* the task view stays as it was.
ComponentAnswered(i) ==
    LET c == calls[i] IN
    /\ c.wait = "component"
    /\ calls' = RemoveAt(calls, i)
    /\ colors' = Kinds(At(c.key))
    /\ compView' = [Drawn(compView, c.key, page.range) EXCEPT !.data = c.range]
    /\ UNCHANGED <<page, taskView, handlers, browserVars>>

-----------------------------------------------------------------------------
(* Animation, layout and the user *)

\* A transition ends: the bars are where they were to go.
TransitionEnds ==
    \/ /\ taskView.moving
       /\ taskView' = [taskView EXCEPT !.moving = FALSE, !.placed = taskView.target]
       /\ UNCHANGED <<page, compView, colors, calls, handlers, browserVars>>
    \/ /\ compView.moving
       /\ compView' = [compView EXCEPT !.moving = FALSE, !.placed = compView.target]
       /\ UNCHANGED <<page, taskView, colors, calls, handlers, browserVars>>

TaskPageAtRest ==
    /\ calls = <<>>
    /\ ~taskView.moving /\ ~compView.moving
    /\ \A i \in DOMAIN handlers : Idle(handlers[i])

\* The window is resized: both views are drawn again (layout), the task
\* view first.  Its renderer looks the color of every bar up: when one has
\* none the exception leaves layout.
TaskPageLayout ==
    /\ Gesture(TaskPageAtRest)
    /\ taskView' = IF taskView.shows = NoTask THEN taskView
                   ELSE Drawn(taskView, taskView.shows, page.range)
    /\ compView' = IF \/ compView.shows = NoTask
                      \/ ~(Kinds(Family(taskView.shows)) \subseteq colors)
                   THEN compView
                   ELSE Drawn(compView, compView.shows, page.range)
    /\ UNCHANGED <<page, colors, calls, handlers, nav>>

\* A click on a bar of either view; the press and the release before it end
\* any drag.
BarClick(t) ==
    /\ Gesture(TaskPageAtRest) /\ pointer = "up"
    /\ HasRoom /\ Len(calls) < MaxCalls
    /\ t \in Family(taskView.shows) \cup At(compView.shows)
    /\ nav' = pushState(nav, TaskUrl(t))
    /\ calls' = Append(calls, showTask(t, FALSE))
    /\ page' = [page EXCEPT !.mode = "task"]
    /\ handlers' = [i \in DOMAIN handlers |->
                      React(React(handlers[i], "mousedown"), "mouseup")]
    /\ UNCHANGED <<taskView, compView, colors>>

TaskPageTravel ==
    /\ Gesture(TaskPageAtRest)
    /\ Travel
    /\ routeTaskPage(nav'.entries[nav'.pos])

\* What a reload asks for again: showTask fails before the first task is
\* there.
Again ==
    IF page.mode = "component" THEN Call("component", page.comp, FALSE, page.range)
    ELSE showTask(page.curr, TRUE)
NothingToReload == page.mode = "task" /\ page.curr = NoTask
Reasked(n) == IF NothingToReload THEN calls ELSE calls \o [k \in 1..n |-> Again]

\* Mutant: the URL keeps its range.
reloadMutant(n) ==
    /\ Len(calls) + n <= MaxCalls
    /\ calls' = Reasked(n)
    /\ UNCHANGED nav

\* setTimeRange with a reload: the URL takes the range, and what is shown
\* is asked for again; n handlers ask n times.
reload(n) ==
    /\ Len(calls) + n <= MaxCalls
    /\ nav' = IF n = 0 THEN nav
              ELSE replaceState(nav, [Url EXCEPT !.range = page.range])
    /\ calls' = Reasked(n)

\* A mouse or touch event on the left column, seen by every handler.  A
\* patient user goes on with what has begun while nothing is under way.
Pointer(e) ==
    LET shifting == {i \in DOMAIN handlers : Shifts(handlers[i], e)}
        reloading == {i \in DOMAIN handlers : Reloads(handlers[i], e)}
        begun == \E i \in DOMAIN handlers : ~Idle(handlers[i])
    IN  /\ Acts(TaskPageAtRest \/ (begun /\ calls = <<>>))
        /\ PointerMoves(e)
        /\ handlers' = [i \in DOMAIN handlers |-> React(handlers[i], e)]
        /\ IF shifting = {} THEN UNCHANGED <<page, taskView, compView>>
           ELSE \E r \in ShiftedRanges : Shifted(r)
        /\ reload(Cardinality(reloading))
        /\ UNCHANGED colors

\* The timer of one handler.
ScrollTimer(i) ==
    /\ handlers[i].timer
    /\ handlers' = [handlers EXCEPT ![i] = React(@, "timer")]
    /\ reload(1)
    /\ UNCHANGED <<pageVars, patient, pointer, gestures>>

-----------------------------------------------------------------------------
(* The page *)

EmptyView == [shows |-> NoTask, placed |-> NoRange, target |-> NoRange,
              moving |-> FALSE]
EmptyComponentView == [shows |-> NoTask, placed |-> NoRange,
                       target |-> NoRange, moving |-> FALSE, data |-> NoRange]
NewPage == [mode |-> "task", comp |-> NoTask, curr |-> NoTask, range |-> NoRange]

\* The document of a URL is loaded: start routes it.
RoutedPage(e) ==
    IF e.page = "component" /\ e.range # NoRange
    THEN [NewPage EXCEPT !.mode = "component", !.comp = e.key, !.range = e.range]
    ELSE NewPage

TaskPageInit(e) ==
    /\ page = RoutedPage(e)
    /\ taskView = EmptyView /\ compView = EmptyComponentView /\ colors = {}
    /\ calls = <<RouteCall(e)>>
    /\ handlers = <<NewHandler>>

\* The document is that of the dashboard: nothing of the page is there.
TaskPageAbsent ==
    /\ page = NewPage
    /\ taskView = EmptyView /\ compView = EmptyComponentView /\ colors = {}
    /\ calls = <<>> /\ handlers = <<>>

TaskPageAnswered(i) ==
    \/ SimulationAnswered(i) \/ FindAnswered(i) \/ SpanAnswered(i)
    \/ TaskAnswered(i) \/ ParentAnswered(i) \/ WhereAnswered(i)
    \/ ComponentAnswered(i)

TaskPageNext ==
    \/ \E i \in DOMAIN calls : TaskPageAnswered(i)
    \/ TransitionEnds
    \/ \E i \in DOMAIN handlers : ScrollTimer(i)
    \/ TaskPageLayout
    \/ \E t \in Tasks : BarClick(t)
    \/ TaskPageTravel
    \/ \E e \in PointerEvents : Pointer(e)

-----------------------------------------------------------------------------
(* Properties *)

\* On a page at rest the URL is what is shown: a task, in its own range or
\* in that of the URL, with the tasks of its location, or a component in
\* the range of the URL or of the simulation; and the tasks on screen are
\* those of the range on the axis.  For a user who waits for the page.
ShownIsUrl(e) ==
    /\ page.mode = e.page
    /\ e.page = "task" =>
        /\ page.curr = e.key /\ taskView.shows = e.key
        /\ compView.shows = Where[e.key]
        /\ page.range = IF e.range = NoRange THEN RangeOf[e.key] ELSE e.range
    /\ e.page = "component" =>
        /\ page.comp = e.key /\ compView.shows = e.key
        /\ page.range = IF e.range = NoRange THEN SimRange ELSE e.range
    /\ compView.data = page.range

TaskPageIsUrl == patient /\ TaskPageAtRest => ShownIsUrl(Url)

\* Whatever the user does and in whatever order the answers come: on a page
\* at rest the bars of the component view are where its axis says, though
\* transitions end 300 ms after the axis they were made for may have gone.
BarsFollowAxis ==
    TaskPageAtRest /\ compView.shows # NoTask => compView.placed = page.range

=============================================================================
