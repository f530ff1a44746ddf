------------------------------ MODULE DaisenApp ------------------------------
(***************************************************************************)
(* Daisen, the browser application that shows a recorded trace.  App looks *)
(* at the path of the URL when a document is loaded and on every popstate: *)
(* the dashboard or the task page takes over.  The way from the dashboard  *)
(* to the task page is the title of a widget, which loads a new document.  *)
(***************************************************************************)
EXTENDS DaisenTaskPage, DaisenDashboard

CONSTANT
    Entries     \* the URLs the application is opened with

\* The URLs of the application: /task, /component and /dashboard.
AnyRange == Ranges \cup {NoRange}
TaskUrls == [page : {"task"}, key : Tasks \cup {NoTask}, range : AnyRange]
ComponentUrls == [page : {"component"}, key : Range(Components), range : AnyRange]
DashboardUrls == [page : {"dashboard"}, number : Nat, filter : Filters,
                  axes : [Sides -> Axes], range : AnyRange]

ASSUME AppAssumption ==
    /\ Where \in [Tasks -> Range(Components)]
    /\ Entries \subseteq TaskUrls \cup ComponentUrls \cup DashboardUrls

vars == <<browserVars, taskPageVars, dashVars>>

\* route, for the document of an entry.
Loaded(e) ==
    \/ e.page = "dashboard" /\ DashboardInit /\ TaskPageAbsent
    \/ e.page # "dashboard" /\ TaskPageInit(e) /\ DashboardAbsent

Init ==
    /\ patient \in BOOLEAN
    /\ pointer = "up" /\ gestures = 0
    /\ \E e \in Entries : nav = Opened(e) /\ Loaded(e)

\* _createTitle: a click on the title of a widget opens its component in the
\* range of the widget.  The entries of the document it leaves load that
\* document anew and are left out.
TitleClick(k) ==
    LET e == [ComponentUrl(widgets[k].name) EXCEPT !.range = widgets[k].range]
    IN  /\ Gesture(DashboardAtRest)
        /\ nav' = Opened(e)
        /\ page' = RoutedPage(e)
        /\ calls' = <<RouteCall(e)>> /\ handlers' = <<NewHandler>>
        /\ dash' = NewDashboard
        /\ widgets' = <<>> /\ fetches' = EmptyBag /\ orphans' = EmptyBag
        /\ UNCHANGED <<taskView, compView, colors>>

OnDashboard == Url.page = "dashboard"

Next ==
    \/ OnDashboard /\ DashboardNext /\ UNCHANGED taskPageVars
    \/ OnDashboard /\ \E k \in DOMAIN widgets : TitleClick(k)
    \/ ~OnDashboard /\ TaskPageNext /\ UNCHANGED dashVars

Spec == Init /\ [][Next]_vars

-----------------------------------------------------------------------------
(* Properties *)

\* On a page at rest the URL is what is shown, so that it can be kept and
\* opened again: for a user who waits for the page and, on the dashboard,
\* switches axes only where there are widgets (dashboard.ts:261).
TaskPageShowsUrl == ~OnDashboard => TaskPageIsUrl
DashboardShowsUrl == OnDashboard => DashboardIsUrl
=============================================================================
