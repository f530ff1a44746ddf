---------------------------- MODULE InspectPanes ----------------------------
(***************************************************************************)
(* The three panes of AkitaRTM.  The left one lists the components; a      *)
(* click makes a ComponentDetailView, which asks for the component and, on *)
(* the answer, fills the central pane with its fields and the right pane   *)
(* with a diagram of its traffic that refreshes itself.  The right pane is *)
(* also the place of the HangAnalyzer's list of buffers, which refreshes   *)
(* itself too, and of the profile of the simulation.  Nothing but the      *)
(* events of one browser thread orders them: clicks, timers and answers,   *)
(* which come in any order.                                                *)
(*                                                                         *)
(* An answer for an element that has left the page changes nothing a user  *)
(* sees, so requests of such elements are dropped.  The list of buffers is *)
(* an exception: its table is looked up when the answer comes.  Equal      *)
(* requests that are under way at once count as one.                       *)
(***************************************************************************)
EXTENDS Naturals, Sequences

CONSTANTS
    Comps,          \* the names of the components
    Fields,         \* the expandable fields of a component
    Parent,         \* field -> the field that holds it, or itself
    Links,          \* pairs of ports with a unit: the keys of linkValues
    Unit,           \* link -> "Byte" or "Msg"
    Reports,        \* answers on the traffic: link -> value, for some links
    MaxTotal,       \* bound: the largest accumulated value
    MaxViews,       \* bound: components opened
    MaxClicks       \* bound: all clicks

ASSUME PanesAssumption ==
    /\ Parent \in [Fields -> Fields]
    /\ \A f \in Fields : Parent[Parent[f]] = Parent[f]   \* two levels of fields
    /\ Unit \in [Links -> {"Byte", "Msg"}]
    /\ \A r \in Reports : DOMAIN r \subseteq Links /\ r \in [DOMAIN r -> Nat]

VARIABLES
    tree,       \* the domain in the left pane: are its children shown, how often
    views,      \* the ComponentDetailViews made so far
    central,    \* the view in the central pane, 0 before the first
    fields,     \* field -> [shown, open, loaded] in the central pane
    right,      \* the right pane: what it shows and its refresh button
    diagram,    \* what is drawn in the traffic diagram
    hang,       \* the fields of HangAnalyzer, and its number of intervals
    asked,      \* requests that are not answered
    clicks

panesVars == <<tree, views, central, fields, right, diagram, hang, asked, clicks>>

TopFields == {f \in Fields : Parent[f] = f}
Inside(f) == {g \in Fields \ {f} : Parent[g] = f}
Hidden == [shown |-> FALSE, open |-> FALSE, loaded |-> FALSE]
Collapsed == [Hidden EXCEPT !.shown = TRUE]
Blank == [drawn |-> FALSE]
NewView(c) == [comp |-> c, running |-> FALSE, timers |-> 0,
               unit |-> "Byte", accum |-> "Last", totals |-> <<>>]

\* Requests: the component and the traffic of a view, a field of the view
\* in the central pane, the buffers in some order, the profile, the list.
Request(kind, arg) == [kind |-> kind, arg |-> arg]
InFlight(kind, arg) == Request(kind, arg) \in asked

Click ==
    /\ clicks < MaxClicks
    /\ clicks' = clicks + 1

(***************************************************************************)
(* The component tree                                                      *)
(***************************************************************************)

listComponentsAnswered ==
    /\ InFlight("list", 0)
    /\ asked' = asked \ {Request("list", 0)}
    /\ tree' = [tree EXCEPT !.listed = TRUE]
    /\ UNCHANGED <<views, central, fields, right, diagram, hang, clicks>>

\* A click on a domain adds its children once more and shows or hides them.
DomainClick ==
    /\ Click
    /\ tree.listed
    /\ tree' = [tree EXCEPT !.open = ~@, !.copies = @ + 1]
    /\ UNCHANGED <<views, central, fields, right, diagram, hang, asked>>

\* A new view asks for its component (populate).
populate(c) ==
    /\ Len(views) < MaxViews
    /\ views' = Append(views, NewView(c))
    /\ asked' = asked \cup {Request("component", Len(views) + 1)}

ComponentClick(c) ==
    /\ Click
    /\ tree.open /\ tree.copies > 0
    /\ populate(c)
    /\ UNCHANGED <<tree, central, fields, right, diagram, hang>>

\* A click on a port in the diagram opens the component of the port.
PortClick(c) ==
    /\ Click
    /\ right.kind = "sankey" /\ diagram.drawn
    /\ populate(c)
    /\ UNCHANGED <<tree, central, fields, right, diagram, hang>>

(***************************************************************************)
(* The two analyzers.  Starting asks at once and, unless it runs already,  *)
(* sets an interval; stopping clears the interval.                         *)
(***************************************************************************)

\* Mutant: starting sets another interval when one is already set.
StartedMutant(a) == [a EXCEPT !.running = TRUE, !.timers = @ + 1]

Started(a) == IF a.running THEN a
              ELSE [a EXCEPT !.running = TRUE, !.timers = @ + 1]
Stopped(a) == IF a.running
              THEN [a EXCEPT !.running = FALSE, !.timers = @ - 1] ELSE a

\* The refresh button of either analyzer: stop when it runs, else start.
Toggled(a) == IF a.running THEN Stopped(a) ELSE Started(a)
ToggledButton(pane, a) ==
    [pane EXCEPT !.stop = ~a.running, !.primary = ~a.running]

(***************************************************************************)
(* ComponentDetailView                                                     *)
(***************************************************************************)

\* showSankey clicks the refresh button of the hang analyzer when it is in
\* the page and highlighted.
HangBeforeSankey ==
    IF right.kind = "hang" /\ right.primary THEN Toggled(hang) ELSE hang

\* showComponent and showSankey, on the answer to populate.  The refresh
\* button of the diagram starts out saying "Stop Refresh", not highlighted.
ComponentAnswered(v) ==
    /\ InFlight("component", v)
    /\ central' = v
    /\ fields' = [f \in Fields |-> IF f \in TopFields THEN Collapsed ELSE Hidden]
    /\ hang' = HangBeforeSankey
    /\ right' = [kind |-> "sankey", view |-> v, stop |-> TRUE, primary |-> FALSE]
    /\ diagram' = Blank
    /\ views' = [views EXCEPT ![v] = Started(@)]
    /\ asked' = {r \in asked : r.kind # "field" /\ r # Request("component", v)}
                    \cup {Request("traffic", v)}
                    \cup (IF right.kind = "hang" /\ right.primary /\ ~hang.running
                          THEN {Request("buffers", hang.sort)} ELSE {})
    /\ UNCHANGED <<tree, clicks>>

\* The view whose diagram is in the right pane.
Shown == right.view

SankeyRefreshClick ==
    /\ Click
    /\ right.kind = "sankey"
    /\ right' = ToggledButton(right, views[Shown])
    /\ views' = [views EXCEPT ![Shown] = Toggled(@)]
    /\ asked' = IF views[Shown].running THEN asked
                ELSE asked \cup {Request("traffic", Shown)}
    /\ UNCHANGED <<tree, central, fields, diagram, hang>>

\* The "Count By" and the "Show Data From" buttons.
MeasurementClick(u) ==
    /\ Click
    /\ right.kind = "sankey"
    /\ views' = [views EXCEPT ![Shown].unit = u]
    /\ asked' = asked \cup {Request("traffic", Shown)}
    /\ UNCHANGED <<tree, central, fields, right, diagram, hang>>

\* Mutant: the choice is only recorded.
AccumulationClickMutant(a) ==
    /\ Click
    /\ right.kind = "sankey"
    /\ views' = [views EXCEPT ![Shown].accum = a]
    /\ UNCHANGED <<tree, central, fields, right, diagram, hang, asked>>

AccumulationClick(a) ==
    /\ Click
    /\ right.kind = "sankey"
    /\ views' = [views EXCEPT ![Shown].accum = a]
    /\ asked' = asked \cup {Request("traffic", Shown)}
    /\ UNCHANGED <<tree, central, fields, right, diagram, hang>>

\* The interval of a view, in the page or not.
SankeyTimer(v) ==
    /\ views[v].timers > 0
    /\ ~InFlight("traffic", v)
    /\ asked' = asked \cup {Request("traffic", v)}
    /\ UNCHANGED <<tree, views, central, fields, right, diagram, hang, clicks>>

\* The values accumulated once a report has come.
Accumulated(v, report) ==
    LET old == views[v].totals
    IN  [l \in DOMAIN old \cup DOMAIN report |->
            (IF l \in DOMAIN old THEN old[l] ELSE 0)
              + (IF l \in DOMAIN report THEN report[l] ELSE 0)]

\* The links drawSankey draws: of a link the report leaves out, the
\* accumulated value, whichever data is selected.
DrawnLinks(v, report) ==
    LET totals == Accumulated(v, report)
    IN  [l \in {k \in DOMAIN totals : Unit[k] = views[v].unit} |->
            IF l \in DOMAIN report /\ views[v].accum = "Last"
            THEN report[l] ELSE totals[l]]

\* drawSankey clears the canvas first and fails on a report without a
\* positive value.
drawSankey(v, report) ==
    LET fails == \A l \in DOMAIN report : report[l] = 0
    IN  /\ views' = IF fails THEN views
                    ELSE [views EXCEPT ![v].totals = Accumulated(v, report)]
        /\ diagram' =
              CASE right.kind # "sankey" \/ Shown # v -> diagram
                [] right.kind = "sankey" /\ Shown = v /\ fails -> Blank
                [] OTHER -> [drawn |-> TRUE, comp |-> views[v].comp,
                             report |-> report, links |-> DrawnLinks(v, report)]

TrafficAnswered(v, report) ==
    /\ InFlight("traffic", v)
    /\ \A l \in DOMAIN Accumulated(v, report) : Accumulated(v, report)[l] <= MaxTotal
    /\ asked' = asked \ {Request("traffic", v)}
    /\ drawSankey(v, report)
    /\ UNCHANGED <<tree, central, fields, right, hang, clicks>>

(***************************************************************************)
(* The fields of the component                                             *)
(***************************************************************************)

\* A click on the row of a field, or on a plain value inside it: the click
\* bubbles up to the row.
FieldClick(f) ==
    /\ Click
    /\ fields[f].shown
    /\ fields' = [fields EXCEPT ![f].open = ~@]
    /\ asked' = IF fields[f].open THEN asked
                ELSE asked \cup {Request("field", f)}
    /\ UNCHANGED <<tree, views, central, right, diagram, hang>>

\* Mutant: the answer leaves the rows inside the field as they were.
FieldAnsweredMutant(f) ==
    /\ InFlight("field", f)
    /\ asked' = asked \ {Request("field", g) : g \in Inside(f) \cup {f}}
    /\ fields' = [g \in Fields |->
                    IF g = f THEN [fields[f] EXCEPT !.loaded = TRUE]
                    ELSE IF g \in Inside(f) THEN [fields[g] EXCEPT !.shown = TRUE]
                    ELSE fields[g]]
    /\ UNCHANGED <<tree, views, central, right, diagram, hang, clicks>>

\* showField's answer redraws what is inside the field, collapsed.
FieldAnswered(f) ==
    /\ InFlight("field", f)
    /\ asked' = asked \ {Request("field", g) : g \in Inside(f) \cup {f}}
    /\ fields' = [g \in Fields |->
                    IF g \in Inside(f) THEN Collapsed
                    ELSE IF g = f THEN [fields[f] EXCEPT !.loaded = TRUE]
                    ELSE fields[g]]
    /\ UNCHANGED <<tree, views, central, right, diagram, hang, clicks>>

(***************************************************************************)
(* HangAnalyzer and the profile                                            *)
(***************************************************************************)

\* prepareDom stops the diagram only when its button is highlighted, which
\* it is after it has been stopped and started again; then startAnalyzing.
HangClick ==
    /\ Click
    /\ views' = IF right.kind = "sankey" /\ right.primary
                THEN [views EXCEPT ![Shown] = Toggled(@)] ELSE views
    /\ right' = [kind |-> "hang", view |-> 0, stop |-> TRUE, primary |-> TRUE]
    /\ hang' = [Started(hang) EXCEPT !.table = "empty"]
    /\ diagram' = Blank
    /\ asked' = asked \cup {Request("buffers", hang.sort)}
    /\ UNCHANGED <<tree, central, fields>>

HangRefreshClick ==
    /\ Click
    /\ right.kind = "hang"
    /\ hang' = Toggled(hang)
    /\ right' = ToggledButton(right, hang)
    /\ asked' = IF hang.running THEN asked
                ELSE asked \cup {Request("buffers", hang.sort)}
    /\ UNCHANGED <<tree, views, central, fields, diagram>>

SortClick(s) ==
    /\ Click
    /\ right.kind = "hang"
    /\ hang' = [hang EXCEPT !.sort = s]
    /\ asked' = asked \cup {Request("buffers", s)}
    /\ UNCHANGED <<tree, views, central, fields, right, diagram>>

HangTimer ==
    /\ hang.timers > 0
    /\ ~InFlight("buffers", hang.sort)
    /\ asked' = asked \cup {Request("buffers", hang.sort)}
    /\ UNCHANGED <<tree, views, central, fields, right, diagram, hang, clicks>>

\* showBufferList's answer, in a page without the table an error.
BuffersAnswered(s) ==
    /\ InFlight("buffers", s)
    /\ asked' = asked \ {Request("buffers", s)}
    /\ hang' = IF right.kind = "hang" THEN [hang EXCEPT !.table = s] ELSE hang
    /\ UNCHANGED <<tree, views, central, fields, right, diagram, clicks>>

getProfilingResult ==
    /\ Click
    /\ asked' = asked \cup {Request("profile", 0)}
    /\ UNCHANGED <<tree, views, central, fields, right, diagram, hang>>

\* The profile takes the right pane and stops nothing.
visualizePProfNetwork ==
    /\ InFlight("profile", 0)
    /\ asked' = asked \ {Request("profile", 0)}
    /\ right' = [kind |-> "profile", view |-> 0, stop |-> FALSE, primary |-> FALSE]
    /\ diagram' = Blank
    /\ UNCHANGED <<tree, views, central, fields, hang, clicks>>

(***************************************************************************)
(* The specification                                                       *)
(***************************************************************************)

PanesInit ==
    /\ tree = [listed |-> FALSE, open |-> FALSE, copies |-> 0]
    /\ views = <<>> /\ central = 0
    /\ fields = [f \in Fields |-> Hidden]
    /\ right = [kind |-> "empty", view |-> 0, stop |-> FALSE, primary |-> FALSE]
    /\ diagram = Blank
    /\ hang = [running |-> FALSE, timers |-> 0, sort |-> "level", table |-> "empty"]
    /\ asked = {Request("list", 0)}
    /\ clicks = 0

PanesNext ==
    \/ listComponentsAnswered
    \/ DomainClick
    \/ \E c \in Comps : ComponentClick(c) \/ PortClick(c)
    \/ \E v \in DOMAIN views : ComponentAnswered(v) \/ SankeyTimer(v)
    \/ \E v \in DOMAIN views, r \in Reports : TrafficAnswered(v, r)
    \/ SankeyRefreshClick
    \/ \E u \in {"Byte", "Msg"} : MeasurementClick(u)
    \/ \E a \in {"Last", "Cumulative"} : AccumulationClick(a)
    \/ \E f \in Fields : FieldClick(f) \/ FieldAnswered(f)
    \/ HangClick \/ HangRefreshClick \/ HangTimer
    \/ \E s \in {"level", "percent"} : SortClick(s) \/ BuffersAnswered(s)
    \/ getProfilingResult \/ visualizePProfNetwork

PanesSpec == PanesInit /\ [][PanesNext]_panesVars

-----------------------------------------------------------------------------
(* Properties *)

\* The value a link of a view ought to have: under "Last Epoch" that of the
\* last report, under "Cumulative" the sum of all reports.  A link that the
\* last report leaves out is drawn with its sum in either case, as the code
\* does (component.ts:572-579).
Wanted(view, report, l) ==
    IF view.accum = "Last" /\ l \in DOMAIN report THEN report[l] ELSE view.totals[l]

\* The links of the selected unit are drawn, no others, with the values of
\* the selected data.
DrawnAsSelected(view) ==
    /\ DOMAIN diagram.links = {l \in DOMAIN view.totals : Unit[l] = view.unit}
    /\ \A l \in DOMAIN diagram.links : diagram.links[l] = Wanted(view, diagram.report, l)

\* The diagram in the right pane is of the component in the central pane,
\* and the links and values drawn are those of the unit and of the data that
\* are selected, unless a request is open that will redraw it; whatever was
\* clicked and whichever reports came for this view or another since
\* (component.ts: modes and sums are read when the answer comes, 532-581).
DiagramMatches ==
    right.kind = "sankey" =>
        /\ Shown = central
        /\ diagram.drawn =>
              /\ diagram.comp = views[central].comp
              /\ InFlight("traffic", Shown) \/ DrawnAsSelected(views[Shown])

\* Each analyzer polls through at most one interval, none when it is
\* stopped, and the refresh button in the right pane says "Stop Refresh"
\* exactly when the analyzer shown there polls.
RefreshIsTold ==
    /\ \A v \in DOMAIN views : views[v].timers = IF views[v].running THEN 1 ELSE 0
    /\ hang.timers = IF hang.running THEN 1 ELSE 0
    /\ right.kind = "sankey" => right.stop = views[Shown].running
    /\ right.kind = "hang" => right.stop = hang.running

\* A field that is open has its content or has asked for it, and a row
\* inside a field is there only with the content of the field.
FieldsLoad ==
    \A f \in Fields :
        /\ fields[f].open => fields[f].loaded \/ InFlight("field", f)
        /\ fields[f].shown /\ f \notin TopFields => fields[Parent[f]].loaded

=============================================================================
