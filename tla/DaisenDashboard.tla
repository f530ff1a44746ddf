--------------------------- MODULE DaisenDashboard ---------------------------
(***************************************************************************)
(* Daisen's dashboard: a widget for every component of the page that the   *)
(* filter and the page number select, each with a curve per Y axis.  The   *)
(* state is kept three times, in the URL, in Dashboard and in the widgets, *)
(* and the toolbar, the widgets' own MouseEventHandlers, Back and Forward  *)
(* change it.  A widget object and its svg outlive their place on the      *)
(* page: timers and answers made for them still act.                       *)
(***************************************************************************)
EXTENDS DaisenBrowser, DashboardPages, SequencesExt

CONSTANTS
    Components,     \* the names of all components, sorted
    Filters,        \* texts of the filter
    NoFilter,       \* the empty text, one of Filters
    Matches,        \* filter -> the components that match it, sorted
    Axes,           \* what a Y axis can show
    Primary, Secondary, \* what the two axes show by default
    Skip            \* the option "-"

ASSUME DashboardAssumption ==
    /\ Components \in Seq(Range(Components))
    /\ NoFilter \in Filters /\ Matches \in [Filters -> Seq(Range(Components))]
    /\ Matches[NoFilter] = Components
    /\ {Primary, Secondary, Skip} \subseteq Axes

BagOps == INSTANCE BagsExt

VARIABLES
    dash,       \* the fields of Dashboard, its filter input and its requests
    widgets,    \* Dashboard._widgets
    fetches,    \* requests of these widgets for the data of an axis
    orphans     \* timers of dropped widgets that run: a bag of their ranges

dashVars == <<dash, widgets, fetches, orphans>>

Sides == {"p", "s"}
NoData == [info |-> Skip, range |-> NoRange]

DashboardUrl(number, filter, axes, range) ==
    [page |-> "dashboard", number |-> number, filter |-> filter, axes |-> axes,
     range |-> range]

-----------------------------------------------------------------------------
(* Widget *)

newWidget(name, d) ==
    [name |-> name, range |-> d.range, axes |-> d.axes,
     data |-> [s \in Sides |-> NoData], svg |-> 1, curves |-> {},
     handler |-> NewHandler, stray |-> 0]

Skipped(w, side) == w.axes[side] = Skip
Missing(w, side) == ~Skipped(w, side) /\ w.data[side] = NoData

\* _renderDataCurve draws the curve of a kind of data in the place of the
\* one before it, and throws when the data has not come.
Redrawn(w, side) ==
    IF Skipped(w, side) \/ Missing(w, side) THEN w
    ELSE [w EXCEPT !.curves = {c \in @ : c.info # w.data[side].info}
                                \cup {w.data[side]}]
Throws(w) == Missing(w, "p") \/ Missing(w, "s")

\* temporaryTimeShift: the primary curve, then the secondary one, unless
\* the primary one throws.
temporaryTimeShift(w, range) ==
    LET shifted == Redrawn([w EXCEPT !.range = range], "p")
    IN  IF Missing(w, "p") THEN shifted ELSE Redrawn(shifted, "s")

\* render asks for the data of both axes; the server fails on "-".
Asked(ws, ks) ==
    SetToBag({f \in {[widget |-> k, svg |-> ws[k].svg, side |-> s,
                      info |-> ws[k].axes[s], range |-> ws[k].range] :
                        k \in ks, s \in Sides} : f.info # Skip})

\* Mutant: the old svg stays, with its curves.
ResetMutant(w) == w

\* render(true): a new svg and a new handler; a timer of the old one runs on.
Reset(w) == [w EXCEPT !.svg = @ + 1, !.curves = {}, !.handler = NewHandler,
                      !.stray = @ + IF w.handler.timer THEN 1 ELSE 0]

-----------------------------------------------------------------------------
(* Dashboard *)

\* setTimeRange shifts the widgets up to the first one that throws; the
\* exception ends the loop and the caller.  The widgets before it ask for
\* their data.
ShiftedAll(ws, range) ==
    [k \in DOMAIN ws |-> IF \A j \in 1..(k - 1) : ~Throws(ws[j])
                         THEN temporaryTimeShift(ws[k], range) ELSE ws[k]]
Reached(ws) == {k \in DOMAIN ws : \A j \in 1..k : ~Throws(ws[j])}

setTimeRange(d, ws, range) ==
    LET shifted == ShiftedAll(ws, range)
    IN  /\ nav' = replaceState(nav, [Url EXCEPT !.range = range])
        /\ dash' = [d EXCEPT !.range = range]
        /\ widgets' = shifted
        /\ fetches' = fetches (+) Asked(shifted, Reached(ws))

\* _filter, with the part of _addPaginationControl that has an effect.
Filtered(d) ==
    [d EXCEPT !.filtered = Matches[d.filter], !.cells = Cells(Len(Matches[d.filter]))]

\* _renderPage: the widgets are made anew.  An answer to a dropped widget
\* has no effect any more; its timers have.
Timers(w) == w.stray + IF w.handler.timer THEN 1 ELSE 0
Left(ws) ==
    [r \in {ws[k].range : k \in {j \in DOMAIN ws : Timers(ws[j]) > 0}} |->
        Cardinality(UNION {{k} \X (1..Timers(ws[k])) :
                             k \in {j \in DOMAIN ws : ws[j].range = r}})]

renderPage(d, dropped) ==
    LET names == PageOf(d.filtered, d.page, d.cells)
        ws == [k \in DOMAIN names |-> newWidget(names[k], d)]
    IN  /\ dash' = d
        /\ widgets' = ws
        /\ fetches' = Asked(ws, DOMAIN ws)
        /\ orphans' = orphans (+) Left(dropped)

\* render, on every visit of the page: the answer is applied to the URL
\* current by then (_getParamsFromURL).
DashboardAnswered ==
    LET e == Url
        range == IF e.range = NoRange THEN SimRange ELSE e.range
        asked == [dash EXCEPT !.loads = @ - 1, !.loaded = TRUE,
                              !.filtered = Components, !.typed = e.filter]
        read == [asked EXCEPT !.range = range, !.page = e.number,
                              !.filter = e.filter, !.axes = e.axes]
    IN  /\ dash.loads > 0
        /\ \/ /\ \E k \in DOMAIN widgets : Throws(widgets[k])
              /\ setTimeRange(asked, widgets, range)
              /\ UNCHANGED orphans
           \/ /\ \A k \in DOMAIN widgets : ~Throws(widgets[k])
              /\ nav' = replaceState(nav, [e EXCEPT !.range = range])
              /\ renderPage(Filtered(read), ShiftedAll(widgets, range))
        /\ UNCHANGED <<patient, pointer, gestures>>

\* _fetchAndRenderAxisData: the data becomes the widget's whatever was asked
\* since; it is drawn in the svg it was asked for.
FetchAnswered(f) ==
    LET d == [info |-> f.info, range |-> f.range]
        w == [widgets[f.widget] EXCEPT !.data[f.side] = d]
    IN  /\ fetches' = BagOps!BagRemove(fetches, f)
        /\ widgets' = [widgets EXCEPT ![f.widget] =
                        IF f.svg # w.svg THEN w
                        ELSE [w EXCEPT !.curves =
                                {c \in @ : c.info # d.info} \cup {d}]]
        /\ UNCHANGED <<dash, orphans, browserVars>>

-----------------------------------------------------------------------------
(* The toolbar and the page buttons *)

DashboardAtRest ==
    /\ dash.loads = 0 /\ dash.zooms = 0 /\ ~dash.filterTimer
    /\ fetches = EmptyBag /\ orphans = EmptyBag
    /\ \A k \in DOMAIN widgets : Idle(widgets[k].handler) /\ widgets[k].stray = 0

\* _resetZoom: the range of the simulation is asked for.
ResetZoom ==
    /\ Gesture(DashboardAtRest)
    /\ dash' = [dash EXCEPT !.zooms = @ + 1]
    /\ UNCHANGED <<widgets, fetches, orphans, nav>>

ZoomAnswered ==
    /\ dash.zooms > 0
    /\ setTimeRange([dash EXCEPT !.zooms = @ - 1], widgets, SimRange)
    /\ UNCHANGED <<orphans, patient, pointer, gestures>>

\* _switchPrimaryAxis and _switchSecondaryAxis: an entry in the history and
\* a new svg for each widget.  The name may be that of the current axis: until
\* the first answer a selector shows its first option, whatever the axis is.
\* On a page without widgets the URL stays behind, which a patient user does
\* not cause.
switchAxis(side, name) ==
    LET n == Len(widgets)
        axes == [dash.axes EXCEPT ![side] = name]
        url == [Url EXCEPT !.axes[side] = name]
        ws == [k \in DOMAIN widgets |->
                Reset([widgets[k] EXCEPT !.axes[side] = name])]
    IN  /\ Gesture(DashboardAtRest /\ n > 0)
        /\ nav.pos + n <= MaxEntries
        /\ nav' = IF n = 0 THEN nav
                  ELSE [entries |-> SubSeq(nav.entries, 1, nav.pos)
                                      \o [k \in 1..n |-> url],
                        pos |-> nav.pos + n]
        /\ dash' = [dash EXCEPT !.axes = axes]
        /\ widgets' = ws
        /\ fetches' = fetches (+) Asked(ws, DOMAIN ws)
        /\ UNCHANGED orphans

\* _filterInputChage: a timer of one second.
FilterInput(f) ==
    /\ Gesture(DashboardAtRest) /\ f # dash.typed
    /\ dash' = [dash EXCEPT !.typed = f, !.filterTimer = TRUE]
    /\ UNCHANGED <<widgets, fetches, orphans, nav>>

\* Mutant: the page number is reset in the URL only.
FilterTimerMutant ==
    LET d == [dash EXCEPT !.filterTimer = FALSE, !.filter = dash.typed]
    IN  /\ dash.filterTimer /\ HasRoom
        /\ nav' = pushState(nav, [Url EXCEPT !.filter = d.filter, !.number = 0])
        /\ \/ dash.loaded /\ renderPage(Filtered(d), widgets)
           \/ ~dash.loaded /\ dash' = d /\ UNCHANGED <<widgets, fetches, orphans>>
        /\ UNCHANGED <<patient, pointer, gestures>>

\* It reads the input when it fires; without the names _filter throws.
FilterTimer ==
    LET d == [dash EXCEPT !.filterTimer = FALSE, !.page = 0,
                          !.filter = dash.typed]
    IN  /\ dash.filterTimer /\ HasRoom
        /\ nav' = pushState(nav, [Url EXCEPT !.filter = d.filter, !.number = 0])
        /\ \/ dash.loaded /\ renderPage(Filtered(d), widgets)
           \/ ~dash.loaded /\ dash' = d /\ UNCHANGED <<widgets, fetches, orphans>>
        /\ UNCHANGED <<patient, pointer, gestures>>

switchToPage(p) ==
    /\ Gesture(DashboardAtRest) /\ HasRoom
    /\ dash.loaded
    /\ p \in PageTargets(dash.page, numPages(Len(dash.filtered), dash.cells))
    /\ nav' = pushState(nav, [Url EXCEPT !.number = p])
    /\ renderPage([dash EXCEPT !.page = p], widgets)

\* The window is resized: setCanvas makes the toolbar anew, its input empty,
\* and draws the curves again up to the first widget that throws.
DashboardLayout ==
    /\ Gesture(DashboardAtRest)
    /\ dash' = [dash EXCEPT !.typed = NoFilter]
    /\ widgets' = [k \in DOMAIN widgets |->
                    IF \A j \in 1..(k - 1) : ~Throws(widgets[j])
                    THEN temporaryTimeShift(widgets[k], widgets[k].range)
                    ELSE widgets[k]]
    /\ UNCHANGED <<fetches, orphans, nav>>

-----------------------------------------------------------------------------
(* Mouse and touch on a widget *)

\* permanentTimeShift of a widget.
permanentTimeShift(ws, k) ==
    LET shifted == [ws EXCEPT ![k] = temporaryTimeShift(@, ws[k].range)]
    IN  IF Throws(ws[k])
        THEN widgets' = shifted /\ UNCHANGED <<dash, fetches, nav>>
        ELSE setTimeRange(dash, shifted, ws[k].range)

Pressed(k) == widgets[k].handler.dragging \/ widgets[k].handler.pinching

\* An event on the svg of a widget; the shift comes before the timer.
WidgetPointer(k, e) ==
    LET w == widgets[k]
        h == IF Shifts(w.handler, e) /\ Throws(w)
             THEN [React(w.handler, e) EXCEPT !.timer = w.handler.timer]
             ELSE React(w.handler, e)
    IN  /\ Acts(DashboardAtRest \/ (~Idle(w.handler) /\ fetches = EmptyBag))
        /\ PointerMoves(e)
        /\ (\E j \in DOMAIN widgets : Pressed(j)) => Pressed(k)
        /\ IF Shifts(w.handler, e)
           THEN /\ \E r \in ShiftedRanges :
                    widgets' = [widgets EXCEPT ![k] =
                        temporaryTimeShift([w EXCEPT !.handler = h], r)]
                /\ UNCHANGED <<dash, fetches, nav>>
           ELSE IF Reloads(w.handler, e)
                THEN permanentTimeShift([widgets EXCEPT ![k].handler = h], k)
                ELSE /\ widgets' = [widgets EXCEPT ![k].handler = h]
                     /\ UNCHANGED <<dash, fetches, nav>>
        /\ UNCHANGED orphans

WidgetTimer(k) ==
    LET w == widgets[k] IN
    /\ \/ /\ w.handler.timer
          /\ permanentTimeShift([widgets EXCEPT ![k].handler =
                                    React(@, "timer")], k)
       \/ /\ w.stray > 0
          /\ permanentTimeShift([widgets EXCEPT ![k].stray = @ - 1], k)
    /\ UNCHANGED <<orphans, patient, pointer, gestures>>

\* The timer of a dropped widget: its range becomes everyone's.
OrphanTimer(range) ==
    /\ orphans' = BagOps!BagRemove(orphans, range)
    /\ setTimeRange(dash, widgets, range)
    /\ UNCHANGED <<patient, pointer, gestures>>

-----------------------------------------------------------------------------
(* The page *)

NewDashboard ==
    [loads |-> 0, loaded |-> FALSE, zooms |-> 0, filterTimer |-> FALSE,
     typed |-> NoFilter, filter |-> NoFilter, filtered |-> <<>>,
     cells |-> Cells(MaxWidgets), page |-> 0,
     axes |-> [p |-> Primary, s |-> Secondary], range |-> NoRange]

\* The document is loaded: start routes it.
DashboardInit ==
    /\ dash = [NewDashboard EXCEPT !.loads = 1]
    /\ widgets = <<>> /\ fetches = EmptyBag /\ orphans = EmptyBag

\* The document is that of the task page.
DashboardAbsent ==
    /\ dash = NewDashboard
    /\ widgets = <<>> /\ fetches = EmptyBag /\ orphans = EmptyBag

DashboardTravel ==
    /\ Gesture(DashboardAtRest)
    /\ Travel
    /\ dash' = [dash EXCEPT !.loads = @ + 1]
    /\ UNCHANGED <<widgets, fetches, orphans>>

DashboardNext ==
    \/ DashboardAnswered
    \/ \E f \in BagToSet(fetches) : FetchAnswered(f)
    \/ ResetZoom \/ ZoomAnswered
    \/ \E side \in Sides, name \in Axes : switchAxis(side, name)
    \/ \E f \in Filters : FilterInput(f)
    \/ FilterTimer
    \/ \E p \in 0..Len(Components) : switchToPage(p)
    \/ DashboardLayout
    \/ \E k \in DOMAIN widgets, e \in PointerEvents : WidgetPointer(k, e)
    \/ \E k \in DOMAIN widgets : WidgetTimer(k)
    \/ \E r \in BagToSet(orphans) : OrphanTimer(r)
    \/ DashboardTravel

-----------------------------------------------------------------------------
(* Properties *)

\* On a dashboard at rest URL, Dashboard and widgets agree: the range of the
\* URL is that of Dashboard, whatever the user did; and for a user who waits
\* and switches axes only on a page with widgets (dashboard.ts:261 leaves
\* the URL behind on others) so are its page, filter and axes, and the widgets
\* are those of that page, with these axes and this range.
DashboardIsUrl ==
    dash.loaded /\ DashboardAtRest =>
        /\ dash.range = Url.range
        /\ patient =>
            /\ <<dash.page, dash.filter, dash.axes>>
                 = <<Url.number, Url.filter, Url.axes>>
            /\ [k \in DOMAIN widgets |-> widgets[k].name] =
                 LET names == Matches[Url.filter]
                 IN  PageOf(names, Url.number, Cells(Len(names)))
            /\ \A k \in DOMAIN widgets :
                 widgets[k].axes = Url.axes /\ widgets[k].range = Url.range

\* And every widget shows the curves of its axes, in the range of its axis,
\* and no other curve.
CurvesAreAsked ==
    patient /\ DashboardAtRest =>
        \A k \in DOMAIN widgets :
            widgets[k].curves = {[info |-> i, range |-> widgets[k].range] :
                                    i \in Range(widgets[k].axes) \ {Skip}}
=============================================================================
