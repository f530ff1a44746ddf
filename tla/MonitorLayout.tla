---------------------------- MODULE MonitorLayout ----------------------------
(***************************************************************************)
(* The page frame of AkitaRTM, the web page served by the simulation       *)
(* monitor: UIManager divides the window among the navigation bar, the     *)
(* main container, the group of field charts and the group of progress     *)
(* bars; Monitor owns the charts, each polling the simulation through an   *)
(* interval timer of its own; ProgressBarManager polls the list of         *)
(* progress bars and shows it as bars or, when there are many, as pies.    *)
(* All of them run in one browser thread, so a step is one event handler:  *)
(* a mouse event, a timer, an answer of the server or the end of an        *)
(* animation.  Lengths are in pixels.                                      *)
(***************************************************************************)
EXTENDS Integers, Sequences, FiniteSets, SequencesExt

CONSTANTS
    WindowHeight,       \* at the start
    WindowHeights,      \* heights the user may give to the window
    WindowWidth,
    Positions,          \* places <<x, y>> the pointer may move to
    Titles,             \* <<component, field>> pairs that can be flagged
    maxProgressBars,    \* as many are shown as bars (2 in the code)
    MaxBars,            \* bound: progress bars the simulation creates
    MaxWidgets,         \* bound: charts opened in one behaviour
    MaxGestures,        \* bound: drags and changes of the window's size
    MaxPolls,           \* bound: answers of the server under way at once
    MaxFading,          \* bound: removals still animated when an answer comes
    null                \* the answer of a server that never had a bar

ASSUME LayoutAssumption ==
    /\ WindowHeight \in Nat /\ WindowHeights \subseteq Nat /\ WindowWidth \in Nat
    /\ Positions \subseteq Nat \X Nat
    /\ MaxBars \in Nat

VARIABLES
    win,        \* window.innerHeight
    ui,         \* the fields of UIManager
    style,      \* the heights and widths the DOM elements really have
    flags,      \* the titles whose flag is solid in the central pane
    widgets,    \* Monitor.widgets, a sequence of ids
    charts,     \* id -> [title, dom, timer] of each chart made
    created,    \* how many progress bars the simulation has created
    bars,       \* those it has not completed
    answers,    \* lists of bars on their way to the page, equal ones as one
    mode,       \* ProgressBarManager.mode
    doms,       \* ProgressBarManager.progressDoms: id -> kind
    fading,     \* kind -> number of elements in their removal animation
    gestures    \* drags and changes of the window's size so far

layoutVars == <<win, ui, style>>
widgetVars == <<flags, widgets, charts>>
progressVars == <<answers, mode, doms, fading>>
simVars == <<created, bars>>
frameVars == <<layoutVars, widgetVars, progressVars, simVars, gestures>>

navBarHeight == 56
horizontalDividerHeight == 6
verticalDividerWidth == 8
popUpHeight == 200
BarIDs == 1..MaxBars
Dividers == {"left", "right", "monitor"}

(***************************************************************************)
(* UIManager                                                               *)
(***************************************************************************)

\* offsetHeight of the progress bar group: a bar fills a row, pies share
\* one; an element in its removal animation still takes its room.
OffsetHeight(d, f) ==
    LET Count(k) == Cardinality({i \in DOMAIN d : d[i] = k}) + f[k]
    IN  11 + 24 * Count("bar") + (IF Count("pie") > 0 THEN 50 ELSE 0)

\* What is left of a window of height h when the charts take g.
MainHeight(h, g, off) ==
    h - navBarHeight - horizontalDividerHeight - g - off

\* An assignment to style.height or style.width with a negative length is
\* ignored by the browser.
Length(old, new) == IF new < 0 THEN old ELSE new

\* resize and resizeMonitorGroup: every element gets the size of its field.
Resized(u) ==
    [main    |-> Length(style.main, u.main),
     monitor |-> Length(style.monitor, u.monitor),
     left    |-> Length(style.left, u.left),
     central |-> Length(style.central,
                     WindowWidth - u.left - u.right - 2 * verticalDividerWidth),
     right   |-> Length(style.right, u.right)]

\* A handler that leaves the fields of UIManager as u ends in a resize.
SetLayout(u) ==
    /\ ui' = u
    /\ style' = Resized(u)

adjustProgressBarGroupHeight(d, f) ==
    SetLayout([ui EXCEPT !.main = MainHeight(win, ui.monitor, OffsetHeight(d, f))])

popUpMonitorGroup ==
    [ui EXCEPT !.monitor = popUpHeight,
               !.main = MainHeight(win, popUpHeight, OffsetHeight(doms, fading))]

collapseMonitorGroup ==
    [ui EXCEPT !.monitor = 0,
               !.main = MainHeight(win, 0, OffsetHeight(doms, fading))]

Gesture ==
    /\ gestures < MaxGestures
    /\ gestures' = gestures + 1

MouseDown(d) ==
    /\ Gesture
    /\ ui' = [ui EXCEPT !.dragging = @ \cup {d}]
    /\ UNCHANGED <<win, style, widgetVars, progressVars, simVars>>

\* verticalDividerMouseMoveHandler
DragVertical(u, x) ==
    [u EXCEPT
        !.left = IF "left" \in u.dragging THEN x - verticalDividerWidth \div 2 ELSE @,
        !.right = IF "right" \in u.dragging
                  THEN WindowWidth - x - verticalDividerWidth \div 2 ELSE @]

\* horizontalDividerMouseMoveHandler: the height of the charts is computed
\* before the height of the main container is clamped.
DragHorizontal(u, y) ==
    LET main == y - navBarHeight - horizontalDividerHeight \div 2
        max == MainHeight(win, 0, OffsetHeight(doms, fading))
    IN  IF "monitor" \notin u.dragging THEN u
        ELSE [u EXCEPT !.monitor = max - main,
                       !.main = IF main > max THEN max ELSE main]

MouseMove(p) ==
    /\ ui.dragging # {}
    /\ SetLayout(DragHorizontal(DragVertical(ui, p[1]), p[2]))
    /\ UNCHANGED <<win, widgetVars, progressVars, simVars, gestures>>

MouseUp ==
    /\ ui.dragging # {}
    /\ ui' = [ui EXCEPT !.dragging = {}]
    /\ UNCHANGED <<win, style, widgetVars, progressVars, simVars, gestures>>

\* The window's resize event redraws with the heights of before.
WindowResize(h) ==
    /\ Gesture
    /\ h # win
    /\ win' = h
    /\ SetLayout(ui)
    /\ UNCHANGED <<widgetVars, progressVars, simVars>>

(***************************************************************************)
(* Monitor and its widgets                                                 *)
(***************************************************************************)

addWidget(t) ==
    LET id == Cardinality(DOMAIN charts) + 1
    IN  /\ id <= MaxWidgets
        /\ charts' = [i \in DOMAIN charts \cup {id} |->
                        IF i = id
                        THEN [title |-> t, dom |-> TRUE, timer |-> TRUE]
                        ELSE charts[i]]
        /\ widgets' = Append(widgets, id)
        /\ SetLayout(IF widgets = <<>> THEN popUpMonitorGroup ELSE ui)

\* getWidget: the first widget of this component and field, if any.
getWidget(t) == SelectInSeq(widgets, LAMBDA i : charts[i].title = t)

\* Mutant: every chart of the field leaves the list, one leaves the page.
removeWidgetMutant(t) ==
    LET k == getWidget(t)
        id == widgets[k]
        rest == SelectSeq(widgets, LAMBDA i : charts[i].title # t)
    IN  IF k = 0 THEN UNCHANGED <<ui, style, widgets, charts>>
        ELSE /\ charts' = [charts EXCEPT ![id].dom = FALSE, ![id].timer = FALSE]
             /\ widgets' = rest
             /\ SetLayout(IF rest = <<>> THEN collapseMonitorGroup ELSE ui)

removeWidget(t) ==
    LET k == getWidget(t)
        id == widgets[k]
    IN  IF k = 0 THEN UNCHANGED <<ui, style, widgets, charts>>
        ELSE /\ charts' = [charts EXCEPT ![id].dom = FALSE, ![id].timer = FALSE]
             /\ widgets' = RemoveAt(widgets, k)
             /\ SetLayout(IF Len(widgets) = 1 THEN collapseMonitorGroup ELSE ui)

\* A click on the flag of a field in the central pane.
toggleFlag(t) ==
    /\ IF t \in flags
       THEN flags' = flags \ {t} /\ removeWidget(t)
       ELSE flags' = flags \cup {t} /\ addWidget(t)
    /\ UNCHANGED <<win, progressVars, simVars, gestures>>

\* A component is opened: its titles are drawn afresh, with empty flags,
\* whatever is being charted.
showComponent ==
    /\ flags # {}
    /\ flags' = {}
    /\ UNCHANGED <<layoutVars, widgets, charts, progressVars, simVars, gestures>>

\* The close button of a chart asks for the removal by component and field.
CloseWidget(id) ==
    /\ charts[id].dom
    /\ removeWidget(charts[id].title)
    /\ UNCHANGED <<win, flags, progressVars, simVars, gestures>>

(***************************************************************************)
(* ProgressBarManager                                                      *)
(***************************************************************************)

\* The simulation starts and completes progress bars (monitor.go); no id is
\* used twice.
CreateProgressBar ==
    /\ created < MaxBars
    /\ created' = created + 1
    /\ bars' = bars \cup {created'}
    /\ UNCHANGED <<layoutVars, widgetVars, progressVars, gestures>>

CompleteProgressBar(b) ==
    /\ b \in bars
    /\ bars' = bars \ {b}
    /\ UNCHANGED <<layoutVars, widgetVars, progressVars, created, gestures>>

\* The timer asks for the list; the answer is the list of this moment, or
\* null as long as the server has never held a bar.
refreshProgressBars ==
    /\ Cardinality(answers) < MaxPolls
    /\ answers' = answers \cup {IF created = 0 THEN null ELSE bars}
    /\ UNCHANGED <<layoutVars, widgetVars, simVars, mode, doms, fading, gestures>>

ModeFor(list) == IF Cardinality(list) > maxProgressBars THEN "pie" ELSE "bar"

\* Mutant: the elements of bars that are not in the list stay.
renderProgressMutant(list) ==
    LET m == ModeFor(list)
    IN  /\ mode' = m
        /\ doms' = [i \in list \cup DOMAIN doms |-> m]
        /\ UNCHANGED fading
        /\ adjustProgressBarGroupHeight(doms', fading')

\* renderProgress: a change of mode removes every element first; then the
\* bars of the list are shown and the elements of all others removed.
renderProgress(list) ==
    LET m == ModeFor(list)
        kept == IF m # mode THEN {} ELSE DOMAIN doms \cap list
        gone == [k \in {"bar", "pie"} |->
                    Cardinality({i \in DOMAIN doms \ kept : doms[i] = k})]
    IN  /\ mode' = m
        /\ doms' = [i \in list |-> m]
        /\ fading' = [k \in DOMAIN fading |-> fading[k] + gone[k]]
        /\ IF list \subseteq kept THEN UNCHANGED <<ui, style>>
           ELSE adjustProgressBarGroupHeight(doms', fading')

ProgressAnswered(list) ==
    /\ list \in answers
    /\ fading["bar"] + fading["pie"] <= MaxFading
    /\ answers' = answers \ {list}
    /\ IF list = null THEN UNCHANGED <<ui, style, mode, doms, fading>>
       ELSE renderProgress(list)
    /\ UNCHANGED <<win, widgetVars, simVars, gestures>>

\* Mutant: the heights are not adjusted when an element is gone.
RemovedMutant(k) ==
    /\ fading[k] > 0
    /\ fading' = [fading EXCEPT ![k] = @ - 1]
    /\ UNCHANGED <<layoutVars, widgetVars, simVars, answers, mode, doms, gestures>>

\* The removal animation of an element ends: it leaves the document and the
\* heights are adjusted.
Removed(k) ==
    /\ fading[k] > 0
    /\ fading' = [fading EXCEPT ![k] = @ - 1]
    /\ adjustProgressBarGroupHeight(doms, fading')
    /\ UNCHANGED <<win, widgetVars, simVars, answers, mode, doms, gestures>>

(***************************************************************************)
(* The specification                                                       *)
(***************************************************************************)

\* assignElements, with the divider at the bottom of the window.
FrameInit ==
    /\ win = WindowHeight
    /\ ui = [main |-> MainHeight(win, 0, 11), monitor |-> 0,
             left |-> 200, right |-> 700, dragging |-> {}]
    /\ style = [main |-> MainHeight(win, 0, 11), monitor |-> 0, left |-> 200,
                central |-> WindowWidth - 900 - 2 * verticalDividerWidth,
                right |-> 700]
    /\ flags = {} /\ widgets = <<>> /\ charts = <<>>
    /\ created = 0 /\ bars = {} /\ answers = {} /\ mode = "bar" /\ doms = <<>>
    /\ fading = [k \in {"bar", "pie"} |-> 0]
    /\ gestures = 0

FrameNext ==
    \/ \E d \in Dividers : MouseDown(d)
    \/ \E p \in Positions : MouseMove(p)
    \/ MouseUp
    \/ \E h \in WindowHeights : WindowResize(h)
    \/ \E t \in Titles : toggleFlag(t)
    \/ showComponent
    \/ \E id \in DOMAIN charts : CloseWidget(id)
    \/ CreateProgressBar
    \/ \E b \in BarIDs : CompleteProgressBar(b)
    \/ refreshProgressBars
    \/ \E list \in (SUBSET BarIDs) \cup {null} : ProgressAnswered(list)
    \/ \E k \in {"bar", "pie"} : Removed(k)

FrameSpec == FrameInit /\ [][FrameNext]_frameVars

\* The intervals keep firing, every request is answered, every animation
\* ends; nothing is asked of the user or of the simulation.
FairSpec ==
    /\ FrameSpec
    /\ WF_frameVars(refreshProgressBars)
    /\ \A list \in (SUBSET BarIDs) \cup {null} : WF_frameVars(ProgressAnswered(list))
    /\ \A k \in {"bar", "pie"} : WF_frameVars(Removed(k))

-----------------------------------------------------------------------------
(* Properties *)

Frame == <<ui.main, ui.monitor, OffsetHeight(doms, fading)>>
TotalHeight == navBarHeight + style.main + horizontalDividerHeight
                + style.monitor + OffsetHeight(doms, fading)

\* Whichever of the mouse, the charts, the progress bars and their
\* animations moves a boundary, the five parts of the page then fill the
\* window exactly (ui_manager.ts: every handler computes the height of the
\* main container from the heights of the others).  Excepted is a divider
\* dragged so far that a height becomes negative.
FrameFills ==
    [][(win' = win /\ Frame' # Frame /\ ui'.monitor >= 0 /\ ui'.main >= 0)
          => TotalHeight' = win]_frameVars

\* The charts in the page, the charts the monitor lists and the charts that
\* poll the simulation are the same, also when one field is charted twice
\* (monitor.ts: a chart is looked up by its field, removed by its identity).
ChartsAgree ==
    \A id \in DOMAIN charts :
        /\ charts[id].dom <=> id \in Range(widgets)
        /\ charts[id].timer <=> id \in Range(widgets)

\* However the answers are reordered, the page comes to show exactly the
\* bars of the simulation, with nothing left of the others.
ProgressSettles ==
    <>[](DOMAIN doms = bars /\ \A k \in DOMAIN fading : fading[k] = 0)
=============================================================================
