---------------------------- MODULE DaisenProofs ----------------------------
(***************************************************************************)
(* Proofs about Daisen's task page and dashboard: whatever the trace, the  *)
(* number of tasks, components and time ranges, and however many gestures  *)
(* the user makes, a page at rest shows what its URL says, its bars follow *)
(* its axis and its widgets show the curves that were asked for.           *)
(***************************************************************************)
EXTENDS DaisenApp, SequenceTheorems, FiniteSetTheorems, TLAPS

-----------------------------------------------------------------------------
(* The inductive invariant: the history and the handlers *)

Names == Range(Components)
PageUrls == TaskUrls \cup ComponentUrls
Histories(S) ==
    {n \in [entries : Seq(S), pos : Nat] : n.pos \in 1..Len(n.entries)}
Handlers == [dragging : BOOLEAN, pinching : BOOLEAN, moved : BOOLEAN,
             timer : BOOLEAN]

\* A reload is due: a timer runs, or the mouse is down and has moved.
Due(h) == h.timer \/ (pointer = "mouse" /\ h.dragging /\ h.moved)

\* A handler drags only while a button or one finger is down.
Held(h) == h.dragging => pointer \in {"mouse", "finger"}

-----------------------------------------------------------------------------
(* The task page *)

TaskWaits == {"find", "task", "parent", "where"}
Calls == [wait : {"simulation"}, key : {NoTask}, keep : BOOLEAN, range : AnyRange]
           \cup [wait : TaskWaits, key : Tasks, keep : BOOLEAN, range : AnyRange]
           \cup [wait : {"span", "component"}, key : Names, keep : BOOLEAN,
                 range : AnyRange]
Pages == [mode : {"task", "component"}, comp : Names \cup {NoTask},
          curr : Tasks \cup {NoTask}, range : AnyRange]
TaskViews == [shows : Tasks \cup {NoTask}, placed : AnyRange,
              target : AnyRange, moving : BOOLEAN]
ComponentViews == [shows : Names \cup {NoTask}, placed : AnyRange,
                   target : AnyRange, moving : BOOLEAN, data : AnyRange]

PageTyped ==
    /\ page \in Pages
    /\ page.mode = "component" => page.comp \in Names
    /\ taskView \in TaskViews
    /\ compView \in ComponentViews
    /\ calls \in Seq(Calls)
    /\ handlers \in Seq(Handlers)

AllHeld == \A i \in DOMAIN handlers : Held(handlers[i])
ReloadDue == \E i \in DOMAIN handlers : Due(handlers[i])

\* Where the bars of the component view are going.
Goal == IF compView.moving THEN compView.target ELSE compView.placed

\* The bars are going where the axis is, unless something is still to come.
BarsCatchUp ==
    compView.shows # NoTask => calls # <<>> \/ ReloadDue \/ Goal = page.range

\* A page of no task yet has a task on its way, or nothing on it.
TaskIsComing ==
    NothingToReload =>
        \/ \E i \in DOMAIN calls : calls[i].wait # "component"
        \/ calls = <<>> /\ compView.shows = NoTask

\* The range in which a URL shows its page.
Expected(e) ==
    IF e.range # NoRange THEN e.range
    ELSE IF e.page = "task" THEN RangeOf[e.key] ELSE SimRange

\* The chain of requests is about the URL and will show it on a page p.
ServesOn(p, c, e) ==
    \/ c.wait = "simulation" /\ e.page = "task" /\ e.key = NoTask
    \/ c.wait = "find" /\ e.page = "task" /\ e.key = c.key /\ c.range = e.range
    \/ c.wait = "span" /\ e.page = "component" /\ e.key = c.key /\ e.range = NoRange
    \/ /\ c.wait = "task"
       /\ e.page = "task" /\ p.mode = "task" /\ e.key = c.key
       /\ IF c.keep THEN e.range # NoRange /\ p.range = e.range
          ELSE e.range = NoRange
    \/ /\ c.wait \in {"parent", "where"}
       /\ e.page = "task" /\ p.mode = "task" /\ e.key = c.key
       /\ p.range = Expected(e)
       /\ c.wait = "where" => c.range = p.range
    \/ /\ c.wait = "component"
       /\ e.page = "component" /\ p.mode = "component"
       /\ e.key = c.key /\ p.comp = c.key
       /\ p.range = Expected(e) /\ c.range = p.range
Serves(c, e) == ServesOn(page, c, e)

\* A patient user waits for one chain of requests...
Visiting ==
    /\ Len(calls) = 1 /\ Serves(calls[1], Url)
    /\ \A i \in DOMAIN handlers : Idle(handlers[i])

\* ... or looks at what the URL says and may shift its range.
Showing(e) ==
    /\ page.mode = e.page
    /\ e.page = "task" =>
        /\ e.key \in Tasks /\ page.curr = e.key
        /\ taskView.shows = e.key /\ compView.shows = Where[e.key]
    /\ e.page = "component" => page.comp = e.key /\ compView.shows = e.key

Staying ==
    /\ Showing(Url) /\ page.range # NoRange
    /\ \A i \in DOMAIN calls :
        /\ Serves(calls[i], Url)
        /\ calls[i].wait \in {"task", "parent", "where", "component"}
        /\ calls[i].wait = "task" => calls[i].keep
    /\ calls = <<>> =>
        ReloadDue \/ (page.range = Expected(Url) /\ compView.data = page.range)

PatientPage == patient => Visiting \/ Staying

TaskPageInv ==
    /\ nav \in Histories(PageUrls)
    /\ PageTyped /\ AllHeld /\ BarsCatchUp /\ TaskIsComing /\ PatientPage

-----------------------------------------------------------------------------
(* The dashboard *)

DataSet == [info : Axes, range : AnyRange]
Dashboards ==
    [loads : Nat, loaded : BOOLEAN, zooms : Nat, filterTimer : BOOLEAN,
     typed : Filters, filter : Filters, filtered : Seq(Names), cells : Nat,
     page : Nat, axes : [Sides -> Axes], range : AnyRange]
WidgetSet ==
    [name : Names, range : AnyRange, axes : [Sides -> Axes],
     data : [Sides -> DataSet], svg : Nat, curves : SUBSET DataSet,
     handler : Handlers, stray : Nat]
FetchSet ==
    [widget : Nat, svg : Nat, side : Sides, info : Axes \ {Skip}, range : AnyRange]

DashTyped ==
    /\ dash \in Dashboards
    /\ widgets \in Seq(WidgetSet)
    /\ DOMAIN fetches \subseteq FetchSet
    /\ \A f \in DOMAIN fetches : f.widget \in DOMAIN widgets
    /\ DOMAIN orphans \subseteq AnyRange

Pending(k, s) == \E f \in DOMAIN fetches : f.widget = k /\ f.side = s

\* Data that is missing has been asked for.
MissingIsAsked ==
    \A k \in DOMAIN widgets, s \in Sides : Missing(widgets[k], s) => Pending(k, s)

\* The URL takes the range of the dashboard, whatever the user does.
RangeIsUrls == dash.loaded /\ dash.loads = 0 => dash.range = Url.range

\* A patient user does one thing at a time: opens a page, resets the zoom,
\* filters, or drags, pinches and scrolls on one widget.
Quiet == \A k \in DOMAIN widgets : Idle(widgets[k].handler)
OneThing ==
    /\ DOMAIN orphans = {}
    /\ \A k \in DOMAIN widgets : widgets[k].stray = 0
    /\ dash.loads > 0 => /\ dash.loads = 1 /\ dash.zooms = 0 /\ ~dash.filterTimer
                         /\ fetches = EmptyBag /\ Quiet
    /\ dash.zooms > 0 => /\ dash.zooms = 1 /\ dash.loads = 0 /\ ~dash.filterTimer
                         /\ fetches = EmptyBag /\ Quiet
    /\ dash.filterTimer => /\ dash.zooms = 0 /\ dash.loads = 0
                           /\ fetches = EmptyBag /\ Quiet
    /\ \A j, k \in DOMAIN widgets :
        ~Idle(widgets[j].handler) /\ ~Idle(widgets[k].handler) => j = k
    /\ \A k \in DOMAIN widgets : dash.loaded /\ Held(widgets[k].handler)

\* The dashboard and its widgets are those of the URL.
Synced ==
    dash.loaded /\ dash.loads = 0 =>
        /\ dash.page = Url.number /\ dash.filter = Url.filter
        /\ dash.axes = Url.axes
        /\ dash.filtered = Matches[dash.filter]
        /\ dash.cells = Cells(Len(Matches[dash.filter]))
        /\ [k \in DOMAIN widgets |-> widgets[k].name]
             = PageOf(dash.filtered, dash.page, dash.cells)
        /\ \A k \in DOMAIN widgets :
            /\ widgets[k].axes = dash.axes
            /\ \/ widgets[k].range = dash.range
               \/ Due(widgets[k].handler) /\ fetches = EmptyBag

\* What a widget k shows and has asked for.
AsksItsOwn(k) ==
    \A f \in DOMAIN fetches : f.widget = k =>
        /\ f.svg = widgets[k].svg
        /\ f.info = widgets[k].axes[f.side]
        /\ f.range = widgets[k].range
Here(k, s) == ~Skipped(widgets[k], s) /\ ~Pending(k, s)
HasData(k) ==
    \A s \in Sides : Here(k, s) =>
        LET d == widgets[k].data[s]
        IN  /\ d.info = widgets[k].axes[s] /\ d \in widgets[k].curves
            /\ \/ d.range = widgets[k].range
               \/ Due(widgets[k].handler) /\ fetches = EmptyBag
            /\ \A c \in widgets[k].curves : c.info = d.info => c = d
DrawsItsAxes(w) ==
    \A c \in w.curves : \E s \in Sides : ~Skipped(w, s) /\ c.info = w.axes[s]
Complete(w) == \A s \in Sides : ~Skipped(w, s) => w.data[s].info = w.axes[s]
Curves ==
    \A k \in DOMAIN widgets :
        /\ AsksItsOwn(k) /\ HasData(k) /\ DrawsItsAxes(widgets[k])
        /\ ~Quiet => Complete(widgets[k])

PatientBoard == patient => OneThing /\ Synced /\ Curves

DashboardRuns ==
    /\ nav \in Histories(DashboardUrls)
    /\ DashTyped /\ MissingIsAsked /\ RangeIsUrls /\ PatientBoard

DashboardInv == DashboardRuns /\ TaskPageAbsent

AppInv == (TaskPageInv /\ widgets = <<>>) \/ DashboardInv

-----------------------------------------------------------------------------
(* Lemmas: lists *)

\* An element of a list is replaced.
LEMMA Replaced ==
    ASSUME NEW S, NEW s \in Seq(S), NEW i \in DOMAIN s, NEW c \in S,
           NEW t, t = [s EXCEPT ![i] = c]
    PROVE  /\ t \in Seq(S) /\ t # <<>> /\ Len(t) = Len(s)
           /\ DOMAIN t = DOMAIN s /\ i \in DOMAIN t /\ t[i] = c
           /\ \A j \in DOMAIN s : j # i => t[j] = s[j]
<1>1. DOMAIN s = 1..Len(s) /\ Len(s) \in Nat
  BY LenProperties
<1>2. i \in 1..Len(s)
  BY <1>1
<1>3. /\ t \in Seq(S) /\ Len(t) = Len(s)
      /\ \A j \in 1..Len(s) : t[j] = IF j = i THEN c ELSE s[j]
  BY <1>2, ExceptSeq
<1>4. DOMAIN t = 1..Len(t)
  BY <1>3, LenProperties
<1>5. t # <<>>
  BY <1>1, <1>2, <1>3
<1> QED BY <1>1, <1>2, <1>3, <1>4, <1>5

\* One more element.
LEMMA OneMore ==
    ASSUME NEW S, NEW s \in Seq(S), NEW c \in S, NEW t, t = Append(s, c)
    PROVE  /\ t \in Seq(S) /\ t # <<>> /\ Len(t) = Len(s) + 1
           /\ Len(t) \in DOMAIN t /\ t[Len(t)] = c
           /\ DOMAIN s \subseteq DOMAIN t
           /\ \A j \in DOMAIN s : t[j] = s[j]
           /\ \A j \in DOMAIN t : j \in DOMAIN s \/ t[j] = c
<1>1. DOMAIN s = 1..Len(s) /\ Len(s) \in Nat
  BY LenProperties
<1>2. /\ t \in Seq(S) /\ t # <<>> /\ Len(t) = Len(s) + 1
      /\ \A j \in 1..Len(s) : t[j] = s[j]
      /\ t[Len(s) + 1] = c
  BY AppendProperties
<1>3. DOMAIN t = 1..Len(t)
  BY <1>2, LenProperties
<1>4. Len(t) \in DOMAIN t /\ t[Len(t)] = c
  BY <1>1, <1>2, <1>3
<1>5. DOMAIN s \subseteq DOMAIN t
  BY <1>1, <1>2, <1>3
<1>6. ASSUME NEW j \in DOMAIN t, j \notin DOMAIN s
      PROVE  t[j] = c
  <2>1. j = Len(s) + 1
    BY <1>1, <1>2, <1>3, <1>6
  <2> QED BY <1>2, <2>1
<1> QED BY <1>1, <1>2, <1>4, <1>5, <1>6

\* An element is taken out.
LEMMA TakenOut ==
    ASSUME NEW S, NEW s \in Seq(S), NEW i \in DOMAIN s, NEW t, t = RemoveAt(s, i)
    PROVE  /\ t \in Seq(S) /\ Len(t) = Len(s) - 1
           /\ \A j \in DOMAIN t : \E k \in DOMAIN s : k # i /\ t[j] = s[k]
           /\ \A k \in DOMAIN s : k # i => \E j \in DOMAIN t : t[j] = s[k]
<1>1. PICK l \in Nat : l = Len(s) /\ DOMAIN s = 1..l
  BY LenProperties
<1>2. i \in 1..l /\ \A j \in 1..l : s[j] \in S
  BY <1>1, ElementOfSeq
<1> DEFINE a == SubSeq(s, 1, i - 1)
           b == SubSeq(s, i + 1, l)
<1>3. /\ a \in Seq(S) /\ Len(a) = i - 1
      /\ \A j \in 1..(i - 1) : a[j] = s[j]
  <2>1. 1 \in Int /\ i - 1 \in Int /\ \A j \in 1..(i - 1) : s[j] \in S
    BY <1>2
  <2>2. /\ a \in Seq(S) /\ Len(a) = IF 1 <= i - 1 THEN (i - 1) - 1 + 1 ELSE 0
        /\ \A j \in 1..((i - 1) - 1 + 1) : a[j] = s[1 + j - 1]
    BY <2>1, SubSeqProperties
  <2>3. Len(a) = i - 1
    BY <1>2, <2>2
  <2>4. ASSUME NEW j \in 1..(i - 1) PROVE a[j] = s[j]
    <3>1. j \in 1..((i - 1) - 1 + 1) /\ 1 + j - 1 = j
      BY <1>2, <2>4
    <3> QED BY <2>2, <3>1
  <2> QED BY <2>2, <2>3, <2>4
<1>4. /\ b \in Seq(S) /\ Len(b) = l - i
      /\ \A j \in 1..(l - i) : b[j] = s[i + j]
  <2>1. i + 1 \in Int /\ l \in Int /\ \A j \in (i + 1)..l : s[j] \in S
    BY <1>2
  <2>2. /\ b \in Seq(S) /\ Len(b) = IF i + 1 <= l THEN l - (i + 1) + 1 ELSE 0
        /\ \A j \in 1..(l - (i + 1) + 1) : b[j] = s[(i + 1) + j - 1]
    BY <2>1, SubSeqProperties
  <2>3. Len(b) = l - i
    BY <1>2, <2>2
  <2>4. ASSUME NEW j \in 1..(l - i) PROVE b[j] = s[i + j]
    <3>1. j \in 1..(l - (i + 1) + 1) /\ (i + 1) + j - 1 = i + j
      BY <1>2, <2>4
    <3> QED BY <2>2, <3>1
  <2> QED BY <2>2, <2>3, <2>4
<1>5. t = a \o b
  BY <1>1 DEF RemoveAt
<1> HIDE DEF a, b
<1>6. /\ t \in Seq(S) /\ Len(t) = l - 1
      /\ \A j \in 1..(l - 1) : t[j] = IF j <= i - 1 THEN a[j] ELSE b[j - (i - 1)]
  <2>1. /\ t \in Seq(S) /\ Len(t) = Len(a) + Len(b)
        /\ \A j \in 1..(Len(a) + Len(b)) :
              t[j] = IF j <= Len(a) THEN a[j] ELSE b[j - Len(a)]
    <3>1. a \in Seq(S) /\ b \in Seq(S)
      BY <1>3, <1>4
    <3>2. /\ a \o b \in Seq(S) /\ Len(a \o b) = Len(a) + Len(b)
          /\ \A j \in 1..(Len(a) + Len(b)) :
                (a \o b)[j] = IF j <= Len(a) THEN a[j] ELSE b[j - Len(a)]
      BY <3>1, ConcatProperties
    <3> QED BY <1>5, <3>2
  <2>2. Len(a) + Len(b) = l - 1
    BY <1>2, <1>3, <1>4
  <2> QED BY <1>3, <2>1, <2>2
<1>7. DOMAIN t = 1..(l - 1)
  BY <1>6, LenProperties
<1>8. ASSUME NEW j \in DOMAIN t
      PROVE  \E k \in DOMAIN s : k # i /\ t[j] = s[k]
  <2>1. CASE j <= i - 1
    <3>1. j \in 1..l /\ j # i /\ j \in 1..(i - 1)
      BY <1>2, <1>7, <2>1
    <3> QED BY <1>1, <1>3, <1>6, <1>7, <2>1, <3>1
  <2>2. CASE ~(j <= i - 1)
    <3>1. j - (i - 1) \in 1..(l - i) /\ i + (j - (i - 1)) = j + 1
          /\ j + 1 \in 1..l /\ j + 1 # i
      BY <1>2, <1>7, <2>2
    <3>2. t[j] = s[j + 1]
      BY <1>4, <1>6, <1>7, <2>2, <3>1
    <3> QED BY <1>1, <3>1, <3>2
  <2> QED BY <2>1, <2>2
<1>9. ASSUME NEW k \in DOMAIN s, k # i
      PROVE  \E j \in DOMAIN t : t[j] = s[k]
  <2>1. CASE k <= i - 1
    <3>1. k \in 1..(l - 1) /\ k \in 1..(i - 1)
      BY <1>1, <1>2, <2>1
    <3> QED BY <1>3, <1>6, <1>7, <2>1, <3>1
  <2>2. CASE ~(k <= i - 1)
    <3>1. k - 1 \in 1..(l - 1) /\ ~(k - 1 <= i - 1) /\ k - i \in 1..(l - i)
          /\ (k - 1) - (i - 1) = k - i /\ i + (k - i) = k
      BY <1>1, <1>2, <1>9, <2>2
    <3>2. t[k - 1] = s[k]
      BY <1>4, <1>6, <3>1
    <3> QED BY <1>7, <3>1, <3>2
  <2> QED BY <2>1, <2>2
<1> QED BY <1>1, <1>6, <1>8, <1>9

-----------------------------------------------------------------------------
(* Lemmas: the session history *)

\* The current entry.
LEMMA HistoryUrl ==
    ASSUME NEW S, NEW n \in Histories(S)
    PROVE  n.entries[n.pos] \in S
BY ElementOfSeq DEF Histories

\* A new entry after the current one.
LEMMA HistoryPush ==
    ASSUME NEW S, NEW n \in Histories(S), NEW e \in S, NEW m, m = pushState(n, e)
    PROVE  m \in Histories(S) /\ m.entries[m.pos] = e
<1>1. PICK s \in Seq(S), p \in Nat : n.entries = s /\ n.pos = p /\ p \in 1..Len(s)
  BY DEF Histories
<1>2. \A j \in 1..p : s[j] \in S
  BY <1>1, ElementOfSeq, LenProperties
<1> DEFINE a == SubSeq(s, 1, p)
<1>3. a \in Seq(S) /\ Len(a) = p
  BY <1>1, <1>2, SubSeqProperties
<1> HIDE DEF a
<1>4. /\ Append(a, e) \in Seq(S) /\ Len(Append(a, e)) = p + 1
      /\ Append(a, e)[p + 1] = e
  BY <1>3, AppendProperties
<1>5. m = [entries |-> Append(a, e), pos |-> p + 1]
  BY <1>1 DEF pushState, a
<1>6. p + 1 \in Nat /\ p + 1 \in 1..(p + 1)
  OBVIOUS
<1> QED BY <1>4, <1>5, <1>6 DEF Histories

\* Another entry in the place of the current one.
LEMMA HistoryReplace ==
    ASSUME NEW S, NEW n \in Histories(S), NEW e \in S, NEW m, m = replaceState(n, e)
    PROVE  m \in Histories(S) /\ m.entries[m.pos] = e
<1>1. PICK s \in Seq(S), p \in Nat :
        n = [entries |-> s, pos |-> p] /\ p \in 1..Len(s)
  BY DEF Histories
<1>2. m = [entries |-> [s EXCEPT ![p] = e], pos |-> p]
  BY <1>1 DEF replaceState
<1>3. /\ [s EXCEPT ![p] = e] \in Seq(S)
      /\ Len([s EXCEPT ![p] = e]) = Len(s)
      /\ [s EXCEPT ![p] = e][p] = e
  BY <1>1, ExceptSeq
<1> QED BY <1>1, <1>2, <1>3 DEF Histories

\* Back and Forward.
LEMMA HistoryTravel ==
    ASSUME NEW S, nav \in Histories(S), Travel
    PROVE  nav' \in Histories(S)
<1>1. PICK p \in {nav.pos - 1, nav.pos + 1} \cap DOMAIN nav.entries :
        nav' = [nav EXCEPT !.pos = p]
  BY DEF Travel
<1>2. nav.entries \in Seq(S) /\ nav \in [entries : Seq(S), pos : Nat]
  BY DEF Histories
<1>3. p \in 1..Len(nav.entries) /\ Len(nav.entries) \in Nat
  BY <1>1, <1>2, LenProperties
<1> QED BY <1>1, <1>2, <1>3 DEF Histories

-----------------------------------------------------------------------------
(* Lemmas: MouseEventHandler *)

\* The handler after an event: it drags only while held, a shift makes a
\* reload due, and what was due is due or done.
LEMMA HandlerReacts ==
    ASSUME NEW h \in Handlers, NEW e \in PointerEvents, PointerMoves(e), Held(h),
           NEW g, g = React(h, e)
    PROVE  /\ g \in Handlers /\ Held(g)'
           /\ Shifts(h, e) => Due(g)'
           /\ Due(h) => Due(g)' \/ Reloads(h, e)
<1>1. CASE e = "mousedown"
  BY <1>1 DEF PointerMoves, Held, React, Due, Shifts, Reloads, Handlers
<1>2. CASE e = "mousemove"
  BY <1>2 DEF PointerMoves, Held, React, Due, Shifts, Reloads, Handlers
<1>3. CASE e = "mouseup"
  BY <1>3 DEF PointerMoves, Held, React, Due, Shifts, Reloads, Handlers
<1>4. CASE e = "wheel"
  BY <1>4 DEF PointerMoves, Held, React, Due, Shifts, Reloads, Handlers
<1>5. CASE e = "touchstart"
  BY <1>5 DEF PointerMoves, Held, React, Due, Shifts, Reloads, Handlers
<1>6. CASE e = "pinchstart"
  BY <1>6 DEF PointerMoves, Held, React, Due, Shifts, Reloads, Handlers
<1>7. CASE e = "touchmove"
  BY <1>7 DEF PointerMoves, Held, React, Due, Shifts, Reloads, Handlers
<1>8. CASE e = "touchend"
  BY <1>8 DEF PointerMoves, Held, React, Due, Shifts, Reloads, Handlers
<1> QED BY <1>1, <1>2, <1>3, <1>4, <1>5, <1>6, <1>7, <1>8
        DEF PointerEvents, Touches

\* The timer of a handler stops it.
LEMMA HandlerTimer ==
    ASSUME NEW h \in Handlers, NEW g, g = React(h, "timer")
    PROVE  /\ g \in Handlers /\ ~g.timer
           /\ g.dragging = h.dragging /\ g.moved = h.moved
           /\ g.pinching = h.pinching
BY DEF React, Handlers

\* A press, and a release.
LEMMA HandlerPressed ==
    ASSUME NEW h \in Handlers, NEW g, g = React(h, "mousedown")
    PROVE  g \in Handlers /\ g.pinching = h.pinching /\ g.timer = h.timer
BY DEF React, Handlers

LEMMA HandlerReleased ==
    ASSUME NEW h \in Handlers, NEW g, g = React(h, "mouseup")
    PROVE  /\ g \in Handlers /\ ~g.dragging
           /\ g.pinching = h.pinching /\ g.timer = h.timer
BY DEF React, Handlers

LEMMA NewHandlerTyped == NewHandler \in Handlers /\ Idle(NewHandler) /\ ~NewHandler.dragging
BY DEF NewHandler, Handlers, Idle

-----------------------------------------------------------------------------
(* Lemmas: the task page *)

\* The parts of a URL of the page.
LEMMA PageUrlParts ==
    ASSUME NEW e \in PageUrls
    PROVE  /\ e.range \in AnyRange
           /\ \/ e.page = "task" /\ e.key \in Tasks \cup {NoTask} /\ e \in TaskUrls
              \/ e.page = "component" /\ e.key \in Names /\ e \in ComponentUrls
BY DEF PageUrls, TaskUrls, ComponentUrls, Names

\* The range of a URL is a range.
LEMMA ExpectedTyped ==
    ASSUME NEW e \in PageUrls, e.page = "task" => e.key \in Tasks
    PROVE  Expected(e) \in Ranges /\ Expected(e) # NoRange
BY PageUrlParts, TaskPageAssumption DEF Expected, AnyRange

\* The parts of a chain of requests.
LEMMA CallParts ==
    ASSUME NEW c \in Calls
    PROVE  /\ c.range \in AnyRange /\ c.keep \in BOOLEAN
           /\ \/ c.wait = "simulation" /\ c.key = NoTask
              \/ c.wait \in TaskWaits /\ c.key \in Tasks
              \/ c.wait \in {"span", "component"} /\ c.key \in Names
BY DEF Calls, TaskWaits

\* A chain about a task, and one about a component.
LEMMA TaskCallTyped ==
    ASSUME NEW w \in TaskWaits, NEW t \in Tasks, NEW k \in BOOLEAN, NEW r \in AnyRange
    PROVE  Call(w, t, k, r) \in Calls
BY DEF Call, Calls

LEMMA ComponentCallTyped ==
    ASSUME NEW w \in {"span", "component"}, NEW n \in Names, NEW k \in BOOLEAN,
           NEW r \in AnyRange
    PROVE  Call(w, n, k, r) \in Calls
BY DEF Call, Calls

\* The first request of a visit is about the URL of the visit.
LEMMA RouteTyped ==
    ASSUME NEW e \in PageUrls
    PROVE  /\ RouteCall(e) \in Calls
           /\ RouteCall(e).wait = "component" <=> e.page = "component" /\ e.range # NoRange
<1>1. CASE e.page = "task" /\ e.key = NoTask
  <2>1. RouteCall(e) = Call("simulation", NoTask, FALSE, NoRange)
    BY <1>1 DEF RouteCall
  <2> QED BY <1>1, <2>1 DEF Call, Calls, AnyRange
<1>2. CASE e.page = "task" /\ e.key # NoTask
  <2>1. RouteCall(e) = Call("find", e.key, FALSE, e.range)
    BY <1>2 DEF RouteCall
  <2>2. e.key \in Tasks /\ e.range \in AnyRange
    BY <1>2, PageUrlParts
  <2>3. Call("find", e.key, FALSE, e.range) \in Calls
    BY <2>2 DEF Calls, Call, TaskWaits
  <2> QED BY <1>2, <2>1, <2>3 DEF Call
<1>3. CASE e.page = "component" /\ e.range = NoRange
  <2>1. RouteCall(e) = Call("span", e.key, FALSE, NoRange)
    BY <1>3 DEF RouteCall
  <2>2. e.key \in Names
    BY <1>3, PageUrlParts
  <2>3. Call("span", e.key, FALSE, NoRange) \in Calls
    BY <2>2 DEF Calls, Call, AnyRange
  <2> QED BY <1>3, <2>1, <2>3 DEF Call
<1>4. CASE e.page = "component" /\ e.range # NoRange
  <2>1. RouteCall(e) = Call("component", e.key, FALSE, e.range)
    BY <1>4 DEF RouteCall
  <2>2. e.key \in Names /\ e.range \in AnyRange
    BY <1>4, PageUrlParts
  <2>3. Call("component", e.key, FALSE, e.range) \in Calls
    BY <2>2 DEF Calls, Call
  <2> QED BY <1>4, <2>1, <2>3 DEF Call
<1> QED BY <1>1, <1>2, <1>3, <1>4, PageUrlParts

\* The visit of a URL begins with a request that serves it.
LEMMA RouteServes ==
    ASSUME NEW e \in PageUrls, NEW p,
           e.page = "component" /\ e.range # NoRange =>
             p.mode = "component" /\ p.comp = e.key /\ p.range = e.range
    PROVE  ServesOn(p, RouteCall(e), e)
<1>1. CASE e.page = "task" /\ e.key = NoTask
  BY <1>1 DEF RouteCall, Call, ServesOn
<1>2. CASE e.page = "task" /\ e.key # NoTask
  BY <1>2 DEF RouteCall, Call, ServesOn
<1>3. CASE e.page = "component" /\ e.range = NoRange
  BY <1>3 DEF RouteCall, Call, ServesOn
<1>4. CASE e.page = "component" /\ e.range # NoRange
  BY <1>4 DEF RouteCall, Call, ServesOn, Expected
<1> QED BY <1>1, <1>2, <1>3, <1>4, PageUrlParts

\* An answer takes a chain one request further.
LEMMA ChainGoesOn ==
    ASSUME TaskPageInv, NEW i \in DOMAIN calls, NEW c \in Calls,
           calls' = [calls EXCEPT ![i] = c],
           c.wait # "component" \/ page'.mode = "component",
           page' \in Pages, page'.mode = "component" => page'.comp \in Names,
           taskView' \in TaskViews, compView' \in ComponentViews,
           handlers' = handlers, patient' = patient, pointer' = pointer,
           nav' \in Histories(PageUrls),
           patient => (Visiting \/ Staying)'
    PROVE  TaskPageInv'
<1>1. calls \in Seq(Calls) /\ handlers \in Seq(Handlers)
  BY DEF TaskPageInv, PageTyped
<1>2. /\ calls' \in Seq(Calls) /\ calls' # <<>>
      /\ i \in DOMAIN calls' /\ calls'[i] = c
  BY <1>1, Replaced
<1>3. PageTyped'
  BY <1>1, <1>2 DEF PageTyped
<1>4. AllHeld'
  BY DEF TaskPageInv, AllHeld, Held
<1>5. BarsCatchUp'
  BY <1>2 DEF BarsCatchUp
<1>6. TaskIsComing'
  BY <1>2 DEF TaskIsComing, NothingToReload
<1> QED BY <1>3, <1>4, <1>5, <1>6 DEF TaskPageInv, PatientPage

\* The chain a patient user waits for goes on.
LEMMA VisitGoesOn ==
    ASSUME PageTyped, Visiting, NEW i \in DOMAIN calls, NEW c \in Calls,
           calls' = [calls EXCEPT ![i] = c], handlers' = handlers,
           NEW e, Url' = e, Serves(c, e)'
    PROVE  Visiting'
<1>1. Len(calls) = 1 /\ calls \in Seq(Calls) /\ \A j \in DOMAIN handlers : Idle(handlers[j])
  BY DEF PageTyped, Visiting
<1>2. DOMAIN calls = 1..Len(calls)
  BY <1>1, LenProperties
<1>3. i = 1
  BY <1>1, <1>2
<1>4. Len(calls') = 1 /\ calls'[1] = c
  BY <1>1, <1>3, Replaced
<1> QED BY <1>1, <1>4 DEF Visiting, Serves, ServesOn

\* A call that is about to be answered.
LEMMA CallAnswered ==
    ASSUME TaskPageInv, NEW i \in DOMAIN calls
    PROVE  /\ calls[i] \in Calls /\ Url \in PageUrls
           /\ patient => \/ Visiting /\ Serves(calls[i], Url) /\ i = 1 /\ DOMAIN calls = {1}
                         \/ Staying /\ Serves(calls[i], Url)
                            /\ calls[i].wait \in {"task", "parent", "where", "component"}
                            /\ (calls[i].wait = "task" => calls[i].keep)
<1>1. calls \in Seq(Calls) /\ nav \in Histories(PageUrls)
  BY DEF TaskPageInv, PageTyped
<1>2. DOMAIN calls = 1..Len(calls) /\ calls[i] \in Calls
  BY <1>1, LenProperties, ElementOfSeq
<1>3. Url \in PageUrls
  BY <1>1, HistoryUrl DEF Url
<1>4. CASE patient /\ Visiting
  <2>1. i = 1 /\ DOMAIN calls = {1}
    BY <1>2, <1>4 DEF Visiting
  <2> QED BY <1>2, <1>3, <1>4, <2>1 DEF Visiting
<1>5. CASE patient /\ Staying
  BY <1>2, <1>3, <1>5 DEF Staying
<1> QED BY <1>2, <1>3, <1>4, <1>5 DEF TaskPageInv, PatientPage

LEMMA SimulationKeeps ==
    ASSUME TaskPageInv, NEW i \in DOMAIN calls, SimulationAnswered(i)
    PROVE  TaskPageInv'
<1> DEFINE c == showTask(Sim, FALSE)
           e == TaskUrl(Sim)
<1>1. PageTyped /\ nav \in Histories(PageUrls) /\ page \in Pages
  BY DEF TaskPageInv, PageTyped
<1>2. c \in Calls /\ c = Call("task", Sim, FALSE, NoRange) /\ e \in PageUrls
  <2>1. NoRange \in AnyRange /\ Sim \in Tasks /\ "task" \in TaskWaits /\ FALSE \in BOOLEAN
    BY TaskPageAssumption DEF AnyRange, TaskWaits
  <2>2. Call("task", Sim, FALSE, NoRange) \in Calls
    BY <2>1 DEF Calls, Call, TaskWaits
  <2> QED BY <2>1, <2>2 DEF showTask, TaskUrl, PageUrls, TaskUrls
<1>3. /\ nav' = pushState(nav, e) /\ calls' = [calls EXCEPT ![i] = c]
      /\ page' = [page EXCEPT !.mode = "task"] /\ calls[i].wait = "simulation"
      /\ UNCHANGED <<taskView, compView, colors, handlers, patient, pointer>>
  BY DEF SimulationAnswered
<1>4. nav' \in Histories(PageUrls) /\ Url' = e
  BY <1>1, <1>2, <1>3, HistoryPush DEF Url
<1>5. c.wait = "task"
  BY DEF Call, showTask
<1>6. page' \in Pages /\ page'.mode = "task"
  BY <1>1, <1>3 DEF Pages
<1>7. patient => Visiting /\ Serves(c, e)'
  BY <1>2, <1>3, <1>6, CallAnswered DEF Serves, ServesOn, TaskUrl, Call, showTask
<1> HIDE DEF c, e
<1>8. patient => Visiting'
  BY <1>1, <1>2, <1>3, <1>4, <1>7, VisitGoesOn
<1> QED BY <1>1, <1>2, <1>3, <1>4, <1>5, <1>6, <1>8, ChainGoesOn DEF PageTyped

\* Bars that jump to an axis are bars.
LEMMA PlacedTyped ==
    ASSUME PageTyped, NEW r \in AnyRange
    PROVE  /\ Placed(taskView, r) \in TaskViews /\ Placed(compView, r) \in ComponentViews
           /\ Placed(compView, r).shows = compView.shows
           /\ Placed(compView, r).data = compView.data
           /\ Placed(taskView, r).shows = taskView.shows
           /\ [page EXCEPT !.range = r] \in Pages
BY DEF PageTyped, Placed, TaskViews, ComponentViews, Pages

LEMMA FindKeeps ==
    ASSUME TaskPageInv, NEW i \in DOMAIN calls, FindAnswered(i)
    PROVE  TaskPageInv'
<1>1. PageTyped /\ nav \in Histories(PageUrls) /\ page \in Pages
  BY DEF TaskPageInv, PageTyped
<1>2. PICK b \in Calls, e \in PageUrls : b = calls[i] /\ e = Url
  BY CallAnswered
<1>3. b.wait = "find" /\ b.key \in Tasks /\ b.range \in AnyRange
  BY <1>2, CallParts DEF FindAnswered
<1> DEFINE c == showTask(b.key, b.range # NoRange)
<1>4. c \in Calls /\ c = Call("task", b.key, b.range # NoRange, NoRange)
  <2>1. NoRange \in AnyRange /\ "task" \in TaskWaits
    BY DEF AnyRange, TaskWaits
  <2>2. (b.range # NoRange) \in BOOLEAN
    OBVIOUS
  <2>3. \A k \in BOOLEAN : Call("task", b.key, k, NoRange) \in Calls
    BY <1>3, <2>1, TaskCallTyped
  <2> QED BY <2>2, <2>3 DEF showTask
<1>5. /\ calls' = [calls EXCEPT ![i] = c]
      /\ page' = [page EXCEPT !.mode = "task",
                              !.range = IF b.range = NoRange THEN page.range ELSE b.range]
      /\ taskView' = IF b.range = NoRange THEN taskView ELSE Placed(taskView, b.range)
      /\ compView' = IF b.range = NoRange THEN compView ELSE Placed(compView, b.range)
      /\ UNCHANGED <<colors, handlers, nav, patient, pointer>>
  BY <1>1, <1>2 DEF FindAnswered, browserVars, Pages
<1>6. /\ page' \in Pages /\ page'.mode = "task"
      /\ b.range # NoRange => page'.range = b.range
  BY <1>1, <1>3, <1>5 DEF Pages
<1>7. taskView' \in TaskViews /\ compView' \in ComponentViews
  BY <1>1, <1>3, <1>5, PlacedTyped DEF PageTyped
<1>8. Url' = e
  BY <1>2, <1>5 DEF Url
<1>9. patient => Visiting /\ Serves(c, e)'
  <2> SUFFICES ASSUME patient PROVE Visiting /\ Serves(c, e)'
    OBVIOUS
  <2>1. Visiting /\ Serves(b, e)
    BY <1>2, <1>3, CallAnswered
  <2>2. e.page = "task" /\ e.key = b.key /\ b.range = e.range
    BY <1>3, <2>1 DEF Serves, ServesOn
  <2>3. CASE b.range = NoRange
    <3>1. c = Call("task", b.key, FALSE, NoRange)
      BY <2>3 DEF showTask
    <3> HIDE DEF c
    <3> QED BY <1>6, <2>1, <2>2, <2>3, <3>1 DEF Serves, ServesOn, Call
  <2>4. CASE b.range # NoRange
    <3>1. c = Call("task", b.key, TRUE, NoRange)
      BY <2>4 DEF showTask
    <3> HIDE DEF c
    <3> QED BY <1>6, <2>1, <2>2, <2>4, <3>1 DEF Serves, ServesOn, Call
  <2> QED BY <2>3, <2>4
<1>10. c.wait = "task"
  BY DEF Call, showTask
<1> HIDE DEF c
<1>11. patient => Visiting'
  BY <1>1, <1>4, <1>5, <1>8, <1>9, VisitGoesOn
<1> QED BY <1>1, <1>4, <1>5, <1>6, <1>7, <1>10, <1>11, ChainGoesOn

LEMMA SpanKeeps ==
    ASSUME TaskPageInv, NEW i \in DOMAIN calls, SpanAnswered(i)
    PROVE  TaskPageInv'
<1>1. PageTyped /\ nav \in Histories(PageUrls) /\ page \in Pages
  BY DEF TaskPageInv, PageTyped
<1>2. PICK b \in Calls : b = calls[i]
  BY CallAnswered
<1>3. b.wait = "span" /\ b.key \in Names
  BY <1>2, CallParts DEF SpanAnswered, TaskWaits
<1> DEFINE c == Call("component", b.key, FALSE, SimRange)
           e == ComponentUrl(b.key)
<1>4. SimRange \in AnyRange /\ NoRange \in AnyRange /\ SimRange # NoRange
  BY TaskPageAssumption DEF AnyRange
<1>5. c \in Calls /\ e \in PageUrls
  BY <1>3, <1>4 DEF Calls, Call, ComponentUrl, PageUrls, ComponentUrls, Names
<1>6. /\ nav' = replaceState(nav, e) /\ calls' = [calls EXCEPT ![i] = c]
      /\ page' = [page EXCEPT !.range = SimRange, !.mode = "component", !.comp = b.key]
      /\ taskView' = Placed(taskView, SimRange) /\ compView' = Placed(compView, SimRange)
      /\ UNCHANGED <<colors, handlers, patient, pointer>>
  BY <1>2 DEF SpanAnswered
<1>7. nav' \in Histories(PageUrls) /\ Url' = e
  BY <1>1, <1>5, <1>6, HistoryReplace DEF Url
<1>8. /\ page' \in Pages /\ page'.mode = "component" /\ page'.comp = b.key
      /\ page'.range = SimRange
  BY <1>1, <1>3, <1>4, <1>6 DEF Pages
<1>9. taskView' \in TaskViews /\ compView' \in ComponentViews
  BY <1>1, <1>4, <1>6, PlacedTyped
<1>10. patient => Visiting /\ Serves(c, e)'
  <2>1. patient => Visiting
    BY <1>2, <1>3, CallAnswered
  <2>2. Serves(c, e)'
    BY <1>8 DEF Serves, ServesOn, Call, ComponentUrl, Expected
  <2> QED BY <2>1, <2>2
<1> HIDE DEF c, e
<1>11. patient => Visiting'
  BY <1>1, <1>5, <1>6, <1>7, <1>10, VisitGoesOn
<1> QED BY <1>1, <1>3, <1>5, <1>6, <1>7, <1>8, <1>9, <1>11, ChainGoesOn

\* A chain of a page that stays as it is goes on.
LEMMA StayGoesOn ==
    ASSUME TaskPageInv, Staying, NEW i \in DOMAIN calls, NEW c \in Calls,
           calls' = [calls EXCEPT ![i] = c],
           UNCHANGED <<page, taskView, compView, nav>>,
           c.wait \in {"parent", "where"}, Serves(c, Url)
    PROVE  Staying'
<1>1. calls \in Seq(Calls)
  BY DEF TaskPageInv, PageTyped
<1>2. /\ calls' # <<>> /\ DOMAIN calls' = DOMAIN calls /\ calls'[i] = c
      /\ \A j \in DOMAIN calls : j # i => calls'[j] = calls[j]
  BY <1>1, Replaced
<1>3. Url' = Url
  BY DEF Url
<1>4. Showing(Url)' /\ page'.range # NoRange
  BY <1>3 DEF Staying, Showing
<1>5. ASSUME NEW j \in DOMAIN calls'
      PROVE  /\ Serves(calls[j], Url)'
             /\ calls'[j].wait \in {"task", "parent", "where", "component"}
             /\ calls'[j].wait = "task" => calls'[j].keep
  <2>1. CASE j = i
    BY <1>2, <1>3, <2>1 DEF Serves, ServesOn
  <2>2. CASE j # i
    <3>1. /\ calls'[j] = calls[j] /\ Serves(calls[j], Url)
          /\ calls[j].wait \in {"task", "parent", "where", "component"}
          /\ calls[j].wait = "task" => calls[j].keep
      BY <1>2, <1>5, <2>2 DEF Staying
    <3> QED BY <1>3, <3>1 DEF Serves, ServesOn
  <2> QED BY <2>1, <2>2
<1> QED BY <1>2, <1>4, <1>5 DEF Staying

LEMMA TaskAnswerKeeps ==
    ASSUME TaskPageInv, NEW i \in DOMAIN calls, TaskAnswered(i)
    PROVE  TaskPageInv'
<1>1. PageTyped /\ nav \in Histories(PageUrls) /\ page \in Pages
  BY DEF TaskPageInv, PageTyped
<1>2. PICK b \in Calls, e \in PageUrls : b = calls[i] /\ e = Url
  BY CallAnswered
<1>3. b.wait = "task" /\ b.key \in Tasks /\ b.keep \in BOOLEAN
  BY <1>2, CallParts DEF TaskAnswered
<1>4. PICK r \in AnyRange : r = IF b.keep THEN page.range ELSE RangeOf[b.key]
  BY <1>1, <1>3, TaskPageAssumption DEF Pages, AnyRange
<1> DEFINE c == IF ParentOf[b.key] = NoTask THEN Call("where", b.key, b.keep, r)
                ELSE Call("parent", b.key, b.keep, NoRange)
<1>5. c \in Calls
  <2>1. Call("where", b.key, b.keep, r) \in Calls
    BY <1>3, TaskCallTyped DEF TaskWaits
  <2>2. Call("parent", b.key, b.keep, NoRange) \in Calls
    BY <1>3, TaskCallTyped DEF TaskWaits, AnyRange
  <2> QED BY <2>1, <2>2
<1>6. c.wait \in {"parent", "where"} /\ c.key = b.key /\ (c.wait = "where" => c.range = r)
  BY DEF Call
<1>7. /\ calls' = [calls EXCEPT ![i] = c] /\ page' = [page EXCEPT !.range = r]
      /\ UNCHANGED <<taskView, compView, colors, handlers, nav, patient, pointer>>
  BY <1>2, <1>4 DEF TaskAnswered, browserVars
<1> HIDE DEF c
<1>8. /\ page' \in Pages /\ page'.range = r /\ page'.mode = page.mode
      /\ page'.comp = page.comp
  BY <1>1, <1>7 DEF Pages
<1>9. Url' = e
  BY <1>2, <1>7 DEF Url
<1>10. ASSUME Serves(b, e) PROVE Serves(c, e)'
  <2>1. e.page = "task" /\ page.mode = "task" /\ e.key = b.key
        /\ IF b.keep THEN e.range # NoRange /\ page.range = e.range ELSE e.range = NoRange
    BY <1>3, <1>10 DEF Serves, ServesOn
  <2>2. r = Expected(e)
    BY <1>4, <2>1 DEF Expected
  <2> QED BY <1>6, <1>8, <2>1, <2>2 DEF Serves, ServesOn
<1>11. ASSUME patient, Visiting, Serves(b, e) PROVE Visiting'
  BY <1>1, <1>5, <1>7, <1>9, <1>10, <1>11, VisitGoesOn
<1>12. ASSUME patient, Staying, Serves(b, e), b.keep PROVE Staying'
  <2>1. page' = page /\ r = page.range
    BY <1>1, <1>4, <1>7, <1>12 DEF Pages
  <2>2. Serves(c, e)
    BY <1>10, <1>12, <2>1 DEF Serves, ServesOn
  <2> QED BY <1>2, <1>5, <1>6, <1>7, <1>12, <2>1, <2>2, StayGoesOn
<1>13. patient => (Visiting \/ Staying)'
  BY <1>2, <1>3, <1>11, <1>12, CallAnswered
<1> QED BY <1>1, <1>5, <1>6, <1>7, <1>8, <1>13, ChainGoesOn DEF PageTyped

LEMMA ParentAnswerKeeps ==
    ASSUME TaskPageInv, NEW i \in DOMAIN calls, ParentAnswered(i)
    PROVE  TaskPageInv'
<1>1. PageTyped /\ nav \in Histories(PageUrls) /\ page \in Pages
  BY DEF TaskPageInv, PageTyped
<1>2. PICK b \in Calls, e \in PageUrls : b = calls[i] /\ e = Url
  BY CallAnswered
<1>3. b.wait = "parent" /\ b.key \in Tasks /\ b.keep \in BOOLEAN
  BY <1>2, CallParts DEF ParentAnswered
<1>4. PICK r \in AnyRange : r = page.range
  BY <1>1 DEF Pages
<1> DEFINE c == Call("where", b.key, b.keep, r)
<1>5. c \in Calls
  BY <1>3, TaskCallTyped DEF TaskWaits
<1>6. c.wait = "where" /\ c.key = b.key /\ c.range = r
  BY DEF Call
<1>7. /\ calls' = [calls EXCEPT ![i] = c]
      /\ UNCHANGED <<page, taskView, compView, colors, handlers, nav, patient, pointer>>
  BY <1>2, <1>4 DEF ParentAnswered, pageVars, browserVars
<1> HIDE DEF c
<1>8. Url' = e
  BY <1>2, <1>7 DEF Url
<1>9. ASSUME Serves(b, e) PROVE Serves(c, e) /\ Serves(c, e)'
  BY <1>3, <1>4, <1>6, <1>7, <1>9 DEF Serves, ServesOn
<1>10. ASSUME patient, Visiting, Serves(b, e) PROVE Visiting'
  BY <1>1, <1>5, <1>7, <1>8, <1>9, <1>10, VisitGoesOn
<1>11. ASSUME patient, Staying, Serves(b, e) PROVE Staying'
  BY <1>2, <1>5, <1>6, <1>7, <1>9, <1>11, StayGoesOn
<1>12. patient => (Visiting \/ Staying)'
  BY <1>2, <1>10, <1>11, CallAnswered
<1> QED BY <1>1, <1>5, <1>6, <1>7, <1>12, ChainGoesOn DEF PageTyped

\* The last answer of a chain shows what the chain was about.
LEMMA ChainEnds ==
    ASSUME TaskPageInv, NEW i \in DOMAIN calls, NEW b \in Calls, b = calls[i],
           b.wait \in {"where", "component"},
           calls' = RemoveAt(calls, i),
           page' \in Pages,
           page'.mode = page.mode, page'.comp = page.comp, page'.range = page.range,
           IF b.wait = "where" THEN page'.curr = b.key ELSE page'.curr = page.curr,
           taskView' \in TaskViews, compView' \in ComponentViews,
           Goal' = page.range, compView'.data = b.range,
           IF b.wait = "where"
           THEN taskView'.shows = b.key /\ compView'.shows = Where[b.key]
           ELSE taskView'.shows = taskView.shows /\ compView'.shows = b.key,
           UNCHANGED <<handlers, nav, patient, pointer>>
    PROVE  TaskPageInv'
<1>1. PageTyped /\ nav \in Histories(PageUrls) /\ page \in Pages /\ calls \in Seq(Calls)
  BY DEF TaskPageInv, PageTyped
<1>2. PICK e \in PageUrls : e = Url
  BY CallAnswered
<1>3. /\ calls' \in Seq(Calls) /\ Len(calls') = Len(calls) - 1
      /\ \A j \in DOMAIN calls' : \E k \in DOMAIN calls : k # i /\ calls'[j] = calls[k]
      /\ \A k \in DOMAIN calls : k # i => \E j \in DOMAIN calls' : calls'[j] = calls[k]
  BY <1>1, TakenOut
<1>4. PageTyped'
  BY <1>1, <1>3 DEF PageTyped
<1>5. AllHeld'
  BY DEF TaskPageInv, AllHeld, Held
<1>6. BarsCatchUp'
  BY DEF BarsCatchUp
<1>7. TaskIsComing'
  <2> SUFFICES ASSUME NothingToReload'
               PROVE  \E j \in DOMAIN calls' : calls'[j].wait # "component"
    BY DEF TaskIsComing
  <2>1. b.key \in Tasks \/ b.wait = "component"
    BY CallParts
  <2>2. b.wait = "component" /\ NothingToReload
    BY <2>1, TaskPageAssumption DEF NothingToReload
  <2>3. calls # <<>>
    BY <1>1, LenProperties
  <2>4. PICK k \in DOMAIN calls : calls[k].wait # "component"
    BY <2>2, <2>3 DEF TaskPageInv, TaskIsComing
  <2>5. k # i
    BY <2>2, <2>4
  <2> QED BY <1>3, <2>4, <2>5
<1>8. Url' = e
  BY <1>2 DEF Url
<1>9. ASSUME patient, Serves(b, e)
      PROVE  /\ Showing(Url)' /\ page'.range # NoRange
             /\ page'.range = Expected(e) /\ compView'.data = page'.range
  <2>1. CASE b.wait = "where"
    <3>1. /\ e.page = "task" /\ page.mode = "task" /\ e.key = b.key
          /\ page.range = Expected(e) /\ b.range = page.range
      BY <1>9, <2>1 DEF Serves, ServesOn
    <3>2. b.key \in Tasks
      BY <2>1, CallParts
    <3>3. Expected(e) # NoRange
      BY <3>1, <3>2, ExpectedTyped
    <3> QED BY <1>8, <2>1, <3>1, <3>2, <3>3 DEF Showing
  <2>2. CASE b.wait = "component"
    <3>1. /\ e.page = "component" /\ page.mode = "component" /\ e.key = b.key
          /\ page.comp = b.key /\ page.range = Expected(e) /\ b.range = page.range
      BY <1>9, <2>2 DEF Serves, ServesOn
    <3>2. Expected(e) # NoRange
      BY <3>1, ExpectedTyped
    <3> QED BY <1>8, <2>2, <3>1, <3>2 DEF Showing
  <2> QED BY <2>1, <2>2
<1>10. ASSUME patient PROVE Staying'
  <2>1. Serves(b, e)
    BY <1>2, <1>10, CallAnswered
  <2>2. ASSUME NEW j \in DOMAIN calls'
        PROVE  /\ Serves(calls[j], Url)'
               /\ calls'[j].wait \in {"task", "parent", "where", "component"}
               /\ calls'[j].wait = "task" => calls'[j].keep
    <3>1. PICK k \in DOMAIN calls : k # i /\ calls'[j] = calls[k]
      BY <1>3, <2>2
    <3>2. Staying
      BY <1>10, <3>1, CallAnswered
    <3>3. /\ Serves(calls[k], e)
          /\ calls[k].wait \in {"task", "parent", "where", "component"}
          /\ calls[k].wait = "task" => calls[k].keep
      BY <1>2, <3>2 DEF Staying
    <3> QED BY <1>8, <3>1, <3>3 DEF Serves, ServesOn
  <2> QED BY <1>8, <1>9, <1>10, <2>1, <2>2 DEF Staying
<1> QED BY <1>1, <1>4, <1>5, <1>6, <1>7, <1>10 DEF TaskPageInv, PatientPage

LEMMA WhereAnswerKeeps ==
    ASSUME TaskPageInv, NEW i \in DOMAIN calls, WhereAnswered(i)
    PROVE  TaskPageInv'
<1>1. PageTyped /\ page \in Pages /\ taskView \in TaskViews /\ compView \in ComponentViews
  BY DEF TaskPageInv, PageTyped
<1>2. PICK b \in Calls : b = calls[i]
  BY CallAnswered
<1>3. b.wait = "where" /\ b.key \in Tasks /\ b.range \in AnyRange
  BY <1>2, CallParts DEF WhereAnswered
<1>4. Where[b.key] \in Names
  BY <1>3, AppAssumption DEF Names
<1>5. /\ calls' = RemoveAt(calls, i) /\ page' = [page EXCEPT !.curr = b.key]
      /\ taskView' = [taskView EXCEPT !.shows = b.key, !.target = page.range,
                                      !.moving = TRUE]
      /\ compView' = [compView EXCEPT !.shows = Where[b.key], !.target = page.range,
                                      !.moving = TRUE, !.data = b.range]
      /\ UNCHANGED <<handlers, nav, patient, pointer>>
  BY <1>1, <1>2 DEF WhereAnswered, Drawn, browserVars, ComponentViews
<1>6. page.range \in AnyRange
  BY <1>1 DEF Pages
<1>7. /\ page' \in Pages /\ page'.mode = page.mode /\ page'.comp = page.comp
      /\ page'.range = page.range /\ page'.curr = b.key
  BY <1>1, <1>3, <1>5 DEF Pages
<1>8. taskView' \in TaskViews /\ taskView'.shows = b.key
  BY <1>1, <1>3, <1>5, <1>6 DEF TaskViews
<1>9. /\ compView' \in ComponentViews /\ compView'.shows = Where[b.key]
      /\ compView'.data = b.range /\ compView'.moving /\ compView'.target = page.range
  BY <1>1, <1>3, <1>4, <1>5, <1>6 DEF ComponentViews
<1>10. Goal' = page.range
  BY <1>9 DEF Goal
<1> QED BY <1>2, <1>3, <1>5, <1>7, <1>8, <1>9, <1>10, ChainEnds

LEMMA ComponentAnswerKeeps ==
    ASSUME TaskPageInv, NEW i \in DOMAIN calls, ComponentAnswered(i)
    PROVE  TaskPageInv'
<1>1. PageTyped /\ page \in Pages /\ taskView \in TaskViews /\ compView \in ComponentViews
  BY DEF TaskPageInv, PageTyped
<1>2. PICK b \in Calls : b = calls[i]
  BY CallAnswered
<1>3. b.wait = "component" /\ b.key \in Names /\ b.range \in AnyRange
  BY <1>2, CallParts DEF ComponentAnswered, TaskWaits
<1>4. /\ calls' = RemoveAt(calls, i)
      /\ compView' = [compView EXCEPT !.shows = b.key, !.target = page.range,
                                      !.moving = TRUE, !.data = b.range]
      /\ UNCHANGED <<page, taskView, handlers, nav, patient, pointer>>
  BY <1>1, <1>2 DEF ComponentAnswered, Drawn, browserVars, ComponentViews
<1>5. page.range \in AnyRange
  BY <1>1 DEF Pages
<1>6. /\ compView' \in ComponentViews /\ compView'.shows = b.key
      /\ compView'.data = b.range /\ compView'.moving /\ compView'.target = page.range
  BY <1>1, <1>3, <1>4, <1>5 DEF ComponentViews
<1>7. Goal' = page.range
  BY <1>6 DEF Goal
<1> QED BY <1>1, <1>2, <1>3, <1>4, <1>6, <1>7, ChainEnds

\* A step of the views alone.
LEMMA ViewsMove ==
    ASSUME TaskPageInv, UNCHANGED <<page, calls, handlers, nav, patient, pointer>>,
           taskView' \in TaskViews, compView' \in ComponentViews,
           taskView'.shows = taskView.shows, compView'.shows = compView.shows,
           compView'.data = compView.data, Goal' = Goal \/ Goal' = page.range
    PROVE  TaskPageInv'
<1>1. nav' \in Histories(PageUrls) /\ PageTyped'
  BY DEF TaskPageInv, PageTyped
<1>2. AllHeld' /\ (ReloadDue => ReloadDue')
  BY DEF TaskPageInv, AllHeld, Held, ReloadDue, Due
<1>3. BarsCatchUp' /\ TaskIsComing'
  BY <1>2 DEF TaskPageInv, BarsCatchUp, TaskIsComing, NothingToReload
<1>4. Url' = Url
  BY DEF Url
<1>5. ASSUME patient, Visiting PROVE Visiting'
  BY <1>4, <1>5 DEF Visiting, Serves, ServesOn, Idle
<1>6. ASSUME patient, Staying PROVE Staying'
  BY <1>2, <1>4, <1>6 DEF Staying, Serves, ServesOn, Showing
<1> QED BY <1>1, <1>2, <1>3, <1>5, <1>6 DEF TaskPageInv, PatientPage

LEMMA TransitionKeeps ==
    ASSUME TaskPageInv, TransitionEnds
    PROVE  TaskPageInv'
<1>1. taskView \in TaskViews /\ compView \in ComponentViews
  BY DEF TaskPageInv, PageTyped
<1>2. CASE /\ taskView' = [taskView EXCEPT !.moving = FALSE, !.placed = taskView.target]
           /\ UNCHANGED <<page, compView, colors, calls, handlers, browserVars>>
  <2>1. taskView' \in TaskViews /\ taskView'.shows = taskView.shows
    BY <1>1, <1>2 DEF TaskViews
  <2> QED BY <1>1, <1>2, <2>1, ViewsMove DEF browserVars, Goal
<1>3. CASE /\ compView.moving
           /\ compView' = [compView EXCEPT !.moving = FALSE, !.placed = compView.target]
           /\ UNCHANGED <<page, taskView, colors, calls, handlers, browserVars>>
  <2>1. /\ compView' \in ComponentViews /\ compView'.shows = compView.shows
        /\ compView'.data = compView.data /\ ~compView'.moving
        /\ compView'.placed = compView.target
    BY <1>1, <1>3 DEF ComponentViews
  <2>2. Goal' = Goal
    BY <1>3, <2>1 DEF Goal
  <2> QED BY <1>1, <1>3, <2>1, <2>2, ViewsMove DEF browserVars
<1> QED BY <1>2, <1>3 DEF TransitionEnds

\* Bars that are drawn are bars that go to the axis.
LEMMA DrawnTyped ==
    ASSUME PageTyped
    PROVE  /\ Drawn(taskView, taskView.shows, page.range) \in TaskViews
           /\ Drawn(taskView, taskView.shows, page.range).shows = taskView.shows
           /\ Drawn(compView, compView.shows, page.range) \in ComponentViews
           /\ Drawn(compView, compView.shows, page.range).shows = compView.shows
           /\ Drawn(compView, compView.shows, page.range).data = compView.data
           /\ Drawn(compView, compView.shows, page.range).moving
           /\ Drawn(compView, compView.shows, page.range).target = page.range
<1>1. taskView \in TaskViews /\ compView \in ComponentViews /\ page.range \in AnyRange
  BY DEF PageTyped, Pages
<1>2. /\ Drawn(taskView, taskView.shows, page.range) \in TaskViews
      /\ Drawn(taskView, taskView.shows, page.range).shows = taskView.shows
  BY <1>1 DEF Drawn, TaskViews
<1> QED BY <1>1, <1>2 DEF Drawn, ComponentViews

LEMMA LayoutKeeps ==
    ASSUME TaskPageInv, TaskPageLayout
    PROVE  TaskPageInv'
<1>1. PageTyped
  BY DEF TaskPageInv
<1>2. /\ \/ taskView' = taskView
         \/ taskView' = Drawn(taskView, taskView.shows, page.range)
      /\ \/ compView' = compView
         \/ compView' = Drawn(compView, compView.shows, page.range)
      /\ UNCHANGED <<page, colors, calls, handlers, nav, patient, pointer>>
  BY DEF TaskPageLayout, Gesture, Acts
<1>3. taskView' \in TaskViews /\ taskView'.shows = taskView.shows
  BY <1>1, <1>2, DrawnTyped DEF PageTyped
<1>4. /\ compView' \in ComponentViews /\ compView'.shows = compView.shows
      /\ compView'.data = compView.data
  BY <1>1, <1>2, DrawnTyped DEF PageTyped
<1>5. Goal' = Goal \/ Goal' = page.range
  BY <1>1, <1>2, DrawnTyped DEF Goal
<1> QED BY <1>2, <1>3, <1>4, <1>5, ViewsMove

\* A patient user begins a visit.
LEMMA VisitBegins ==
    ASSUME nav' \in Histories(PageUrls), NEW e \in PageUrls, Url' = e,
           PageTyped', AllHeld', NEW c \in Calls,
           calls \in Seq(Calls), calls' = Append(calls, c),
           c.wait # "component" \/ page'.mode = "component",
           patient' => /\ calls = <<>> /\ Serves(c, e)'
                       /\ \A i \in DOMAIN handlers' : Idle(handlers'[i])
    PROVE  TaskPageInv'
<1>1. /\ calls' # <<>> /\ Len(calls') \in DOMAIN calls' /\ calls'[Len(calls')] = c
      /\ Len(calls') = Len(calls) + 1
  BY OneMore
<1>2. BarsCatchUp' /\ TaskIsComing'
  BY <1>1 DEF BarsCatchUp, TaskIsComing, NothingToReload
<1>3. ASSUME patient' PROVE Visiting'
  <2>1. Len(calls') = 1 /\ calls'[1] = c
    BY <1>1, <1>3
  <2> QED BY <1>3, <2>1 DEF Visiting, Serves, ServesOn
<1> QED BY <1>2, <1>3 DEF TaskPageInv, PatientPage

LEMMA BarClickKeeps ==
    ASSUME TaskPageInv, NEW t \in Tasks, BarClick(t)
    PROVE  TaskPageInv'
<1> DEFINE c == Call("task", t, FALSE, NoRange)
           e == TaskUrl(t)
<1>1. /\ nav \in Histories(PageUrls) /\ PageTyped /\ page \in Pages
      /\ calls \in Seq(Calls) /\ handlers \in Seq(Handlers)
  BY DEF TaskPageInv, PageTyped
<1>2. c \in Calls /\ e \in PageUrls
  <2>1. NoRange \in AnyRange /\ "task" \in TaskWaits
    BY DEF AnyRange, TaskWaits
  <2>2. c \in Calls
    BY <2>1 DEF Calls, Call, TaskWaits
  <2> QED BY <2>1, <2>2 DEF TaskUrl, PageUrls, TaskUrls
<1>3. /\ nav' = pushState(nav, e) /\ calls' = Append(calls, c)
      /\ page' = [page EXCEPT !.mode = "task"]
      /\ handlers' = [i \in DOMAIN handlers |->
                        React(React(handlers[i], "mousedown"), "mouseup")]
      /\ UNCHANGED <<taskView, compView, colors, patient, pointer>>
      /\ patient => TaskPageAtRest
  BY DEF BarClick, Gesture, Acts, showTask
<1>4. nav' \in Histories(PageUrls) /\ Url' = e
  BY <1>1, <1>2, <1>3, HistoryPush DEF Url
<1>5. /\ page' \in Pages /\ page'.mode = "task"
  BY <1>1, <1>3 DEF Pages
<1>6. DOMAIN handlers = 1..Len(handlers) /\ Len(handlers) \in Nat
  BY <1>1, LenProperties
<1>7. ASSUME NEW h \in Handlers
      PROVE  LET g == React(React(h, "mousedown"), "mouseup")
             IN  g \in Handlers /\ ~g.dragging /\ (Idle(h) => Idle(g))
  <2> DEFINE f == React(h, "mousedown")
             g == React(f, "mouseup")
  <2>1. f \in Handlers /\ f.pinching = h.pinching /\ f.timer = h.timer
    BY HandlerPressed
  <2> HIDE DEF f
  <2>2. g \in Handlers /\ ~g.dragging /\ g.pinching = f.pinching /\ g.timer = f.timer
    BY <2>1, HandlerReleased
  <2> HIDE DEF g
  <2>3. g \in Handlers /\ ~g.dragging /\ (Idle(h) => Idle(g))
    BY <2>1, <2>2 DEF Idle
  <2> QED BY <2>3 DEF f, g
<1>8. /\ handlers' \in Seq(Handlers) /\ DOMAIN handlers' = DOMAIN handlers
      /\ \A i \in DOMAIN handlers' : ~handlers'[i].dragging
      /\ \A i \in DOMAIN handlers' : Idle(handlers[i]) => Idle(handlers'[i])
  <2>1. \A i \in 1..Len(handlers) : handlers[i] \in Handlers
    BY <1>1, ElementOfSeq
  <2>2. \A i \in 1..Len(handlers) :
          /\ handlers'[i] \in Handlers /\ ~handlers'[i].dragging
          /\ Idle(handlers[i]) => Idle(handlers'[i])
    BY <1>3, <1>6, <1>7, <2>1
  <2>3. handlers' \in [1..Len(handlers) -> Handlers]
    BY <1>3, <1>6, <2>2
  <2>4. handlers' \in Seq(Handlers)
    BY <1>6, <2>3, SeqDef
  <2> QED BY <1>3, <1>6, <2>2, <2>4
<1>9. AllHeld'
  BY <1>8 DEF AllHeld, Held
<1>10. calls' \in Seq(Calls)
  <2> HIDE DEF c
  <2> QED BY <1>1, <1>2, <1>3, OneMore
<1>11. PageTyped'
  BY <1>1, <1>3, <1>5, <1>8, <1>10 DEF PageTyped
<1>12. ASSUME patient' PROVE /\ calls = <<>> /\ Serves(c, e)'
                             /\ \A i \in DOMAIN handlers' : Idle(handlers'[i])
  <2>1. Serves(c, e)'
    BY <1>5 DEF Serves, ServesOn, Call, TaskUrl
  <2> QED BY <1>3, <1>8, <1>12, <2>1 DEF TaskPageAtRest
<1>13. c.wait = "task"
  BY DEF Call
<1> HIDE DEF c, e
<1> QED BY <1>1, <1>2, <1>3, <1>4, <1>9, <1>11, <1>12, <1>13, VisitBegins

LEMMA TravelKeeps ==
    ASSUME TaskPageInv, TaskPageTravel
    PROVE  TaskPageInv'
<1>1. /\ nav \in Histories(PageUrls) /\ PageTyped /\ page \in Pages
      /\ calls \in Seq(Calls) /\ handlers \in Seq(Handlers)
  BY DEF TaskPageInv, PageTyped
<1>2. nav' \in Histories(PageUrls)
  BY <1>1, HistoryTravel DEF TaskPageTravel
<1>3. PICK e \in PageUrls : e = Url'
  BY <1>2, HistoryUrl DEF Url
<1>4. /\ handlers' = Append(handlers, NewHandler)
      /\ calls' = Append(calls, RouteCall(e))
      /\ IF e.page = "component" /\ e.range # NoRange
         THEN /\ page' = [page EXCEPT !.range = e.range, !.mode = "component",
                                      !.comp = e.key]
              /\ taskView' = Placed(taskView, e.range)
              /\ compView' = Placed(compView, e.range)
         ELSE UNCHANGED <<page, taskView, compView>>
      /\ UNCHANGED <<patient, pointer>>
      /\ patient => TaskPageAtRest
  BY <1>3 DEF TaskPageTravel, routeTaskPage, Gesture, Acts, Url
<1>5. e.range \in AnyRange /\ (e.page = "component" => e.key \in Names)
  BY PageUrlParts
<1>6. /\ page' \in Pages /\ (page'.mode = "component" => page'.comp \in Names)
      /\ e.page = "component" /\ e.range # NoRange =>
           page'.mode = "component" /\ page'.comp = e.key /\ page'.range = e.range
  BY <1>1, <1>4, <1>5 DEF Pages, PageTyped
<1>7. taskView' \in TaskViews /\ compView' \in ComponentViews
  BY <1>1, <1>4, <1>5, PlacedTyped DEF PageTyped
<1>8. /\ handlers' \in Seq(Handlers) /\ DOMAIN handlers \subseteq DOMAIN handlers'
      /\ \A j \in DOMAIN handlers : handlers'[j] = handlers[j]
      /\ \A j \in DOMAIN handlers' : j \in DOMAIN handlers \/ handlers'[j] = NewHandler
  BY <1>1, <1>4, OneMore, NewHandlerTyped
<1>9. PICK c \in Calls : c = RouteCall(e)
  BY RouteTyped
<1>10. calls' \in Seq(Calls) /\ calls' = Append(calls, c)
  BY <1>1, <1>4, <1>9, OneMore
<1>11. PageTyped'
  BY <1>6, <1>7, <1>8, <1>10 DEF PageTyped
<1>12. AllHeld'
  BY <1>4, <1>8, NewHandlerTyped DEF TaskPageInv, AllHeld, Held
<1>13. Serves(c, e)'
  <2>1. e.page = "component" /\ e.range # NoRange =>
          page'.mode = "component" /\ page'.comp = e.key /\ page'.range = e.range
    BY <1>6
  <2> QED BY <1>9, <2>1, RouteServes DEF Serves
<1>14. ASSUME patient' PROVE /\ calls = <<>> /\ Serves(c, e)'
                             /\ \A i \in DOMAIN handlers' : Idle(handlers'[i])
  BY <1>4, <1>8, <1>13, <1>14, NewHandlerTyped DEF TaskPageAtRest
<1>15. c.wait # "component" \/ page'.mode = "component"
  BY <1>6, <1>9, RouteTyped
<1> QED BY <1>1, <1>2, <1>3, <1>10, <1>11, <1>12, <1>14, <1>15, VisitBegins

\* What a reload adds to the requests under way.
LEMMA ReaskedCalls ==
    ASSUME PageTyped, NEW n \in Nat, NEW t, t = Reasked(n)
    PROVE  /\ t \in Seq(Calls)
           /\ NothingToReload => t = calls
           /\ n = 0 => t = calls
           /\ ~NothingToReload => /\ n # 0 => t # <<>>
                                  /\ \A j \in DOMAIN t :
                                        \/ t[j] = Again
                                        \/ \E k \in DOMAIN calls : t[j] = calls[k]
<1>1. calls \in Seq(Calls) /\ page \in Pages
  BY DEF PageTyped
<1>2. CASE NothingToReload
  BY <1>1, <1>2 DEF Reasked
<1>3. CASE ~NothingToReload
  <2>1. page.range \in AnyRange /\ page.mode \in {"task", "component"}
    BY <1>1 DEF Pages
  <2>2. PICK a \in Calls : a = Again
    <3>1. CASE page.mode = "component"
      <4>1. Again = Call("component", page.comp, FALSE, page.range)
        BY <3>1 DEF Again
      <4>2. page.comp \in Names
        BY <3>1 DEF PageTyped
      <4>3. Call("component", page.comp, FALSE, page.range) \in Calls
        BY <2>1, <4>2 DEF Call, Calls
      <4> QED BY <4>1, <4>3
    <3>2. CASE page.mode # "component"
      <4>1. page.mode = "task" /\ page.curr \in Tasks
        BY <1>1, <1>3, <2>1, <3>2 DEF Pages, NothingToReload
      <4>2. Again = Call("task", page.curr, TRUE, NoRange)
        BY <3>2 DEF Again, showTask
      <4>3. Call("task", page.curr, TRUE, NoRange) \in Calls
        BY <4>1 DEF Call, Calls, TaskWaits, AnyRange
      <4> QED BY <4>2, <4>3
    <3> QED BY <3>1, <3>2
  <2> DEFINE b == [k \in 1..n |-> a]
  <2>3. b \in Seq(Calls) /\ Len(b) = n /\ \A k \in 1..n : b[k] = a
    OBVIOUS
  <2>4. t = calls \o b
    BY <1>3, <2>2 DEF Reasked
  <2> HIDE DEF b
  <2>5. /\ t \in Seq(Calls) /\ Len(t) = Len(calls) + Len(b)
        /\ \A j \in 1..(Len(calls) + Len(b)) :
              t[j] = IF j <= Len(calls) THEN calls[j] ELSE b[j - Len(calls)]
    <3>1. /\ calls \o b \in Seq(Calls) /\ Len(calls \o b) = Len(calls) + Len(b)
          /\ \A j \in 1..(Len(calls) + Len(b)) :
                (calls \o b)[j] = IF j <= Len(calls) THEN calls[j] ELSE b[j - Len(calls)]
      BY <1>1, <2>3, ConcatProperties
    <3> QED BY <2>4, <3>1
  <2>6. PICK l \in Nat : l = Len(calls) /\ DOMAIN calls = 1..l
    BY <1>1, LenProperties
  <2>7. DOMAIN t = 1..(l + n) /\ Len(t) = l + n
    BY <2>3, <2>5, <2>6, LenProperties
  <2>8. n = 0 => t = calls
    <3>1. n = 0 => Len(t) = Len(calls) /\ \A j \in 1..Len(t) : t[j] = calls[j]
      BY <2>3, <2>5, <2>6, <2>7
    <3> QED BY <1>1, <2>5, <3>1, SeqEqual
  <2>9. n # 0 => t # <<>>
    BY <2>7
  <2>10. ASSUME NEW j \in DOMAIN t
         PROVE  t[j] = a \/ \E k \in DOMAIN calls : t[j] = calls[k]
    <3>1. CASE j <= l
      BY <2>3, <2>5, <2>6, <2>7, <3>1
    <3>2. CASE ~(j <= l)
      <4>1. j - l \in 1..n /\ t[j] = b[j - l]
        BY <2>3, <2>5, <2>6, <2>7, <3>2
      <4> QED BY <2>3, <4>1
    <3> QED BY <3>1, <3>2
  <2> QED BY <1>3, <2>2, <2>5, <2>8, <2>9, <2>10
<1> QED BY <1>2, <1>3

\* The shift is made permanent: the page is asked for again, in its range.
LEMMA ReloadKeeps ==
    ASSUME TaskPageInv, NEW n \in Nat, n # 0, reload(n),
           UNCHANGED <<page, taskView, compView, patient>>,
           handlers' \in Seq(Handlers), AllHeld',
           patient => Staying
    PROVE  TaskPageInv'
<1>1. PageTyped /\ nav \in Histories(PageUrls) /\ page \in Pages
  BY DEF TaskPageInv, PageTyped
<1>2. PICK e \in PageUrls : e = Url
  BY <1>1, HistoryUrl DEF Url
<1>3. PICK r \in AnyRange : r = page.range
  BY <1>1 DEF Pages
<1> DEFINE f == [e EXCEPT !.range = r]
<1>4. /\ f \in PageUrls /\ f.page = e.page /\ f.key = e.key /\ f.range = r
  BY <1>3 DEF PageUrls, TaskUrls, ComponentUrls
<1>5. nav' = replaceState(nav, f) /\ calls' = Reasked(n)
  BY <1>2, <1>3 DEF reload
<1> HIDE DEF f
<1>6. nav' \in Histories(PageUrls) /\ Url' = f
  BY <1>1, <1>4, <1>5, HistoryReplace DEF Url
<1>7. /\ calls' \in Seq(Calls)
      /\ NothingToReload => calls' = calls
      /\ ~NothingToReload => /\ calls' # <<>>
                             /\ \A j \in DOMAIN calls' :
                                   \/ calls'[j] = Again
                                   \/ \E k \in DOMAIN calls : calls'[j] = calls[k]
  BY <1>1, <1>5, ReaskedCalls
<1>8. PageTyped'
  BY <1>1, <1>7 DEF PageTyped
<1>9. NothingToReload' = NothingToReload
  BY DEF NothingToReload
<1>10. BarsCatchUp'
  <2>1. CASE NothingToReload
    <3>1. calls # <<>> \/ compView.shows = NoTask
      <4>1. CASE \E i \in DOMAIN calls : calls[i].wait # "component"
        <5>1. calls \in Seq(Calls) /\ DOMAIN calls # {}
          BY <1>1, <4>1 DEF PageTyped
        <5> QED BY <5>1
      <4> QED BY <2>1, <4>1 DEF TaskPageInv, TaskIsComing
    <3> QED BY <1>7, <2>1, <3>1 DEF BarsCatchUp
  <2>2. CASE ~NothingToReload
    BY <1>7, <2>2 DEF BarsCatchUp
  <2> QED BY <2>1, <2>2
<1>11. TaskIsComing'
  BY <1>7, <1>9 DEF TaskPageInv, TaskIsComing
<1>12. ASSUME patient PROVE Staying'
  <2>1. Staying /\ Showing(e) /\ r # NoRange
    BY <1>2, <1>3, <1>12 DEF Staying
  <2>2. ~NothingToReload
    BY <2>1, TaskPageAssumption DEF NothingToReload, Showing
  <2>3. Showing(Url)' /\ page'.range # NoRange
    BY <1>3, <1>4, <1>6, <2>1 DEF Showing
  <2>4. Expected(f) = r
    BY <1>4, <2>1 DEF Expected
  <2>5. ASSUME NEW j \in DOMAIN calls'
        PROVE  /\ Serves(calls[j], Url)'
               /\ calls'[j].wait \in {"task", "parent", "where", "component"}
               /\ calls'[j].wait = "task" => calls'[j].keep
    <3>1. CASE calls'[j] = Again
      <4>1. CASE page.mode = "component"
        <5>1. calls'[j] = Call("component", page.comp, FALSE, r)
          BY <1>3, <3>1, <4>1 DEF Again
        <5>2. /\ calls'[j].wait = "component" /\ calls'[j].key = page.comp
              /\ calls'[j].range = r
          BY <5>1 DEF Call
        <5>3. f.page = "component" /\ f.key = page.comp
          BY <1>4, <2>1, <4>1, PageUrlParts DEF Showing
        <5> QED BY <1>3, <1>6, <2>4, <4>1, <5>2, <5>3 DEF Serves, ServesOn
      <4>2. CASE page.mode # "component"
        <5>1. calls'[j] = Call("task", page.curr, TRUE, NoRange)
          BY <3>1, <4>2 DEF Again, showTask
        <5>2. calls'[j].wait = "task" /\ calls'[j].key = page.curr /\ calls'[j].keep
          BY <5>1 DEF Call
        <5>3. f.page = "task" /\ f.key = page.curr /\ page.mode = "task"
          BY <1>1, <1>4, <2>1, <4>2 DEF Showing, Pages
        <5> QED BY <1>3, <1>4, <1>6, <2>1, <5>2, <5>3 DEF Serves, ServesOn
      <4> QED BY <4>1, <4>2
    <3>2. CASE calls'[j] # Again
      <4>1. PICK k \in DOMAIN calls : calls'[j] = calls[k]
        BY <1>7, <2>2, <2>5, <3>2
      <4>2. /\ Serves(calls[k], e)
            /\ calls[k].wait \in {"task", "parent", "where", "component"}
            /\ calls[k].wait = "task" => calls[k].keep
        BY <1>2, <2>1 DEF Staying
      <4>3. ServesOn(page', calls'[j], f)
        BY <1>3, <1>4, <2>1, <2>4, <4>1, <4>2 DEF Serves, ServesOn
      <4> QED BY <1>6, <4>1, <4>2, <4>3 DEF Serves
    <3> QED BY <3>1, <3>2
  <2> QED BY <1>7, <2>2, <2>3, <2>5 DEF Staying
<1> QED BY <1>6, <1>8, <1>10, <1>11, <1>12 DEF TaskPageInv, PatientPage

LEMMA ScrollTimerKeeps ==
    ASSUME TaskPageInv, NEW i \in DOMAIN handlers, ScrollTimer(i)
    PROVE  TaskPageInv'
<1>1. PageTyped /\ handlers \in Seq(Handlers) /\ AllHeld
  BY DEF TaskPageInv, PageTyped
<1>2. /\ handlers[i].timer /\ reload(1)
      /\ handlers' = [handlers EXCEPT ![i] = React(handlers[i], "timer")]
      /\ UNCHANGED <<page, taskView, compView, patient, pointer>>
  BY DEF ScrollTimer, pageVars
<1>3. handlers[i] \in Handlers
  BY <1>1, LenProperties, ElementOfSeq
<1> DEFINE g == React(handlers[i], "timer")
<1>4. g \in Handlers /\ g.dragging = handlers[i].dragging
  BY <1>3, HandlerTimer
<1>5. handlers' = [handlers EXCEPT ![i] = g]
  BY <1>2
<1> HIDE DEF g
<1>6. /\ handlers' \in Seq(Handlers) /\ DOMAIN handlers' = DOMAIN handlers
      /\ handlers'[i] = g /\ \A j \in DOMAIN handlers : j # i => handlers'[j] = handlers[j]
  BY <1>1, <1>4, <1>5, Replaced
<1>7. ASSUME NEW j \in DOMAIN handlers' PROVE Held(handlers[j])'
  <2>1. Held(handlers[j])
    BY <1>1, <1>6, <1>7 DEF AllHeld
  <2>2. handlers'[j].dragging = handlers[j].dragging
    BY <1>4, <1>6, <1>7
  <2> QED BY <1>2, <2>1, <2>2 DEF Held
<1>8. AllHeld'
  BY <1>7 DEF AllHeld
<1>9. patient => Staying
  BY <1>2 DEF TaskPageInv, PatientPage, Visiting, Idle
<1> QED BY <1>2, <1>6, <1>8, <1>9, ReloadKeeps

LEMMA PointerKeeps ==
    ASSUME TaskPageInv, NEW e \in PointerEvents, Pointer(e)
    PROVE  TaskPageInv'
<1> DEFINE shifting == {i \in DOMAIN handlers : Shifts(handlers[i], e)}
           reloading == {i \in DOMAIN handlers : Reloads(handlers[i], e)}
<1>1. /\ PageTyped /\ handlers \in Seq(Handlers) /\ AllHeld /\ page \in Pages
      /\ nav \in Histories(PageUrls)
  BY DEF TaskPageInv, PageTyped
<1>2. /\ PointerMoves(e)
      /\ handlers' = [i \in DOMAIN handlers |-> React(handlers[i], e)]
      /\ IF shifting = {} THEN UNCHANGED <<page, taskView, compView>>
         ELSE \E r \in Ranges : Shifted(r)
      /\ reload(Cardinality(reloading))
      /\ UNCHANGED patient
  BY DEF Pointer, Acts, ShiftedRanges
<1>3. patient => calls = <<>> /\ Staying
  <2>1. patient => calls = <<>>
    BY DEF Pointer, Acts, TaskPageAtRest
  <2> QED BY <2>1, EmptySeq DEF TaskPageInv, PatientPage, Visiting
<1>4. DOMAIN handlers = 1..Len(handlers) /\ Len(handlers) \in Nat
  BY <1>1, LenProperties
<1>5. ASSUME NEW i \in DOMAIN handlers
      PROVE  /\ handlers'[i] \in Handlers /\ Held(handlers[i])'
             /\ Shifts(handlers[i], e) => Due(handlers[i])'
             /\ Due(handlers[i]) => Due(handlers[i])' \/ Reloads(handlers[i], e)
  <2>1. PICK h \in Handlers : h = handlers[i]
    BY <1>1, <1>4, <1>5, ElementOfSeq
  <2>2. PICK g : g = React(h, e)
    OBVIOUS
  <2>3. handlers'[i] = g /\ Held(h)
    BY <1>1, <1>2, <1>5, <2>1, <2>2 DEF AllHeld
  <2>4. /\ g \in Handlers /\ Held(g)'
        /\ Shifts(h, e) => Due(g)'
        /\ Due(h) => Due(g)' \/ Reloads(h, e)
    BY <1>2, <2>2, <2>3, HandlerReacts
  <2> QED BY <2>1, <2>3, <2>4 DEF Held, Due
<1>6. DOMAIN handlers' = DOMAIN handlers
  BY <1>2
<1>7. handlers' \in Seq(Handlers)
  <2>1. handlers' \in [1..Len(handlers) -> Handlers]
    BY <1>2, <1>4, <1>5
  <2> QED BY <1>4, <2>1, SeqDef
<1>8. AllHeld'
  BY <1>5, <1>6 DEF AllHeld
<1>9. shifting # {} => ReloadDue'
  BY <1>5, <1>6 DEF ReloadDue
<1>10. ReloadDue => ReloadDue' \/ reloading # {}
  BY <1>5, <1>6 DEF ReloadDue
<1>11. Cardinality(reloading) \in Nat /\ (Cardinality(reloading) = 0 <=> reloading = {})
  <2>1. IsFiniteSet(1..Len(handlers))
    BY <1>4, FS_Interval
  <2>2. IsFiniteSet(reloading)
    <3>1. reloading \subseteq 1..Len(handlers)
      BY <1>4
    <3> HIDE DEF reloading
    <3> QED BY <2>1, <3>1, FS_Subset
  <2> HIDE DEF reloading
  <2> QED BY <2>2, FS_CardinalityType, FS_EmptySet
<1>12. CASE reloading # {}
  <2>1. shifting = {}
    BY <1>12 DEF Shifts, Reloads
  <2>2. UNCHANGED <<page, taskView, compView>>
    BY <1>2, <2>1
  <2>3. Cardinality(reloading) \in Nat /\ Cardinality(reloading) # 0
    BY <1>11, <1>12
  <2> HIDE DEF shifting, reloading
  <2> QED BY <1>2, <1>3, <1>7, <1>8, <2>2, <2>3, ReloadKeeps
<1>13. CASE reloading = {}
  <2>1. Cardinality(reloading) = 0
    BY <1>11, <1>13
  <2>2. nav' = nav /\ calls' = Reasked(0)
    BY <1>2, <2>1 DEF reload
  <2>3. calls' = calls
    <3>1. PICK n \in Nat : n = 0
      OBVIOUS
    <3> QED BY <1>1, <2>2, <3>1, ReaskedCalls
  <2>4. \/ UNCHANGED <<page, taskView, compView>> /\ shifting = {}
        \/ /\ shifting # {}
           /\ \E r \in Ranges : /\ page' = [page EXCEPT !.range = r]
                                /\ taskView' = Placed(taskView, r)
                                /\ compView' = Placed(compView, r)
    BY <1>2 DEF Shifted
  <2>5. /\ page' \in Pages /\ page'.mode = page.mode /\ page'.comp = page.comp
        /\ page'.curr = page.curr
        /\ shifting = {} => page'.range = page.range
        /\ shifting # {} => page'.range # NoRange
    BY <1>1, <2>4, TaskPageAssumption DEF Pages, AnyRange
  <2>6. /\ taskView' \in TaskViews /\ taskView'.shows = taskView.shows
        /\ compView' \in ComponentViews /\ compView'.shows = compView.shows
        /\ compView'.data = compView.data
        /\ shifting = {} => Goal' = Goal
    <3>1. CASE shifting = {}
      BY <1>1, <2>4, <3>1 DEF PageTyped, Goal
    <3>2. CASE shifting # {}
      <4>1. PICK r \in Ranges : /\ taskView' = Placed(taskView, r)
                                /\ compView' = Placed(compView, r)
        BY <2>4, <3>2
      <4>2. r \in AnyRange
        BY DEF AnyRange
      <4> QED BY <1>1, <3>2, <4>1, <4>2, PlacedTyped
    <3> QED BY <3>1, <3>2
  <2> HIDE DEF shifting, reloading
  <2>7. PageTyped'
    BY <1>1, <1>7, <2>3, <2>5, <2>6 DEF PageTyped
  <2>8. BarsCatchUp'
    BY <1>9, <1>10, <1>13, <2>3, <2>5, <2>6 DEF TaskPageInv, BarsCatchUp
  <2>9. TaskIsComing'
    BY <2>3, <2>5, <2>6 DEF TaskPageInv, TaskIsComing, NothingToReload
  <2>10. Url' = Url
    BY <2>2 DEF Url
  <2>11. ASSUME patient PROVE Staying'
    <3>1. calls' = <<>> /\ Staying /\ DOMAIN calls' = {}
      BY <1>3, <2>3, <2>11
    <3>2. Showing(Url)' /\ page'.range # NoRange
      BY <2>5, <2>6, <2>10, <3>1 DEF Staying, Showing
    <3>3. ReloadDue' \/ (page'.range = Expected(Url)' /\ compView'.data = page'.range)
      BY <1>3, <1>9, <1>10, <1>13, <2>5, <2>6, <2>10, <2>11 DEF Staying
    <3> QED BY <3>1, <3>2, <3>3 DEF Staying
  <2> QED BY <1>1, <1>2, <1>8, <2>2, <2>7, <2>8, <2>9, <2>11
          DEF TaskPageInv, PatientPage
<1> QED BY <1>12, <1>13

\* Every step of the task page keeps its invariant.
LEMMA TaskPageKeeps ==
    ASSUME TaskPageInv, TaskPageNext
    PROVE  TaskPageInv'
<1>1. ASSUME NEW i \in DOMAIN calls, TaskPageAnswered(i) PROVE TaskPageInv'
  BY <1>1, SimulationKeeps, FindKeeps, SpanKeeps, TaskAnswerKeeps, ParentAnswerKeeps,
     WhereAnswerKeeps, ComponentAnswerKeeps DEF TaskPageAnswered
<1>2. ASSUME NEW i \in DOMAIN handlers, ScrollTimer(i) PROVE TaskPageInv'
  BY <1>2, ScrollTimerKeeps
<1>3. ASSUME NEW t \in Tasks, BarClick(t) PROVE TaskPageInv'
  BY <1>3, BarClickKeeps
<1>4. ASSUME NEW e \in PointerEvents, Pointer(e) PROVE TaskPageInv'
  BY <1>4, PointerKeeps
<1> QED BY <1>1, <1>2, <1>3, <1>4, TransitionKeeps, LayoutKeeps, TravelKeeps
        DEF TaskPageNext

\* The invariant says what the properties say.
LEMMA TaskPageIsRight ==
    ASSUME TaskPageInv
    PROVE  BarsFollowAxis /\ ~OnDashboard /\ TaskPageIsUrl
<1>1. PICK e \in PageUrls : e = Url
  BY HistoryUrl DEF TaskPageInv, Url
<1>2. ~OnDashboard
  BY <1>1, PageUrlParts DEF OnDashboard
<1>3. TaskPageAtRest => ~ReloadDue
  BY DEF TaskPageAtRest, ReloadDue, Due, Idle
<1>4. BarsFollowAxis
  BY <1>3 DEF BarsFollowAxis, TaskPageInv, BarsCatchUp, TaskPageAtRest, Goal
<1>5. TaskPageIsUrl
  <2> SUFFICES ASSUME patient, TaskPageAtRest PROVE ShownIsUrl(e)
    BY <1>1 DEF TaskPageIsUrl
  <2>1. calls = <<>> /\ Staying
    BY EmptySeq DEF TaskPageInv, PatientPage, Visiting, TaskPageAtRest
  <2>2. Showing(e) /\ page.range = Expected(e) /\ compView.data = page.range
    BY <1>1, <1>3, <2>1 DEF Staying
  <2> QED BY <2>2 DEF Showing, Expected, ShownIsUrl
<1> QED BY <1>2, <1>4, <1>5

-----------------------------------------------------------------------------
(* Lemmas: bags, widgets and their requests *)

\* What is in a union of bags, in a bag without an element, and in none.
LEMMA BagsTogether ==
    ASSUME NEW B, NEW C
    PROVE  DOMAIN (B (+) C) = DOMAIN B \cup DOMAIN C
BY DEF (+)

LEMMA BagTaken ==
    ASSUME NEW B, NEW f, NEW C, C = BagOps!BagRemove(B, f)
    PROVE  DOMAIN C \subseteq DOMAIN B /\ DOMAIN B \ {f} \subseteq DOMAIN C
BY DEF BagOps!BagRemove

LEMMA BagEmpty == DOMAIN EmptyBag = {}
BY DEF EmptyBag, SetToBag

\* Every axis that is shown is asked for, for every widget of ks.
LEMMA AskedFetches ==
    ASSUME NEW ws \in Seq(WidgetSet), NEW ks \in SUBSET DOMAIN ws,
           NEW A, A = DOMAIN Asked(ws, ks)
    PROVE  /\ A \subseteq FetchSet
           /\ \A f \in A : /\ f.widget \in ks /\ f.svg = ws[f.widget].svg
                           /\ f.info = ws[f.widget].axes[f.side]
                           /\ f.range = ws[f.widget].range
           /\ \A k \in ks, s \in Sides : ~Skipped(ws[k], s) =>
                \E f \in A : f.widget = k /\ f.side = s
<1> DEFINE F(k, s) == [widget |-> k, svg |-> ws[k].svg, side |-> s,
                       info |-> ws[k].axes[s], range |-> ws[k].range]
<1>1. A = {f \in {F(k, s) : k \in ks, s \in Sides} : f.info # Skip}
  BY DEF Asked, SetToBag
<1>2. DOMAIN ws = 1..Len(ws) /\ Len(ws) \in Nat
  BY LenProperties
<1>3. ASSUME NEW k \in ks, NEW s \in Sides
      PROVE  /\ F(k, s).widget = k /\ F(k, s).svg = ws[k].svg /\ F(k, s).side = s
             /\ F(k, s).info = ws[k].axes[s] /\ F(k, s).range = ws[k].range
             /\ F(k, s).info # Skip => F(k, s) \in FetchSet
  <2>1. k \in Nat /\ ws[k] \in WidgetSet
    BY <1>2, ElementOfSeq
  <2>2. ws[k].svg \in Nat /\ ws[k].axes[s] \in Axes /\ ws[k].range \in AnyRange
    BY <2>1 DEF WidgetSet
  <2> QED BY <2>1, <2>2 DEF FetchSet
<1> HIDE DEF F
<1>4. ASSUME NEW f \in A
      PROVE  /\ f \in FetchSet /\ f.widget \in ks /\ f.svg = ws[f.widget].svg
             /\ f.info = ws[f.widget].axes[f.side] /\ f.range = ws[f.widget].range
  <2>1. PICK k \in ks, s \in Sides : f = F(k, s) /\ f.info # Skip
    BY <1>1
  <2> QED BY <1>3, <2>1
<1>5. ASSUME NEW k \in ks, NEW s \in Sides, ~Skipped(ws[k], s)
      PROVE  \E f \in A : f.widget = k /\ f.side = s
  <2>1. F(k, s) \in A
    BY <1>1, <1>3, <1>5 DEF Skipped
  <2> QED BY <1>3, <2>1
<1> QED BY <1>4, <1>5

\* Two widgets that differ in their handler, range and curves at most.
Alike(v, w) ==
    /\ v.name = w.name /\ v.axes = w.axes /\ v.data = w.data /\ v.svg = w.svg
    /\ v.stray = w.stray

\* Drawing a curve again touches the curves of the widget alone.
LEMMA RedrawnWidget ==
    ASSUME NEW w \in WidgetSet, NEW s \in Sides, NEW v, v = Redrawn(w, s)
    PROVE  /\ v \in WidgetSet /\ Alike(v, w)
           /\ v.handler = w.handler /\ v.range = w.range
           /\ \A c \in v.curves : c \in w.curves \/ (c = w.data[s] /\ ~Skipped(w, s))
           /\ (Skipped(w, s) \/ /\ w.data[s] \in w.curves
                                /\ \A c \in w.curves : c.info = w.data[s].info => c = w.data[s])
                => v.curves = w.curves
<1>1. w.data[s] \in DataSet
  BY DEF WidgetSet
<1>2. CASE Skipped(w, s) \/ Missing(w, s)
  <2>1. v = w
    BY <1>2 DEF Redrawn
  <2> QED BY <2>1 DEF Alike
<1>3. CASE ~(Skipped(w, s) \/ Missing(w, s))
  <2> DEFINE C == {c \in w.curves : c.info # w.data[s].info} \cup {w.data[s]}
  <2>1. v = [w EXCEPT !.curves = C]
    BY <1>3 DEF Redrawn, WidgetSet
  <2>2. C \in SUBSET DataSet
    BY <1>1 DEF WidgetSet
  <2>3. (/\ w.data[s] \in w.curves
         /\ \A c \in w.curves : c.info = w.data[s].info => c = w.data[s]) => C = w.curves
    OBVIOUS
  <2>4. \A c \in C : c \in w.curves \/ c = w.data[s]
    OBVIOUS
  <2> HIDE DEF C
  <2>5. v \in WidgetSet /\ v.curves = C /\ v.handler = w.handler /\ v.range = w.range
    BY <2>1, <2>2 DEF WidgetSet
  <2>6. Alike(v, w)
    BY <2>1 DEF Alike, WidgetSet
  <2> QED BY <1>3, <2>3, <2>4, <2>5, <2>6
<1> QED BY <1>2, <1>3

\* What stands on the curves: the data of its axes.
Stands(w) ==
    \A s \in Sides : ~Skipped(w, s) =>
        /\ w.data[s] \in w.curves
        /\ \A c \in w.curves : c.info = w.data[s].info => c = w.data[s]

\* A shift moves the range of a widget and may draw its curves again.
LEMMA ShiftedWidget ==
    ASSUME NEW w \in WidgetSet, NEW r \in AnyRange, NEW v, v = temporaryTimeShift(w, r)
    PROVE  /\ v \in WidgetSet /\ Alike(v, w)
           /\ v.handler = w.handler /\ v.range = r
           /\ Complete(w) /\ DrawsItsAxes(w) => Complete(v) /\ DrawsItsAxes(v)
           /\ Stands(w) => v.curves = w.curves
<1>1. PICK a \in WidgetSet : a = [w EXCEPT !.range = r]
  BY DEF WidgetSet
<1>2. Alike(a, w) /\ a.handler = w.handler /\ a.range = r /\ a.curves = w.curves
  BY <1>1 DEF Alike, WidgetSet
<1>3. "p" \in Sides /\ "s" \in Sides
  BY DEF Sides
<1>4. PICK b : b = Redrawn(a, "p")
  OBVIOUS
<1>5. /\ b \in WidgetSet /\ Alike(b, a) /\ b.handler = a.handler /\ b.range = a.range
      /\ \A c \in b.curves : c \in a.curves \/ (c = a.data["p"] /\ ~Skipped(a, "p"))
      /\ (Skipped(a, "p") \/ /\ a.data["p"] \in a.curves
                             /\ \A c \in a.curves : c.info = a.data["p"].info => c = a.data["p"])
           => b.curves = a.curves
  BY <1>3, <1>4, RedrawnWidget
<1>6. v = IF Missing(w, "p") THEN b ELSE Redrawn(b, "s")
  BY <1>1, <1>4 DEF temporaryTimeShift
<1>7. PICK d : d = Redrawn(b, "s")
  OBVIOUS
<1>8. /\ d \in WidgetSet /\ Alike(d, b) /\ d.handler = b.handler /\ d.range = b.range
      /\ \A c \in d.curves : c \in b.curves \/ (c = b.data["s"] /\ ~Skipped(b, "s"))
      /\ (Skipped(b, "s") \/ /\ b.data["s"] \in b.curves
                             /\ \A c \in b.curves : c.info = b.data["s"].info => c = b.data["s"])
           => d.curves = b.curves
  BY <1>3, <1>5, <1>7, RedrawnWidget
<1>9. v \in WidgetSet /\ Alike(v, w) /\ v.handler = w.handler /\ v.range = r
  BY <1>2, <1>5, <1>6, <1>7, <1>8 DEF Alike
<1>10. ASSUME NEW c \in v.curves
       PROVE  c \in w.curves \/ \E s \in Sides : c = w.data[s] /\ ~Skipped(w, s)
  BY <1>2, <1>3, <1>5, <1>6, <1>7, <1>8, <1>10 DEF Alike, Skipped
<1>11. ASSUME Complete(w), DrawsItsAxes(w) PROVE Complete(v) /\ DrawsItsAxes(v)
  <2>1. Complete(v)
    BY <1>9, <1>11 DEF Complete, Alike, Skipped
  <2>2. ASSUME NEW c \in v.curves
        PROVE  \E s \in Sides : ~Skipped(v, s) /\ c.info = v.axes[s]
    <3>1. CASE c \in w.curves
      BY <1>9, <1>11, <3>1 DEF DrawsItsAxes, Alike, Skipped
    <3>2. CASE \E s \in Sides : c = w.data[s] /\ ~Skipped(w, s)
      BY <1>9, <1>11, <3>2 DEF Complete, Alike, Skipped
    <3> QED BY <1>10, <2>2, <3>1, <3>2
  <2> QED BY <2>1, <2>2 DEF DrawsItsAxes
<1>12. ASSUME Stands(w) PROVE v.curves = w.curves
  <2>1. b.curves = w.curves
    BY <1>2, <1>3, <1>5, <1>12 DEF Stands, Alike, Skipped
  <2>2. d.curves = w.curves
    BY <1>2, <1>3, <1>5, <1>8, <1>12, <2>1 DEF Stands, Alike, Skipped
  <2> QED BY <1>6, <1>7, <2>1, <2>2
<1> QED BY <1>9, <1>11, <1>12

\* A widget with the data of its axes draws them without an exception.
LEMMA CompleteDraws ==
    ASSUME NEW w, Complete(w)
    PROVE  ~Throws(w) /\ \A s \in Sides : ~Missing(w, s)
BY DEF Complete, Throws, Missing, Skipped, NoData, Sides

\* The grid has a number of cells, and a page is a list of names.
LEMMA CellsTyped ==
    ASSUME NEW n \in Nat
    PROVE  Cells(n) \in Nat
<1> DEFINE w == IF n > MaxWidgets THEN MaxWidgets ELSE n
<1>1. w \in 0..16
  BY PagesAssumption
<1>2. ASSUME NEW k \in 1..16
      PROVE  rowColTable[k][1] * rowColTable[k][2] \in Nat
  <2>1. \/ k = 1 \/ k = 2 \/ k = 3 \/ k = 4 \/ k = 5 \/ k = 6 \/ k = 7 \/ k = 8
        \/ k = 9 \/ k = 10 \/ k = 11 \/ k = 12 \/ k = 13 \/ k = 14 \/ k = 15 \/ k = 16
    BY <1>2
  <2>2. rowColTable[k][1] \in 1..4 /\ rowColTable[k][2] \in 1..4
    BY <2>1 DEF rowColTable
  <2> QED BY <2>2
<1>3. Cells(n) = IF w = 0 THEN 0 ELSE rowColTable[w][1] * rowColTable[w][2]
  BY DEF Cells
<1> HIDE DEF w
<1> QED BY <1>1, <1>2, <1>3

LEMMA PageOfTyped ==
    ASSUME NEW S, NEW names \in Seq(S), NEW curr \in Nat, NEW cells \in Nat
    PROVE  PageOf(names, curr, cells) \in Seq(S)
<1>1. PICK l \in Nat : l = Len(names) /\ \A i \in 1..l : names[i] \in S
  BY LenProperties, ElementOfSeq
<1>2. PICK a \in Nat : a = curr * cells
  OBVIOUS
<1>3. PICK b \in Nat : b = (curr + 1) * cells
  OBVIOUS
<1>4. PICK c \in Int : c = IF b < l THEN b ELSE l
  OBVIOUS
<1>5. PageOf(names, curr, cells) = SubSeq(names, a + 1, c)
  BY <1>1, <1>2, <1>3, <1>4 DEF PageOf
<1>6. PICK m \in Int : m = a + 1
  OBVIOUS
<1>7. \A i \in m..c : names[i] \in S
  BY <1>1, <1>4, <1>6
<1>8. SubSeq(names, m, c) \in Seq(S)
  BY <1>7, SubSeqProperties
<1> QED BY <1>5, <1>6, <1>8

\* The parts of a URL of the dashboard.
LEMMA DashboardUrlParts ==
    ASSUME NEW e \in DashboardUrls
    PROVE  /\ e.page = "dashboard" /\ e.number \in Nat /\ e.filter \in Filters
           /\ e.axes \in [Sides -> Axes] /\ e.range \in AnyRange
BY DEF DashboardUrls

\* The widgets that setTimeRange shifts keep their handlers and data.
LEMMA ShiftedTyped ==
    ASSUME NEW ws \in Seq(WidgetSet), NEW r \in AnyRange, NEW vs, vs = ShiftedAll(ws, r)
    PROVE  /\ vs \in Seq(WidgetSet) /\ DOMAIN vs = DOMAIN ws
           /\ \A k \in DOMAIN ws : /\ vs[k] \in WidgetSet /\ Alike(vs[k], ws[k])
                                   /\ vs[k].handler = ws[k].handler
<1>1. DOMAIN ws = 1..Len(ws) /\ Len(ws) \in Nat
  BY LenProperties
<1>2. DOMAIN vs = DOMAIN ws
  BY DEF ShiftedAll
<1>3. ASSUME NEW k \in DOMAIN ws
      PROVE  /\ vs[k] \in WidgetSet /\ Alike(vs[k], ws[k])
             /\ vs[k].handler = ws[k].handler
  <2>1. ws[k] \in WidgetSet
    BY <1>1, <1>3, ElementOfSeq
  <2>2. vs[k] = ws[k] \/ vs[k] = temporaryTimeShift(ws[k], r)
    BY <1>3 DEF ShiftedAll
  <2>3. /\ temporaryTimeShift(ws[k], r) \in WidgetSet
        /\ Alike(temporaryTimeShift(ws[k], r), ws[k])
        /\ temporaryTimeShift(ws[k], r).handler = ws[k].handler
    BY <2>1, ShiftedWidget
  <2>4. Alike(ws[k], ws[k])
    BY DEF Alike
  <2> QED BY <2>1, <2>2, <2>3, <2>4
<1>4. vs \in Seq(WidgetSet)
  <2>1. vs \in [1..Len(ws) -> WidgetSet]
    BY <1>1, <1>3 DEF ShiftedAll
  <2> QED BY <1>1, <2>1, SeqDef
<1> QED BY <1>2, <1>3, <1>4

\* setTimeRange: URL and dashboard take the range; the widgets up to the
\* first that throws take it too, and nothing else of them changes.
LEMMA RangeTaken ==
    ASSUME nav \in Histories(DashboardUrls), NEW d \in Dashboards,
           NEW ws \in Seq(WidgetSet), NEW r \in AnyRange,
           DOMAIN fetches \subseteq FetchSet,
           \A f \in DOMAIN fetches : f.widget \in DOMAIN ws,
           \A k \in DOMAIN ws, s \in Sides : Missing(ws[k], s) => Pending(k, s),
           DOMAIN orphans' \subseteq AnyRange,
           setTimeRange(d, ws, r)
    PROVE  /\ nav' \in Histories(DashboardUrls)
           /\ Url'.range = r /\ Url'.number = Url.number
           /\ Url'.filter = Url.filter /\ Url'.axes = Url.axes
           /\ dash' = [d EXCEPT !.range = r] /\ dash' \in Dashboards /\ dash'.range = r
           /\ DashTyped' /\ MissingIsAsked'
           /\ DOMAIN widgets' = DOMAIN ws
           /\ \A k \in DOMAIN ws : /\ Alike(widgets'[k], ws[k])
                                   /\ widgets'[k].handler = ws[k].handler
           /\ DOMAIN fetches \subseteq DOMAIN fetches'
<1>1. PICK e \in DashboardUrls : e = Url
  BY HistoryUrl DEF Url
<1> DEFINE f == [e EXCEPT !.range = r]
           shifted == ShiftedAll(ws, r)
<1>2. /\ f \in DashboardUrls /\ f.range = r /\ f.number = e.number
      /\ f.filter = e.filter /\ f.axes = e.axes
  BY DEF DashboardUrls
<1>3. /\ nav' = replaceState(nav, f) /\ dash' = [d EXCEPT !.range = r]
      /\ widgets' = shifted /\ fetches' = fetches (+) Asked(shifted, Reached(ws))
  BY <1>1 DEF setTimeRange
<1> HIDE DEF f
<1>4. nav' \in Histories(DashboardUrls) /\ Url' = f
  BY <1>2, <1>3, HistoryReplace DEF Url
<1>5. dash' \in Dashboards /\ dash'.range = r
  BY <1>3 DEF Dashboards
<1>7. shifted \in Seq(WidgetSet) /\ DOMAIN shifted = DOMAIN ws
  BY ShiftedTyped
<1>8. \A k \in DOMAIN ws : /\ shifted[k] \in WidgetSet /\ Alike(shifted[k], ws[k])
                           /\ shifted[k].handler = ws[k].handler
  BY ShiftedTyped
<1> HIDE DEF shifted
<1>10. Reached(ws) \in SUBSET DOMAIN shifted
  BY <1>7 DEF Reached
<1>11. PICK A : A = DOMAIN Asked(shifted, Reached(ws))
  OBVIOUS
<1>12. A \subseteq FetchSet /\ \A g \in A : g.widget \in Reached(ws)
  BY <1>7, <1>10, <1>11, AskedFetches
<1>13. DOMAIN fetches' = DOMAIN fetches \cup A
  BY <1>3, <1>11, BagsTogether
<1>14. DashTyped'
  BY <1>3, <1>5, <1>7, <1>10, <1>12, <1>13 DEF DashTyped
<1>15. ASSUME NEW k \in DOMAIN widgets', NEW s \in Sides, Missing(widgets'[k], s)
       PROVE  Pending(k, s)'
  <2>1. Missing(ws[k], s)
    BY <1>3, <1>7, <1>8, <1>15 DEF Missing, Skipped, Alike
  <2>2. Pending(k, s)
    BY <1>3, <1>7, <1>15, <2>1
  <2> QED BY <1>13, <2>2 DEF Pending
<1>16. MissingIsAsked'
  BY <1>15 DEF MissingIsAsked
<1> QED BY <1>1, <1>2, <1>3, <1>4, <1>5, <1>7, <1>8, <1>13, <1>14, <1>16

\* When no widget throws, all take the range and ask for their data in it.
LEMMA RangeTakenByAll ==
    ASSUME NEW ws \in Seq(WidgetSet), NEW r \in AnyRange, NEW d,
           DOMAIN fetches \subseteq FetchSet,
           \A k \in DOMAIN ws : Complete(ws[k]) /\ DrawsItsAxes(ws[k]),
           \A f \in DOMAIN fetches :
              /\ f.widget \in DOMAIN ws
              /\ f.svg = ws[f.widget].svg /\ f.info = ws[f.widget].axes[f.side]
              /\ f.range = r,
           setTimeRange(d, ws, r)
    PROVE  /\ Curves'
           /\ \A k \in DOMAIN widgets' : widgets'[k].range = r
<1> DEFINE shifted == ShiftedAll(ws, r)
<1>1. widgets' = shifted /\ fetches' = fetches (+) Asked(shifted, Reached(ws))
  BY DEF setTimeRange
<1>2. DOMAIN ws = 1..Len(ws) /\ Len(ws) \in Nat
  BY LenProperties
<1>3. \A k \in DOMAIN ws : ~Throws(ws[k])
  BY CompleteDraws
<1>4. Reached(ws) = DOMAIN ws /\ DOMAIN shifted = DOMAIN ws
  <2>1. ASSUME NEW k \in DOMAIN ws PROVE \A j \in 1..k : ~Throws(ws[j])
    <3>1. ASSUME NEW j \in 1..k PROVE j \in DOMAIN ws
      BY <1>2, <2>1, <3>1
    <3> QED BY <1>3, <3>1
  <2> QED BY <2>1 DEF Reached, ShiftedAll
<1>5. ASSUME NEW k \in DOMAIN ws
      PROVE  /\ shifted[k] \in WidgetSet /\ Alike(shifted[k], ws[k])
             /\ shifted[k].range = r
             /\ Complete(shifted[k]) /\ DrawsItsAxes(shifted[k])
  <2>1. ws[k] \in WidgetSet
    BY <1>2, <1>5, ElementOfSeq
  <2>2. shifted[k] = temporaryTimeShift(ws[k], r)
    <3>1. ASSUME NEW j \in 1..(k - 1) PROVE j \in DOMAIN ws
      BY <1>2, <1>5, <3>1
    <3> QED BY <1>3, <1>5, <3>1 DEF ShiftedAll
  <2> HIDE DEF shifted
  <2> QED BY <1>5, <2>1, <2>2, ShiftedWidget
<1>6. shifted \in Seq(WidgetSet)
  <2>1. shifted \in [1..Len(ws) -> WidgetSet]
    BY <1>2, <1>5 DEF ShiftedAll
  <2> QED BY <1>2, <2>1, SeqDef
<1> HIDE DEF shifted
<1>7. PICK A : A = DOMAIN Asked(shifted, DOMAIN shifted)
  OBVIOUS
<1>8. /\ \A g \in A : /\ g.widget \in DOMAIN shifted /\ g.svg = shifted[g.widget].svg
                      /\ g.info = shifted[g.widget].axes[g.side]
                      /\ g.range = shifted[g.widget].range
      /\ \A k \in DOMAIN shifted, s \in Sides : ~Skipped(shifted[k], s) =>
            \E g \in A : g.widget = k /\ g.side = s
  BY <1>6, <1>7, AskedFetches
<1>9. DOMAIN fetches' = DOMAIN fetches \cup A
  BY <1>1, <1>4, <1>7, BagsTogether
<1>10. ASSUME NEW k \in DOMAIN widgets'
       PROVE  (AsksItsOwn(k) /\ HasData(k) /\ DrawsItsAxes(widgets[k]) /\ Complete(widgets[k]))'
  <2>1. ASSUME NEW f \in DOMAIN fetches', f.widget = k
        PROVE  /\ f.svg = widgets'[k].svg
               /\ f.info = widgets'[k].axes[f.side]
               /\ f.range = widgets'[k].range
    <3>1. CASE f \in DOMAIN fetches
      BY <1>1, <1>4, <1>5, <1>10, <2>1, <3>1 DEF Alike
    <3>2. CASE f \in A
      BY <1>1, <1>8, <2>1, <3>2
    <3> QED BY <1>9, <2>1, <3>1, <3>2
  <2>2. AsksItsOwn(k)'
    BY <2>1 DEF AsksItsOwn
  <2>3. HasData(k)'
    BY <1>1, <1>8, <1>9, <1>10 DEF HasData, Here, Pending, Skipped
  <2>4. (DrawsItsAxes(widgets[k]) /\ Complete(widgets[k]))'
    BY <1>1, <1>4, <1>5, <1>10 DEF DrawsItsAxes, Complete, Skipped
  <2> QED BY <2>2, <2>3, <2>4
<1> QED BY <1>1, <1>4, <1>5, <1>10 DEF Curves

\* renderPage: the widgets are new, quiet, without curves, and ask for the
\* data of their axes.
LEMMA PageRendered ==
    ASSUME NEW d \in Dashboards, NEW ws \in Seq(WidgetSet),
           DOMAIN orphans \subseteq AnyRange, renderPage(d, ws)
    PROVE  /\ dash' = d /\ DashTyped' /\ MissingIsAsked' /\ Curves' /\ Quiet'
           /\ [k \in DOMAIN widgets' |-> widgets'[k].name]
                = PageOf(d.filtered, d.page, d.cells)
           /\ \A k \in DOMAIN widgets' :
                /\ widgets'[k].axes = d.axes /\ widgets'[k].range = d.range
                /\ widgets'[k].stray = 0 /\ ~widgets'[k].handler.dragging
           /\ (\A k \in DOMAIN ws : Timers(ws[k]) = 0) => DOMAIN orphans' = DOMAIN orphans
<1> DEFINE names == PageOf(d.filtered, d.page, d.cells)
           new == [k \in DOMAIN names |-> newWidget(names[k], d)]
<1>1. /\ dash' = d /\ widgets' = new /\ fetches' = Asked(new, DOMAIN new)
      /\ orphans' = orphans (+) Left(ws)
  BY DEF renderPage
<1>2. names \in Seq(Names)
  BY PageOfTyped DEF Dashboards
<1> HIDE DEF names
<1>3. DOMAIN names = 1..Len(names) /\ Len(names) \in Nat
  BY <1>2, LenProperties
<1>4. NoData \in DataSet
  BY DashboardAssumption DEF NoData, DataSet, AnyRange
<1>5. ASSUME NEW k \in DOMAIN names
      PROVE  /\ new[k] \in WidgetSet /\ new[k].name = names[k] /\ new[k].axes = d.axes
             /\ new[k].range = d.range /\ new[k].stray = 0 /\ new[k].curves = {}
             /\ new[k].handler = NewHandler
  <2>1. names[k] \in Names
    BY <1>2, <1>3, <1>5, ElementOfSeq
  <2>2. d.range \in AnyRange /\ d.axes \in [Sides -> Axes]
    BY DEF Dashboards
  <2>3. PICK w : w = newWidget(names[k], d)
    OBVIOUS
  <2>4. [s \in Sides |-> NoData] \in [Sides -> DataSet]
    BY <1>4
  <2>5. w \in WidgetSet
    BY <2>1, <2>2, <2>3, <2>4, NewHandlerTyped DEF newWidget, WidgetSet
  <2>6. /\ w.name = names[k] /\ w.axes = d.axes /\ w.range = d.range /\ w.stray = 0
        /\ w.curves = {} /\ w.handler = NewHandler
    BY <2>3 DEF newWidget
  <2>7. new[k] = w
    BY <1>5, <2>3
  <2> HIDE DEF new
  <2> QED BY <2>5, <2>6, <2>7
<1>6. DOMAIN new = DOMAIN names
  OBVIOUS
<1>7. new \in Seq(WidgetSet)
  <2>1. new \in [1..Len(names) -> WidgetSet]
    BY <1>3, <1>5
  <2> HIDE DEF new
  <2> QED BY <1>3, <2>1, SeqDef
<1> HIDE DEF new
<1>8. PICK A : A = DOMAIN Asked(new, DOMAIN new)
  OBVIOUS
<1>9. /\ A \subseteq FetchSet
      /\ \A g \in A : /\ g.widget \in DOMAIN new /\ g.svg = new[g.widget].svg
                      /\ g.info = new[g.widget].axes[g.side]
                      /\ g.range = new[g.widget].range
      /\ \A k \in DOMAIN new, s \in Sides : ~Skipped(new[k], s) =>
            \E g \in A : g.widget = k /\ g.side = s
  BY <1>7, <1>8, AskedFetches
<1>10. DOMAIN fetches' = A
  BY <1>1, <1>8
<1>11. /\ DOMAIN Left(ws) \subseteq AnyRange
       /\ (\A k \in DOMAIN ws : Timers(ws[k]) = 0) => DOMAIN Left(ws) = {}
  <2>1. DOMAIN Left(ws) = {ws[k].range : k \in {j \in DOMAIN ws : Timers(ws[j]) > 0}}
    BY Zenon DEF Left
  <2>2. \A k \in DOMAIN ws : ws[k].range \in AnyRange
    <3>1. \A k \in DOMAIN ws : ws[k] \in WidgetSet
      BY ElementOfSeq, LenProperties
    <3> QED BY <3>1 DEF WidgetSet
  <2> QED BY <2>1, <2>2
<1>12. DOMAIN orphans' = DOMAIN orphans \cup DOMAIN Left(ws)
  BY <1>1, BagsTogether
<1>13. DashTyped'
  BY <1>1, <1>7, <1>9, <1>10, <1>11, <1>12 DEF DashTyped
<1>14. MissingIsAsked'
  BY <1>1, <1>9, <1>10 DEF MissingIsAsked, Missing, Pending, Skipped
<1>15. Quiet'
  BY <1>1, <1>5, <1>6, NewHandlerTyped DEF Quiet
<1>16. ASSUME NEW k \in DOMAIN widgets'
       PROVE  (AsksItsOwn(k) /\ HasData(k) /\ DrawsItsAxes(widgets[k]))'
  <2>1. AsksItsOwn(k)'
    BY <1>1, <1>9, <1>10, <1>16 DEF AsksItsOwn
  <2>2. HasData(k)'
    BY <1>1, <1>9, <1>10, <1>16 DEF HasData, Here, Pending, Skipped
  <2>3. DrawsItsAxes(widgets[k])'
    BY <1>1, <1>5, <1>6, <1>16 DEF DrawsItsAxes
  <2> QED BY <2>1, <2>2, <2>3
<1>17. Curves'
  BY <1>15, <1>16 DEF Curves
<1>18. [k \in DOMAIN widgets' |-> widgets'[k].name] = names
  <2>1. names = [k \in DOMAIN names |-> names[k]]
    BY <1>2
  <2> QED BY <1>1, <1>5, <1>6, <2>1
<1> QED BY <1>1, <1>5, <1>6, <1>11, <1>12, <1>13, <1>14, <1>15, <1>17, <1>18, NewHandlerTyped
        DEF names

-----------------------------------------------------------------------------
(* The dashboard: its steps keep its invariant *)

\* What the invariant says of the types.
LEMMA BoardParts ==
    ASSUME DashboardRuns
    PROVE  /\ nav \in Histories(DashboardUrls) /\ Url \in DashboardUrls
           /\ dash \in Dashboards /\ widgets \in Seq(WidgetSet)
           /\ DOMAIN widgets = 1..Len(widgets) /\ Len(widgets) \in Nat
           /\ \A k \in DOMAIN widgets : widgets[k] \in WidgetSet
           /\ DOMAIN fetches \subseteq FetchSet /\ DOMAIN orphans \subseteq AnyRange
<1>1. nav \in Histories(DashboardUrls) /\ DashTyped
  BY DEF DashboardRuns
<1>2. Url \in DashboardUrls
  BY <1>1, HistoryUrl DEF Url
<1>3. dash \in Dashboards /\ widgets \in Seq(WidgetSet)
  BY <1>1 DEF DashTyped
<1>4. DOMAIN widgets = 1..Len(widgets) /\ Len(widgets) \in Nat
  BY <1>3, LenProperties
<1>5. \A k \in DOMAIN widgets : widgets[k] \in WidgetSet
  BY <1>3, <1>4, ElementOfSeq
<1> QED BY <1>1, <1>2, <1>3, <1>4, <1>5 DEF DashTyped

\* Once every answer has come, the widgets have their data and draw it.
LEMMA NothingIsPending ==
    ASSUME DashboardRuns, patient, fetches = EmptyBag
    PROVE  /\ DOMAIN fetches = {}
           /\ \A k \in DOMAIN widgets :
                /\ Complete(widgets[k]) /\ Stands(widgets[k]) /\ DrawsItsAxes(widgets[k])
                /\ ~Throws(widgets[k])
<1>1. DOMAIN fetches = {} /\ Curves
  BY BagEmpty DEF DashboardRuns, PatientBoard
<1>2. ASSUME NEW k \in DOMAIN widgets
      PROVE  Complete(widgets[k]) /\ Stands(widgets[k]) /\ DrawsItsAxes(widgets[k])
  <2>1. HasData(k) /\ DrawsItsAxes(widgets[k])
    BY <1>1, <1>2 DEF Curves
  <2>2. \A s \in Sides : ~Skipped(widgets[k], s) => Here(k, s)
    BY <1>1 DEF Here, Pending
  <2> QED BY <2>1, <2>2 DEF HasData, Complete, Stands
<1> QED BY <1>1, <1>2, CompleteDraws

\* A patient user with a busy widget has opened nothing and reset nothing.
LEMMA BusyWidget ==
    ASSUME DashboardRuns, patient, NEW k \in DOMAIN widgets, ~Idle(widgets[k].handler)
    PROVE  /\ dash.loads = 0 /\ dash.zooms = 0 /\ ~dash.filterTimer
           /\ \A j \in DOMAIN widgets : j # k => Idle(widgets[j].handler)
           /\ \A j \in DOMAIN widgets : Complete(widgets[j]) /\ DrawsItsAxes(widgets[j])
<1>1. OneThing /\ Curves /\ ~Quiet /\ dash \in Dashboards
  BY BoardParts DEF DashboardRuns, PatientBoard, Quiet
<1>2. dash.loads \in Nat /\ dash.zooms \in Nat
  BY <1>1 DEF Dashboards
<1>3. dash.loads = 0 /\ dash.zooms = 0 /\ ~dash.filterTimer
  BY <1>1, <1>2 DEF OneThing
<1>4. \A j \in DOMAIN widgets : j # k => Idle(widgets[j].handler)
  BY <1>1 DEF OneThing
<1>5. \A j \in DOMAIN widgets : Complete(widgets[j]) /\ DrawsItsAxes(widgets[j])
  BY <1>1 DEF Curves
<1> QED BY <1>3, <1>4, <1>5

\* The fields of the dashboard change and the widgets do not.
LEMMA WidgetsStay ==
    ASSUME DashboardRuns, UNCHANGED <<widgets, fetches, orphans, pointer>>,
           dash' \in Dashboards
    PROVE  /\ DashTyped' /\ MissingIsAsked'
           /\ patient => Curves' /\ Quiet' = Quiet
<1>1. DashTyped'
  BY DEF DashboardRuns, DashTyped
<1>2. MissingIsAsked'
  BY DEF DashboardRuns, MissingIsAsked, Missing, Skipped, Pending
<1>3. ASSUME patient PROVE Curves'
  <2>1. Curves
    BY <1>3 DEF DashboardRuns, PatientBoard
  <2> QED BY <2>1 DEF Curves, Quiet, Complete, DrawsItsAxes, HasData, Here, Pending,
                  AsksItsOwn, Skipped, Due
<1>4. Quiet' = Quiet
  BY DEF Quiet
<1> QED BY <1>1, <1>2, <1>3, <1>4

\* Something new is begun on a dashboard at rest: an entry of the history is
\* opened, the zoom is reset or the filter is typed.
LEMMA BeginKeeps ==
    ASSUME DashboardRuns, Gesture(DashboardAtRest),
           UNCHANGED <<widgets, fetches, orphans>>,
           nav' \in Histories(DashboardUrls), dash' \in Dashboards,
           dash'.loaded = dash.loaded, dash'.page = dash.page,
           dash'.filter = dash.filter, dash'.axes = dash.axes,
           dash'.filtered = dash.filtered, dash'.cells = dash.cells,
           dash'.range = dash.range,
           \/ nav' = nav /\ dash'.loads = dash.loads
           \/ dash'.loads = dash.loads + 1,
           \/ dash'.loads = dash.loads
           \/ dash'.zooms = dash.zooms /\ dash'.filterTimer = dash.filterTimer,
           dash'.zooms = dash.zooms \/ dash'.zooms = dash.zooms + 1,
           dash'.zooms = dash.zooms \/ dash'.filterTimer = dash.filterTimer
    PROVE  DashboardRuns'
<1>1. dash \in Dashboards /\ dash.loads \in Nat /\ dash.zooms \in Nat
  BY BoardParts DEF Dashboards
<1>2. pointer' = pointer /\ patient' = patient /\ (patient => DashboardAtRest)
  BY DEF Gesture, Acts
<1>3. DashTyped' /\ MissingIsAsked' /\ (patient => Curves' /\ Quiet' = Quiet)
  BY <1>2, WidgetsStay
<1>4. nav' = nav => Url' = Url
  BY DEF Url
<1>5. RangeIsUrls'
  BY <1>1, <1>4 DEF DashboardRuns, RangeIsUrls
<1>6. ASSUME patient PROVE OneThing' /\ Synced'
  <2>1. OneThing /\ Synced /\ DashboardAtRest
    BY <1>2, <1>6 DEF DashboardRuns, PatientBoard
  <2>2. /\ dash.loads = 0 /\ dash.zooms = 0 /\ ~dash.filterTimer
        /\ fetches = EmptyBag /\ Quiet
    BY <2>1 DEF DashboardAtRest, Quiet
  <2>3. Quiet' /\ fetches' = EmptyBag
    BY <1>3, <1>6, <2>2
  <2>4. \A k \in DOMAIN widgets : dash'.loaded /\ Held(widgets[k].handler)'
    BY <1>2, <2>1 DEF OneThing, Held
  <2>5. /\ DOMAIN orphans' = {} /\ \A k \in DOMAIN widgets' : widgets'[k].stray = 0
        /\ \A j, k \in DOMAIN widgets' :
             ~Idle(widgets'[j].handler) /\ ~Idle(widgets'[k].handler) => j = k
    BY <2>1 DEF OneThing
  <2>6. OneThing'
    BY <1>1, <2>2, <2>3, <2>4, <2>5 DEF OneThing
  <2>7. Synced'
    BY <1>1, <1>2, <1>4, <2>1 DEF Synced, Due
  <2> QED BY <2>6, <2>7
<1> QED BY <1>2, <1>3, <1>5, <1>6 DEF DashboardRuns, PatientBoard

LEMMA ResetZoomKeeps ==
    ASSUME DashboardRuns, ResetZoom
    PROVE  DashboardRuns'
<1>1. dash \in Dashboards /\ nav \in Histories(DashboardUrls)
  BY BoardParts
<1>2. dash' = [dash EXCEPT !.zooms = @ + 1]
  BY DEF ResetZoom
<1>3. /\ dash' \in Dashboards /\ dash'.loads = dash.loads /\ dash'.zooms = dash.zooms + 1
      /\ dash'.filterTimer = dash.filterTimer
      /\ dash'.loaded = dash.loaded /\ dash'.page = dash.page
      /\ dash'.filter = dash.filter /\ dash'.axes = dash.axes
      /\ dash'.filtered = dash.filtered /\ dash'.cells = dash.cells
      /\ dash'.range = dash.range
  BY <1>1, <1>2 DEF Dashboards
<1> QED BY <1>1, <1>3, BeginKeeps DEF ResetZoom

LEMMA FilterInputKeeps ==
    ASSUME DashboardRuns, NEW f \in Filters, FilterInput(f)
    PROVE  DashboardRuns'
<1>1. dash \in Dashboards /\ nav \in Histories(DashboardUrls)
  BY BoardParts
<1>2. dash' = [dash EXCEPT !.typed = f, !.filterTimer = TRUE]
  BY DEF FilterInput
<1>3. /\ dash' \in Dashboards /\ dash'.loads = dash.loads /\ dash'.zooms = dash.zooms
      /\ dash'.loaded = dash.loaded /\ dash'.page = dash.page
      /\ dash'.filter = dash.filter /\ dash'.axes = dash.axes
      /\ dash'.filtered = dash.filtered /\ dash'.cells = dash.cells
      /\ dash'.range = dash.range
  BY <1>1, <1>2 DEF Dashboards
<1> QED BY <1>1, <1>3, BeginKeeps DEF FilterInput

LEMMA DashboardTravelKeeps ==
    ASSUME DashboardRuns, DashboardTravel
    PROVE  DashboardRuns'
<1>1. dash \in Dashboards /\ nav \in Histories(DashboardUrls)
  BY BoardParts
<1>2. dash' = [dash EXCEPT !.loads = @ + 1]
  BY DEF DashboardTravel
<1>3. /\ dash' \in Dashboards /\ dash'.loads = dash.loads + 1 /\ dash'.zooms = dash.zooms
      /\ dash'.filterTimer = dash.filterTimer
      /\ dash'.loaded = dash.loaded /\ dash'.page = dash.page
      /\ dash'.filter = dash.filter /\ dash'.axes = dash.axes
      /\ dash'.filtered = dash.filtered /\ dash'.cells = dash.cells
      /\ dash'.range = dash.range
  BY <1>1, <1>2 DEF Dashboards
<1>4. nav' \in Histories(DashboardUrls)
  BY <1>1, HistoryTravel DEF DashboardTravel
<1> QED BY <1>1, <1>3, <1>4, BeginKeeps DEF DashboardTravel

\* A page is rendered: its widgets are those of the URL and nothing else is
\* under way.
LEMMA PageShown ==
    ASSUME DashboardRuns, NEW d \in Dashboards, NEW ws \in Seq(WidgetSet),
           renderPage(d, ws), nav' \in Histories(DashboardUrls), patient' = patient,
           d.loaded, d.loads = 0 => d.range = Url'.range,
           patient => /\ d.loads = 0 /\ d.zooms = 0 /\ ~d.filterTimer
                      /\ \A k \in DOMAIN ws : Timers(ws[k]) = 0
                      /\ d.page = Url'.number /\ d.filter = Url'.filter
                      /\ d.axes = Url'.axes
                      /\ d.filtered = Matches[d.filter]
                      /\ d.cells = Cells(Len(Matches[d.filter]))
    PROVE  DashboardRuns'
<1>1. DOMAIN orphans \subseteq AnyRange
  BY BoardParts
<1>2. /\ dash' = d /\ DashTyped' /\ MissingIsAsked' /\ Curves' /\ Quiet'
      /\ [k \in DOMAIN widgets' |-> widgets'[k].name] = PageOf(d.filtered, d.page, d.cells)
      /\ \A k \in DOMAIN widgets' :
           /\ widgets'[k].axes = d.axes /\ widgets'[k].range = d.range
           /\ widgets'[k].stray = 0 /\ ~widgets'[k].handler.dragging
      /\ (\A k \in DOMAIN ws : Timers(ws[k]) = 0) => DOMAIN orphans' = DOMAIN orphans
  BY <1>1, PageRendered
<1>3. RangeIsUrls'
  BY <1>2 DEF RangeIsUrls
<1>4. ASSUME patient PROVE OneThing' /\ Synced'
  <2>1. DOMAIN orphans = {}
    BY <1>4 DEF DashboardRuns, PatientBoard, OneThing
  <2>2. DOMAIN orphans' = {}
    BY <1>2, <1>4, <2>1
  <2>3. \A k \in DOMAIN widgets' : Idle(widgets'[k].handler)
    BY <1>2 DEF Quiet
  <2>4. \A k \in DOMAIN widgets' : Held(widgets[k].handler)'
    BY <1>2 DEF Held
  <2>5. dash'.loads = 0 /\ dash'.zooms = 0 /\ ~dash'.filterTimer /\ dash'.loaded
    BY <1>2, <1>4
  <2>6. OneThing'
    BY <1>2, <2>2, <2>3, <2>4, <2>5 DEF OneThing
  <2>7. Synced'
    BY <1>2, <1>4 DEF Synced
  <2> QED BY <2>6, <2>7
<1> QED BY <1>2, <1>3, <1>4 DEF DashboardRuns, PatientBoard

\* The filter gives the dashboard a list of names and a grid.
LEMMA FilteredBoard ==
    ASSUME NEW d \in Dashboards, NEW b, b = Filtered(d)
    PROVE  /\ b \in Dashboards
           /\ b.filtered = Matches[d.filter] /\ b.cells = Cells(Len(Matches[d.filter]))
           /\ b.loads = d.loads /\ b.loaded = d.loaded /\ b.zooms = d.zooms
           /\ b.filterTimer = d.filterTimer /\ b.filter = d.filter /\ b.page = d.page
           /\ b.axes = d.axes /\ b.range = d.range
<1>1. PICK f \in Filters : f = d.filter
  BY DEF Dashboards
<1>2. PICK names \in Seq(Names) : names = Matches[f]
  BY DashboardAssumption DEF Names
<1>3. Len(names) \in Nat
  BY LenProperties
<1>4. PICK c \in Nat : c = Cells(Len(names))
  BY <1>3, CellsTyped
<1>5. b = [d EXCEPT !.filtered = names, !.cells = c]
  BY <1>1, <1>2, <1>4 DEF Filtered
<1> QED BY <1>1, <1>2, <1>4, <1>5 DEF Dashboards

\* A widget without a timer leaves none.
LEMMA NoTimers ==
    ASSUME NEW w \in WidgetSet, Idle(w.handler), w.stray = 0
    PROVE  Timers(w) = 0
BY DEF Timers, Idle

LEMMA FilterTimerKeeps ==
    ASSUME DashboardRuns, FilterTimer
    PROVE  DashboardRuns'
<1> DEFINE d == [dash EXCEPT !.filterTimer = FALSE, !.page = 0, !.filter = dash.typed]
<1>1. /\ nav \in Histories(DashboardUrls) /\ dash \in Dashboards
      /\ widgets \in Seq(WidgetSet)
      /\ \A k \in DOMAIN widgets : widgets[k] \in WidgetSet
  BY BoardParts
<1>2. /\ d \in Dashboards /\ ~d.filterTimer /\ d.page = 0 /\ d.filter = dash.typed
      /\ d.filter \in Filters
      /\ d.loads = dash.loads /\ d.loaded = dash.loaded /\ d.zooms = dash.zooms
      /\ d.axes = dash.axes /\ d.range = dash.range
  BY <1>1 DEF Dashboards
<1>3. PICK e \in DashboardUrls : e = Url
  BY BoardParts
<1> DEFINE u == [e EXCEPT !.filter = d.filter, !.number = 0]
<1>4. /\ dash.filterTimer /\ nav' = pushState(nav, u) /\ patient' = patient
      /\ pointer' = pointer
      /\ \/ dash.loaded /\ renderPage(Filtered(d), widgets)
         \/ ~dash.loaded /\ dash' = d /\ UNCHANGED <<widgets, fetches, orphans>>
  BY <1>3 DEF FilterTimer
<1> HIDE DEF d
<1>5. /\ u \in DashboardUrls /\ u.number = 0 /\ u.filter = d.filter
      /\ u.axes = e.axes /\ u.range = e.range
  BY <1>2 DEF DashboardUrls
<1> HIDE DEF u
<1>6. nav' \in Histories(DashboardUrls) /\ Url' = u
  BY <1>1, <1>4, <1>5, HistoryPush DEF Url
<1>7. dash.loaded /\ dash.loads = 0 => dash.range = e.range
  BY <1>3 DEF DashboardRuns, RangeIsUrls
<1>8. ASSUME patient
      PROVE  /\ dash.loads = 0 /\ dash.zooms = 0 /\ Quiet /\ OneThing /\ Synced /\ Curves
             /\ \A k \in DOMAIN widgets : Timers(widgets[k]) = 0
  <2>1. OneThing /\ Synced /\ Curves
    BY <1>8 DEF DashboardRuns, PatientBoard
  <2>2. dash.loads = 0 /\ dash.zooms = 0 /\ Quiet /\ \A k \in DOMAIN widgets : widgets[k].stray = 0
    BY <1>4, <2>1 DEF OneThing
  <2> QED BY <1>1, <2>1, <2>2, NoTimers DEF Quiet
<1>9. CASE dash.loaded /\ renderPage(Filtered(d), widgets)
  <2>1. PICK b : b = Filtered(d)
    OBVIOUS
  <2>2. /\ b \in Dashboards
        /\ b.filtered = Matches[d.filter] /\ b.cells = Cells(Len(Matches[d.filter]))
        /\ b.loads = d.loads /\ b.loaded = d.loaded /\ b.zooms = d.zooms
        /\ b.filterTimer = d.filterTimer /\ b.filter = d.filter /\ b.page = d.page
        /\ b.axes = d.axes /\ b.range = d.range
    BY <1>2, <2>1, FilteredBoard
  <2>3. b.loaded /\ renderPage(b, widgets) /\ (b.loads = 0 => b.range = Url'.range)
    BY <1>2, <1>5, <1>6, <1>7, <1>9, <2>1, <2>2
  <2>4. patient => /\ b.loads = 0 /\ b.zooms = 0 /\ ~b.filterTimer
                   /\ \A k \in DOMAIN widgets : Timers(widgets[k]) = 0
                   /\ b.page = Url'.number /\ b.filter = Url'.filter
                   /\ b.axes = Url'.axes
                   /\ b.filtered = Matches[b.filter]
                   /\ b.cells = Cells(Len(Matches[b.filter]))
    BY <1>2, <1>3, <1>5, <1>6, <1>8, <1>9, <2>2 DEF Synced
  <2> QED BY <1>1, <1>4, <1>6, <2>2, <2>3, <2>4, PageShown
<1>10. CASE ~dash.loaded /\ dash' = d /\ UNCHANGED <<widgets, fetches, orphans>>
  <2>1. DashTyped' /\ MissingIsAsked' /\ (patient => Curves' /\ Quiet' = Quiet)
    BY <1>2, <1>4, <1>10, WidgetsStay
  <2>2. RangeIsUrls' /\ Synced'
    BY <1>2, <1>10 DEF RangeIsUrls, Synced
  <2>3. ASSUME patient PROVE OneThing'
    <3>1. /\ dash'.loads = 0 /\ dash'.zooms = 0 /\ ~dash'.filterTimer
          /\ dash'.loaded = dash.loaded
      BY <1>2, <1>8, <1>10, <2>3
    <3>2. OneThing
      BY <1>8, <2>3
    <3> QED BY <1>4, <1>10, <3>1, <3>2 DEF OneThing, Held
  <2> QED BY <1>4, <1>6, <2>1, <2>2, <2>3 DEF DashboardRuns, PatientBoard
<1> QED BY <1>4, <1>9, <1>10

LEMMA SwitchToPageKeeps ==
    ASSUME DashboardRuns, NEW p \in Nat, switchToPage(p)
    PROVE  DashboardRuns'
<1> DEFINE d == [dash EXCEPT !.page = p]
<1>1. /\ nav \in Histories(DashboardUrls) /\ dash \in Dashboards
      /\ widgets \in Seq(WidgetSet)
      /\ \A k \in DOMAIN widgets : widgets[k] \in WidgetSet
  BY BoardParts
<1>2. /\ d \in Dashboards /\ d.page = p /\ d.filterTimer = dash.filterTimer
      /\ d.filter = dash.filter /\ d.filtered = dash.filtered /\ d.cells = dash.cells
      /\ d.loads = dash.loads /\ d.loaded = dash.loaded /\ d.zooms = dash.zooms
      /\ d.axes = dash.axes /\ d.range = dash.range
  BY <1>1 DEF Dashboards
<1>3. PICK e \in DashboardUrls : e = Url
  BY BoardParts
<1> DEFINE u == [e EXCEPT !.number = p]
<1>4. /\ nav' = pushState(nav, u) /\ patient' = patient /\ dash.loaded
      /\ patient => DashboardAtRest
      /\ renderPage(d, widgets)
  BY <1>3 DEF switchToPage, Gesture, Acts
<1> HIDE DEF d
<1>5. /\ u \in DashboardUrls /\ u.number = p /\ u.filter = e.filter
      /\ u.axes = e.axes /\ u.range = e.range
  BY DEF DashboardUrls
<1> HIDE DEF u
<1>6. nav' \in Histories(DashboardUrls) /\ Url' = u
  BY <1>1, <1>4, <1>5, HistoryPush DEF Url
<1>7. d.loaded /\ (d.loads = 0 => d.range = Url'.range)
  BY <1>2, <1>3, <1>4, <1>5, <1>6 DEF DashboardRuns, RangeIsUrls
<1>8. ASSUME patient
      PROVE  /\ d.loads = 0 /\ d.zooms = 0 /\ ~d.filterTimer
             /\ \A k \in DOMAIN widgets : Timers(widgets[k]) = 0
             /\ d.page = Url'.number /\ d.filter = Url'.filter
             /\ d.axes = Url'.axes
             /\ d.filtered = Matches[d.filter]
             /\ d.cells = Cells(Len(Matches[d.filter]))
  <2>1. DashboardAtRest /\ Synced
    BY <1>4, <1>8 DEF DashboardRuns, PatientBoard
  <2>2. d.loads = 0 /\ d.zooms = 0 /\ ~d.filterTimer
    BY <1>2, <2>1 DEF DashboardAtRest
  <2>3. \A k \in DOMAIN widgets : Timers(widgets[k]) = 0
    BY <1>1, <2>1, NoTimers DEF DashboardAtRest
  <2> QED BY <1>2, <1>3, <1>4, <1>5, <1>6, <2>1, <2>2, <2>3 DEF Synced
<1> QED BY <1>1, <1>2, <1>4, <1>6, <1>7, <1>8, PageShown

\* Two widgets with the same place, axes, data and svg.
Kin(v, w) ==
    /\ v.name = w.name /\ v.axes = w.axes /\ v.data = w.data /\ v.svg = w.svg

\* A range becomes everyone's: for a patient user no widget throws, and what
\* was asked for before was asked for in this range.
LEMMA RangeSettles ==
    ASSUME DashboardRuns, NEW d \in Dashboards, NEW ws \in Seq(WidgetSet),
           NEW r \in AnyRange, DOMAIN ws = DOMAIN widgets,
           \A k \in DOMAIN ws : Kin(ws[k], widgets[k]),
           DOMAIN orphans' \subseteq AnyRange, setTimeRange(d, ws, r),
           patient' = patient,
           patient =>
              /\ d.loads = 0 /\ d.zooms = 0 /\ ~d.filterTimer /\ DOMAIN orphans' = {}
              /\ dash.loads = 0 /\ d.loaded = dash.loaded
              /\ d.page = dash.page /\ d.filter = dash.filter /\ d.axes = dash.axes
              /\ d.filtered = dash.filtered /\ d.cells = dash.cells
              /\ \A k \in DOMAIN ws : /\ Complete(ws[k]) /\ DrawsItsAxes(ws[k])
                                      /\ ws[k].stray = 0 /\ Held(ws[k].handler)'
              /\ \A j, k \in DOMAIN ws :
                    ~Idle(ws[j].handler) /\ ~Idle(ws[k].handler) => j = k
              /\ \A f \in DOMAIN fetches : f.range = r
    PROVE  DashboardRuns'
<1>1. /\ nav \in Histories(DashboardUrls) /\ DOMAIN fetches \subseteq FetchSet
      /\ DashTyped /\ MissingIsAsked
  BY BoardParts DEF DashboardRuns
<1>2. \A f \in DOMAIN fetches : f.widget \in DOMAIN ws
  BY <1>1 DEF DashTyped
<1>3. \A k \in DOMAIN ws, s \in Sides : Missing(ws[k], s) => Pending(k, s)
  BY <1>1 DEF MissingIsAsked, Missing, Skipped, Kin
<1>4. /\ nav' \in Histories(DashboardUrls)
      /\ Url'.range = r /\ Url'.number = Url.number
      /\ Url'.filter = Url.filter /\ Url'.axes = Url.axes
      /\ dash' = [d EXCEPT !.range = r] /\ dash' \in Dashboards /\ dash'.range = r
      /\ DashTyped' /\ MissingIsAsked'
      /\ DOMAIN widgets' = DOMAIN ws
      /\ \A k \in DOMAIN ws : /\ Alike(widgets'[k], ws[k])
                              /\ widgets'[k].handler = ws[k].handler
  BY <1>1, <1>2, <1>3, RangeTaken
<1>5. RangeIsUrls'
  BY <1>4 DEF RangeIsUrls
<1>6. ASSUME patient PROVE OneThing' /\ Synced' /\ Curves'
  <2>1. OneThing /\ Synced /\ Curves
    BY <1>6 DEF DashboardRuns, PatientBoard
  <2>2. ASSUME NEW f \in DOMAIN fetches
        PROVE  /\ f.widget \in DOMAIN ws
               /\ f.svg = ws[f.widget].svg /\ f.info = ws[f.widget].axes[f.side]
               /\ f.range = r
    BY <1>2, <1>6, <2>1, <2>2 DEF Curves, AsksItsOwn, Kin
  <2>3. Curves' /\ \A k \in DOMAIN widgets' : widgets'[k].range = r
    BY <1>1, <1>6, <2>2, RangeTakenByAll
  <2>4. /\ dash'.loads = d.loads /\ dash'.zooms = d.zooms /\ dash'.loaded = d.loaded
        /\ dash'.filterTimer = d.filterTimer
        /\ dash'.page = d.page /\ dash'.filter = d.filter /\ dash'.axes = d.axes
        /\ dash'.filtered = d.filtered /\ dash'.cells = d.cells
    BY <1>4 DEF Dashboards
  <2>5. \A k \in DOMAIN widgets' :
          /\ widgets'[k].stray = 0 /\ widgets'[k].handler = ws[k].handler
          /\ Held(widgets[k].handler)'
          /\ widgets'[k].name = widgets[k].name /\ widgets'[k].axes = widgets[k].axes
    BY <1>4, <1>6 DEF Alike, Kin, Held
  <2>6. \A k \in DOMAIN widgets' : dash'.loaded
    BY <1>4, <1>6, <2>1, <2>4 DEF OneThing
  <2>7. \A j, k \in DOMAIN widgets' :
          ~Idle(widgets'[j].handler) /\ ~Idle(widgets'[k].handler) => j = k
    BY <1>4, <1>6
  <2>8. OneThing'
    BY <1>6, <2>4, <2>5, <2>6, <2>7 DEF OneThing
  <2>9. [k \in DOMAIN widgets' |-> widgets'[k].name]
          = [k \in DOMAIN widgets |-> widgets[k].name]
    BY <1>4, <2>5
  <2>10. ASSUME dash'.loaded
         PROVE  /\ dash'.page = Url'.number /\ dash'.filter = Url'.filter
                /\ dash'.axes = Url'.axes
                /\ dash'.filtered = Matches[dash'.filter]
                /\ dash'.cells = Cells(Len(Matches[dash'.filter]))
                /\ [k \in DOMAIN widgets' |-> widgets'[k].name]
                     = PageOf(dash'.filtered, dash'.page, dash'.cells)
                /\ \A k \in DOMAIN widgets' : widgets'[k].axes = dash'.axes
    <3>1. dash.loaded /\ dash.loads = 0
      BY <1>6, <2>4, <2>10
    <3>2. /\ dash.page = Url.number /\ dash.filter = Url.filter
          /\ dash.axes = Url.axes
          /\ dash.filtered = Matches[dash.filter]
          /\ dash.cells = Cells(Len(Matches[dash.filter]))
          /\ [k \in DOMAIN widgets |-> widgets[k].name]
               = PageOf(dash.filtered, dash.page, dash.cells)
          /\ \A k \in DOMAIN widgets : widgets[k].axes = dash.axes
      BY <2>1, <3>1 DEF Synced
    <3>3. /\ dash'.page = dash.page /\ dash'.filter = dash.filter /\ dash'.axes = dash.axes
          /\ dash'.filtered = dash.filtered /\ dash'.cells = dash.cells
      BY <1>6, <2>4
    <3>4. \A k \in DOMAIN widgets' : widgets'[k].axes = dash'.axes
      BY <1>4, <2>5, <3>2, <3>3
    <3> QED BY <1>4, <2>9, <3>2, <3>3, <3>4
  <2>11. Synced'
    BY <1>4, <2>3, <2>10 DEF Synced
  <2> QED BY <2>3, <2>8, <2>11
<1> QED BY <1>4, <1>5, <1>6 DEF DashboardRuns, PatientBoard

LEMMA ZoomAnsweredKeeps ==
    ASSUME DashboardRuns, ZoomAnswered
    PROVE  DashboardRuns'
<1>1. /\ dash \in Dashboards /\ widgets \in Seq(WidgetSet)
      /\ DOMAIN orphans \subseteq AnyRange
  BY BoardParts
<1>2. PICK d : d = [dash EXCEPT !.zooms = @ - 1]
  OBVIOUS
<1>3. /\ dash.zooms > 0 /\ setTimeRange(d, widgets, SimRange)
      /\ orphans' = orphans /\ patient' = patient /\ pointer' = pointer
  BY <1>2 DEF ZoomAnswered
<1>4. /\ d \in Dashboards /\ d.zooms = dash.zooms - 1 /\ d.loads = dash.loads
      /\ d.loaded = dash.loaded /\ d.filterTimer = dash.filterTimer
      /\ d.page = dash.page /\ d.filter = dash.filter /\ d.axes = dash.axes
      /\ d.filtered = dash.filtered /\ d.cells = dash.cells
  <2>1. dash.zooms - 1 \in Nat
    BY <1>1, <1>3 DEF Dashboards
  <2> QED BY <1>1, <1>2, <2>1 DEF Dashboards
<1>5. SimRange \in AnyRange
  BY TaskPageAssumption DEF AnyRange
<1>6. \A k \in DOMAIN widgets : Kin(widgets[k], widgets[k])
  BY DEF Kin
<1>7. ASSUME patient
      PROVE  /\ d.loads = 0 /\ d.zooms = 0 /\ ~d.filterTimer /\ DOMAIN orphans' = {}
             /\ dash.loads = 0
             /\ \A k \in DOMAIN widgets :
                  /\ Complete(widgets[k]) /\ DrawsItsAxes(widgets[k])
                  /\ widgets[k].stray = 0 /\ Held(widgets[k].handler)
             /\ \A j, k \in DOMAIN widgets :
                  ~Idle(widgets[j].handler) /\ ~Idle(widgets[k].handler) => j = k
             /\ DOMAIN fetches = {}
  <2>1. OneThing
    BY <1>7 DEF DashboardRuns, PatientBoard
  <2>2. dash.zooms = 1 /\ dash.loads = 0 /\ ~dash.filterTimer /\ fetches = EmptyBag
    BY <1>3, <2>1 DEF OneThing
  <2>3. /\ DOMAIN fetches = {}
        /\ \A k \in DOMAIN widgets : Complete(widgets[k]) /\ DrawsItsAxes(widgets[k])
    BY <1>7, <2>2, NothingIsPending
  <2> QED BY <1>3, <1>4, <2>1, <2>2, <2>3 DEF OneThing
<1>8. PICK ws \in Seq(WidgetSet) : ws = widgets
  BY <1>1
<1>9. \A k \in DOMAIN ws : Held(widgets[k].handler) => Held(ws[k].handler)'
  BY <1>3, <1>8 DEF Held
<1> QED BY <1>1, <1>3, <1>4, <1>5, <1>6, <1>7, <1>8, <1>9, RangeSettles

LEMMA OrphanTimerKeeps ==
    ASSUME DashboardRuns, NEW r \in BagToSet(orphans), OrphanTimer(r)
    PROVE  DashboardRuns'
<1>1. /\ dash \in Dashboards /\ widgets \in Seq(WidgetSet)
      /\ DOMAIN orphans \subseteq AnyRange
  BY BoardParts
<1>2. /\ orphans' = BagOps!BagRemove(orphans, r) /\ setTimeRange(dash, widgets, r)
      /\ patient' = patient
  BY DEF OrphanTimer
<1>3. r \in DOMAIN orphans
  BY DEF BagToSet
<1>4. ~patient
  BY <1>3 DEF DashboardRuns, PatientBoard, OneThing
<1>5. DOMAIN orphans' \subseteq AnyRange
  BY <1>1, <1>2, BagTaken
<1>6. \A k \in DOMAIN widgets : Kin(widgets[k], widgets[k])
  BY DEF Kin
<1>7. PICK ws \in Seq(WidgetSet), d \in Dashboards, q \in AnyRange :
        ws = widgets /\ d = dash /\ q = r
  BY <1>1, <1>3
<1>8. setTimeRange(d, ws, q) /\ DOMAIN ws = DOMAIN widgets
      /\ \A k \in DOMAIN ws : Kin(ws[k], widgets[k])
  BY <1>2, <1>6, <1>7
<1> QED BY <1>2, <1>4, <1>5, <1>8, RangeSettles

\* render: the answer is applied to the URL.
LEMMA DashboardAnsweredKeeps ==
    ASSUME DashboardRuns, DashboardAnswered
    PROVE  DashboardRuns'
<1>1. /\ dash \in Dashboards /\ widgets \in Seq(WidgetSet)
      /\ nav \in Histories(DashboardUrls)
      /\ DOMAIN orphans \subseteq AnyRange
      /\ \A k \in DOMAIN widgets : widgets[k] \in WidgetSet
  BY BoardParts
<1>2. PICK e \in DashboardUrls : e = Url
  BY BoardParts
<1>3. e.number \in Nat /\ e.filter \in Filters /\ e.axes \in [Sides -> Axes]
      /\ e.range \in AnyRange
  BY DashboardUrlParts
<1>4. PICK r \in AnyRange : r = IF e.range = NoRange THEN SimRange ELSE e.range
  BY <1>3, TaskPageAssumption DEF AnyRange
<1>5. PICK a : a = [dash EXCEPT !.loads = @ - 1, !.loaded = TRUE,
                                !.filtered = Components, !.typed = e.filter]
  OBVIOUS
<1>6. PICK b : b = [a EXCEPT !.range = r, !.page = e.number,
                             !.filter = e.filter, !.axes = e.axes]
  OBVIOUS
<1>7. /\ dash.loads > 0 /\ patient' = patient
      /\ \/ /\ \E k \in DOMAIN widgets : Throws(widgets[k])
            /\ setTimeRange(a, widgets, r) /\ UNCHANGED orphans
         \/ /\ \A k \in DOMAIN widgets : ~Throws(widgets[k])
            /\ nav' = replaceState(nav, [e EXCEPT !.range = r])
            /\ renderPage(Filtered(b), ShiftedAll(widgets, r))
  BY <1>2, <1>4, <1>5, <1>6 DEF DashboardAnswered
<1>8. /\ a \in Dashboards /\ a.loads = dash.loads - 1 /\ a.loaded
      /\ a.zooms = dash.zooms /\ a.filterTimer = dash.filterTimer
  <2>1. dash.loads - 1 \in Nat
    BY <1>1, <1>7 DEF Dashboards
  <2>2. Components \in Seq(Names)
    BY DashboardAssumption DEF Names
  <2> QED BY <1>1, <1>3, <1>5, <2>1, <2>2 DEF Dashboards
<1>9. /\ b \in Dashboards /\ b.loads = dash.loads - 1 /\ b.loaded
      /\ b.zooms = dash.zooms /\ b.filterTimer = dash.filterTimer
      /\ b.range = r /\ b.page = e.number /\ b.filter = e.filter /\ b.axes = e.axes
  BY <1>3, <1>6, <1>8 DEF Dashboards
<1>10. ASSUME patient
       PROVE  /\ dash.loads = 1 /\ dash.zooms = 0 /\ ~dash.filterTimer
              /\ \A k \in DOMAIN widgets : ~Throws(widgets[k]) /\ Timers(widgets[k]) = 0
  <2>1. OneThing
    BY <1>10 DEF DashboardRuns, PatientBoard
  <2>2. /\ dash.loads = 1 /\ dash.zooms = 0 /\ ~dash.filterTimer /\ fetches = EmptyBag
        /\ Quiet /\ \A k \in DOMAIN widgets : widgets[k].stray = 0
    BY <1>7, <2>1 DEF OneThing
  <2>3. \A k \in DOMAIN widgets : ~Throws(widgets[k])
    BY <1>10, <2>2, NothingIsPending
  <2> QED BY <1>1, <2>2, <2>3, NoTimers DEF Quiet
<1>11. CASE /\ \E k \in DOMAIN widgets : Throws(widgets[k])
            /\ setTimeRange(a, widgets, r) /\ UNCHANGED orphans
  <2>1. ~patient
    BY <1>10, <1>11
  <2>2. \A k \in DOMAIN widgets : Kin(widgets[k], widgets[k])
    BY DEF Kin
  <2>3. DOMAIN orphans' \subseteq AnyRange
    BY <1>1, <1>11
  <2>4. PICK ws \in Seq(WidgetSet) : ws = widgets
    BY <1>1
  <2>5. setTimeRange(a, ws, r) /\ DOMAIN ws = DOMAIN widgets
        /\ \A k \in DOMAIN ws : Kin(ws[k], widgets[k])
    BY <1>11, <2>2, <2>4
  <2> QED BY <1>7, <1>8, <2>1, <2>3, <2>5, RangeSettles
<1>12. CASE /\ nav' = replaceState(nav, [e EXCEPT !.range = r])
            /\ renderPage(Filtered(b), ShiftedAll(widgets, r))
  <2> DEFINE u == [e EXCEPT !.range = r]
  <2>1. /\ u \in DashboardUrls /\ u.number = e.number /\ u.filter = e.filter
        /\ u.axes = e.axes /\ u.range = r
    BY DEF DashboardUrls
  <2>2. nav' = replaceState(nav, u)
    BY <1>12
  <2> HIDE DEF u
  <2>3. nav' \in Histories(DashboardUrls) /\ Url' = u
    BY <1>1, <2>1, <2>2, HistoryReplace DEF Url
  <2>4. PICK vs : vs = ShiftedAll(widgets, r)
    OBVIOUS
  <2>5. /\ vs \in Seq(WidgetSet) /\ DOMAIN vs = DOMAIN widgets
        /\ \A k \in DOMAIN vs : /\ Alike(vs[k], widgets[k])
                                /\ vs[k].handler = widgets[k].handler
    BY <1>1, <2>4, ShiftedTyped
  <2>6. PICK d : d = Filtered(b)
    OBVIOUS
  <2>7. /\ d \in Dashboards
        /\ d.filtered = Matches[b.filter] /\ d.cells = Cells(Len(Matches[b.filter]))
        /\ d.loads = b.loads /\ d.loaded = b.loaded /\ d.zooms = b.zooms
        /\ d.filterTimer = b.filterTimer /\ d.filter = b.filter /\ d.page = b.page
        /\ d.axes = b.axes /\ d.range = b.range
    BY <1>9, <2>6, FilteredBoard
  <2>8. renderPage(d, vs) /\ d.loaded /\ d.range = Url'.range
    BY <1>9, <1>12, <2>1, <2>3, <2>4, <2>6, <2>7
  <2>9. ASSUME patient PROVE \A k \in DOMAIN vs : Timers(vs[k]) = 0
    BY <1>10, <2>5, <2>9 DEF Timers, Alike
  <2>10. ASSUME patient
         PROVE  /\ d.loads = 0 /\ d.zooms = 0 /\ ~d.filterTimer
                /\ d.page = Url'.number /\ d.filter = Url'.filter
                /\ d.axes = Url'.axes
                /\ d.filtered = Matches[d.filter]
                /\ d.cells = Cells(Len(Matches[d.filter]))
    BY <1>9, <1>10, <2>1, <2>3, <2>7, <2>10
  <2> QED BY <1>7, <2>3, <2>5, <2>7, <2>8, <2>9, <2>10, PageShown
<1> QED BY <1>7, <1>11, <1>12

\* The answer to a request becomes the data of its axis and is drawn.
LEMMA FetchAnsweredKeeps ==
    ASSUME DashboardRuns, NEW f \in BagToSet(fetches), FetchAnswered(f)
    PROVE  DashboardRuns'
<1>1. /\ dash \in Dashboards /\ widgets \in Seq(WidgetSet) /\ DOMAIN fetches \subseteq FetchSet
      /\ \A j \in DOMAIN widgets : widgets[j] \in WidgetSet
  BY BoardParts
<1>2. f \in DOMAIN fetches /\ f \in FetchSet
  BY <1>1 DEF BagToSet
<1>3. PICK k \in DOMAIN widgets, t \in Sides : k = f.widget /\ t = f.side
  BY <1>2 DEF DashboardRuns, DashTyped, FetchSet
<1>4. PICK w \in WidgetSet : w = widgets[k]
  BY <1>1
<1>5. PICK d \in DataSet : d = [info |-> f.info, range |-> f.range]
  BY <1>2 DEF FetchSet, DataSet
<1>6. d.info = f.info /\ d.range = f.range /\ d.info # Skip /\ d # NoData
  BY <1>2, <1>5 DEF FetchSet, NoData
<1>7. PICK a : a = [w EXCEPT !.data[t] = d]
  OBVIOUS
<1>8. /\ a \in WidgetSet /\ a.name = w.name /\ a.axes = w.axes /\ a.range = w.range
      /\ a.svg = w.svg /\ a.handler = w.handler /\ a.stray = w.stray
      /\ a.curves = w.curves /\ a.data = [w.data EXCEPT ![t] = d]
  BY <1>7 DEF WidgetSet
<1>9. PICK v : v = IF f.svg # a.svg THEN a
                   ELSE [a EXCEPT !.curves = {c \in @ : c.info # d.info} \cup {d}]
  OBVIOUS
<1>10. /\ v \in WidgetSet /\ v.name = w.name /\ v.axes = w.axes /\ v.range = w.range
       /\ v.svg = w.svg /\ v.handler = w.handler /\ v.stray = w.stray
       /\ v.data = [w.data EXCEPT ![t] = d]
       /\ f.svg = w.svg => v.curves = {c \in w.curves : c.info # d.info} \cup {d}
  <2>1. CASE f.svg # a.svg
    BY <1>8, <1>9, <2>1
  <2>2. CASE f.svg = a.svg
    <3>1. PICK C \in SUBSET DataSet : C = {c \in w.curves : c.info # d.info} \cup {d}
      BY DEF WidgetSet
    <3>2. v = [a EXCEPT !.curves = C]
      BY <1>8, <1>9, <2>2, <3>1
    <3>3. /\ v \in WidgetSet /\ v.curves = C /\ v.name = a.name /\ v.axes = a.axes
          /\ v.range = a.range /\ v.svg = a.svg /\ v.handler = a.handler
          /\ v.stray = a.stray /\ v.data = a.data
      BY <1>8, <3>2 DEF WidgetSet
    <3> QED BY <1>8, <3>1, <3>3
  <2> QED BY <2>1, <2>2
<1>11. /\ v.data[t] = d /\ \A s \in Sides : s # t => v.data[s] = w.data[s]
  BY <1>10 DEF WidgetSet
<1>12. /\ fetches' = BagOps!BagRemove(fetches, f)
       /\ widgets' = [widgets EXCEPT ![k] = v]
       /\ UNCHANGED <<dash, orphans, nav, patient, pointer>>
  BY <1>3, <1>4, <1>5, <1>7, <1>9 DEF FetchAnswered, browserVars
<1>13. /\ widgets' \in Seq(WidgetSet) /\ DOMAIN widgets' = DOMAIN widgets
       /\ widgets'[k] = v /\ \A j \in DOMAIN widgets : j # k => widgets'[j] = widgets[j]
  BY <1>1, <1>10, <1>12, Replaced
<1>14. DOMAIN fetches' \subseteq DOMAIN fetches /\ DOMAIN fetches \ {f} \subseteq DOMAIN fetches'
  BY <1>12, BagTaken
<1>15. DashTyped'
  BY <1>12, <1>13, <1>14 DEF DashboardRuns, DashTyped
<1>16. ASSUME NEW j \in DOMAIN widgets, NEW s \in Sides, ~(j = k /\ s = t)
       PROVE  Pending(j, s)' = Pending(j, s)
  BY <1>3, <1>14, <1>16 DEF Pending
<1>17. ASSUME NEW j \in DOMAIN widgets', NEW s \in Sides, Missing(widgets'[j], s)
       PROVE  Pending(j, s)'
  <2>1. ~(j = k /\ s = t)
    BY <1>6, <1>11, <1>13, <1>17 DEF Missing
  <2>2. Missing(widgets[j], s)
    BY <1>4, <1>10, <1>11, <1>13, <1>17, <2>1, ZenonT(30) DEF Missing, Skipped
  <2> QED BY <1>13, <1>16, <2>1, <2>2 DEF DashboardRuns, MissingIsAsked
<1>18. MissingIsAsked'
  BY <1>17 DEF MissingIsAsked
<1>19. RangeIsUrls'
  BY <1>12 DEF DashboardRuns, RangeIsUrls, Url
<1>20. ASSUME patient PROVE OneThing' /\ Synced' /\ Curves'
  <2>1. OneThing /\ Synced /\ Curves
    BY <1>20 DEF DashboardRuns, PatientBoard
  <2>2. fetches # EmptyBag
    BY <1>2, BagEmpty
  <2>3. /\ dash.loads = 0 /\ dash.zooms = 0 /\ ~dash.filterTimer
    <3>1. dash.loads \in Nat /\ dash.zooms \in Nat
      BY <1>1 DEF Dashboards
    <3> QED BY <2>1, <2>2, <3>1 DEF OneThing
  <2>4. \A j \in DOMAIN widgets :
          /\ widgets'[j].name = widgets[j].name /\ widgets'[j].axes = widgets[j].axes
          /\ widgets'[j].range = widgets[j].range /\ widgets'[j].svg = widgets[j].svg
          /\ widgets'[j].handler = widgets[j].handler /\ widgets'[j].stray = widgets[j].stray
    BY <1>4, <1>10, <1>13
  <2>5. OneThing'
    BY <1>12, <1>13, <2>1, <2>3, <2>4 DEF OneThing, Held
  <2>6. Synced'
    <3>1. [j \in DOMAIN widgets' |-> widgets'[j].name]
            = [j \in DOMAIN widgets |-> widgets[j].name]
      BY <1>13, <2>4
    <3>2. dash.loaded => \A j \in DOMAIN widgets' :
             widgets'[j].axes = dash.axes /\ widgets'[j].range = dash.range
      BY <1>13, <2>1, <2>2, <2>3, <2>4 DEF Synced
    <3>3. Url' = Url
      BY <1>12 DEF Url
    <3> QED BY <1>12, <2>1, <2>3, <3>1, <3>2, <3>3 DEF Synced
  <2>7. f.svg = w.svg /\ f.info = w.axes[t] /\ f.range = w.range
    BY <1>2, <1>3, <1>4, <2>1 DEF Curves, AsksItsOwn
  <2>8. v.curves = {c \in w.curves : c.info # d.info} \cup {d}
    BY <1>10, <2>7
  <2>9. ASSUME NEW j \in DOMAIN widgets' PROVE AsksItsOwn(j)'
    BY <1>13, <1>14, <2>1, <2>4, <2>9 DEF Curves, AsksItsOwn
  <2>10. ASSUME NEW s \in Sides, Here(k, s)'
         PROVE  /\ v.data[s].info = v.axes[s] /\ v.data[s] \in v.curves
                /\ v.data[s].range = v.range
                /\ \A c \in v.curves : c.info = v.data[s].info => c = v.data[s]
    <3>1. CASE s = t
      BY <1>6, <1>10, <1>11, <2>7, <2>8, <3>1
    <3>2. CASE s # t
      <4>1. Here(k, s)
        BY <1>4, <1>10, <1>13, <1>16, <2>10, <3>2 DEF Here, Skipped
      <4>2. PICK e \in DataSet : e = w.data[s]
        BY DEF WidgetSet
      <4>3. /\ e.info = w.axes[s] /\ e \in w.curves /\ e.range = w.range
            /\ \A c \in w.curves : c.info = e.info => c = e
        BY <1>4, <2>1, <2>2, <4>1, <4>2 DEF Curves, HasData
      <4>4. e.info = d.info => e = d
        BY <1>6, <2>7, <4>3 DEF DataSet
      <4>5. e \in v.curves /\ \A c \in v.curves : c.info = e.info => c = e
        BY <2>8, <4>3, <4>4
      <4> QED BY <1>10, <1>11, <3>2, <4>2, <4>3, <4>5
    <3> QED BY <3>1, <3>2
  <2>11. ASSUME NEW j \in DOMAIN widgets' PROVE HasData(j)'
    <3>1. CASE j = k
      BY <1>13, <2>10, <3>1 DEF HasData
    <3>2. CASE j # k
      <4>1. \A s \in Sides : Here(j, s)' => Here(j, s)
        BY <1>13, <1>16, <2>11, <3>2 DEF Here, Skipped
      <4> QED BY <1>13, <2>1, <2>2, <2>11, <3>2, <4>1 DEF Curves, HasData
    <3> QED BY <3>1, <3>2
  <2>12. ASSUME NEW j \in DOMAIN widgets' PROVE DrawsItsAxes(widgets'[j])
    <3>1. DrawsItsAxes(widgets[j])
      BY <1>13, <2>1, <2>12 DEF Curves
    <3>2. CASE j = k
      BY <1>4, <1>6, <1>10, <1>13, <2>7, <2>8, <3>1, <3>2 DEF DrawsItsAxes, Skipped
    <3>3. CASE j # k
      BY <1>13, <2>12, <3>1, <3>3
    <3> QED BY <3>2, <3>3
  <2>13. ASSUME ~Quiet', NEW j \in DOMAIN widgets' PROVE Complete(widgets'[j])
    <3>1. ~Quiet
      BY <1>13, <2>4, <2>13 DEF Quiet
    <3>2. Complete(widgets[j])
      BY <1>13, <2>1, <2>13, <3>1 DEF Curves
    <3>3. CASE j = k
      <4>1. Complete(w) /\ widgets'[j] = v
        BY <1>4, <1>13, <3>2, <3>3
      <4>2. ASSUME NEW s \in Sides, ~Skipped(v, s) PROVE v.data[s].info = v.axes[s]
        <5>1. CASE s = t
          BY <1>6, <1>10, <1>11, <2>7, <5>1
        <5>2. CASE s # t
          BY <1>10, <1>11, <4>1, <4>2, <5>2 DEF Complete, Skipped
        <5> QED BY <5>1, <5>2
      <4> QED BY <4>1, <4>2 DEF Complete
    <3>4. CASE j # k
      BY <1>13, <2>13, <3>2, <3>4
    <3> QED BY <3>3, <3>4
  <2>14. Curves'
    BY <2>9, <2>11, <2>12, <2>13 DEF Curves, DrawsItsAxes, Complete, Skipped
  <2> QED BY <2>5, <2>6, <2>14
<1> QED BY <1>12, <1>15, <1>18, <1>19, <1>20 DEF DashboardRuns, PatientBoard

\* The window is resized: every curve is drawn where it was.
LEMMA DashboardLayoutKeeps ==
    ASSUME DashboardRuns, DashboardLayout
    PROVE  DashboardRuns'
<1>1. /\ dash \in Dashboards /\ widgets \in Seq(WidgetSet)
      /\ nav \in Histories(DashboardUrls)
      /\ DOMAIN widgets = 1..Len(widgets) /\ Len(widgets) \in Nat
      /\ \A j \in DOMAIN widgets : widgets[j] \in WidgetSet
  BY BoardParts
<1>2. /\ dash' = [dash EXCEPT !.typed = NoFilter]
      /\ widgets' = [k \in DOMAIN widgets |->
                       IF \A j \in 1..(k - 1) : ~Throws(widgets[j])
                       THEN temporaryTimeShift(widgets[k], widgets[k].range)
                       ELSE widgets[k]]
      /\ UNCHANGED <<fetches, orphans, nav>>
  BY DEF DashboardLayout
<1>3. patient' = patient /\ pointer' = pointer /\ (patient => DashboardAtRest)
  BY DEF DashboardLayout, Gesture, Acts
<1>4. /\ dash' \in Dashboards /\ dash'.loads = dash.loads /\ dash'.zooms = dash.zooms
      /\ dash'.filterTimer = dash.filterTimer
      /\ dash'.loaded = dash.loaded /\ dash'.page = dash.page
      /\ dash'.filter = dash.filter /\ dash'.axes = dash.axes
      /\ dash'.filtered = dash.filtered /\ dash'.cells = dash.cells
      /\ dash'.range = dash.range
  BY <1>1, <1>2, DashboardAssumption DEF Dashboards
<1>5. DOMAIN widgets' = DOMAIN widgets
  BY <1>2
<1>6. ASSUME NEW k \in DOMAIN widgets
      PROVE  /\ widgets'[k] \in WidgetSet /\ Alike(widgets'[k], widgets[k])
             /\ widgets'[k].handler = widgets[k].handler
             /\ widgets'[k].range = widgets[k].range
             /\ Stands(widgets[k]) => widgets'[k].curves = widgets[k].curves
  <2>1. PICK w \in WidgetSet, r \in AnyRange : w = widgets[k] /\ r = w.range
    BY <1>1 DEF WidgetSet
  <2>2. PICK v : v = temporaryTimeShift(w, r)
    OBVIOUS
  <2>3. /\ v \in WidgetSet /\ Alike(v, w) /\ v.handler = w.handler /\ v.range = r
        /\ Stands(w) => v.curves = w.curves
    BY <2>2, ShiftedWidget
  <2>4. widgets'[k] = v \/ widgets'[k] = w
    BY <1>2, <1>6, <2>1, <2>2
  <2>5. Alike(w, w)
    BY DEF Alike
  <2> QED BY <2>1, <2>3, <2>4, <2>5
<1>7. CASE patient
  <2>1. ASSUME NEW k \in DOMAIN widgets PROVE widgets'[k] = widgets[k]
    <3>1. Stands(widgets[k])
      BY <1>3, <1>7, NothingIsPending DEF DashboardAtRest
    <3>2. widgets[k] \in WidgetSet
      BY <1>1
    <3> QED BY <1>6, <3>1, <3>2 DEF WidgetSet, Alike
  <2>2. widgets' = widgets
    <3>1. widgets' = [k \in DOMAIN widgets |-> widgets[k]]
      BY <1>2, <2>1
    <3>2. widgets = [k \in DOMAIN widgets |-> widgets[k]]
      BY <1>1
    <3> QED BY <3>1, <3>2
  <2> QED BY <1>1, <1>2, <1>4, <2>2, BeginKeeps DEF DashboardLayout
<1>8. CASE ~patient
  <2>1. widgets' \in Seq(WidgetSet)
    <3>1. widgets' \in [1..Len(widgets) -> WidgetSet]
      BY <1>1, <1>2, <1>6
    <3> QED BY <1>1, <3>1, SeqDef
  <2>2. DashTyped'
    BY <1>2, <1>4, <1>5, <2>1 DEF DashboardRuns, DashTyped
  <2>3. MissingIsAsked'
    BY <1>2, <1>5, <1>6 DEF DashboardRuns, MissingIsAsked, Missing, Skipped, Pending, Alike
  <2>4. RangeIsUrls'
    BY <1>2, <1>4 DEF DashboardRuns, RangeIsUrls, Url
  <2> QED BY <1>1, <1>2, <1>3, <1>8, <2>2, <2>3, <2>4 DEF DashboardRuns, PatientBoard
<1> QED BY <1>7, <1>8

\* A widget moves, and its handler with it: the rest stays.
LEMMA WidgetMoves ==
    ASSUME DashboardRuns, NEW k \in DOMAIN widgets, NEW v \in WidgetSet,
           Kin(v, widgets[k]), widgets' = [widgets EXCEPT ![k] = v],
           UNCHANGED <<dash, fetches, nav, orphans, patient>>,
           patient =>
              /\ dash.loads = 0 /\ dash.zooms = 0 /\ ~dash.filterTimer
              /\ fetches = EmptyBag
              /\ \A j \in DOMAIN widgets : j # k => Idle(widgets[j].handler)
              /\ v.stray = 0 /\ Held(v.handler)' /\ v.curves = widgets[k].curves
              /\ \/ Due(v.handler)'
                 \/ v.range = widgets[k].range /\ ~Due(widgets[k].handler)
    PROVE  DashboardRuns'
<1>1. /\ dash \in Dashboards /\ widgets \in Seq(WidgetSet)
      /\ \A j \in DOMAIN widgets : widgets[j] \in WidgetSet
  BY BoardParts
<1>2. /\ widgets' \in Seq(WidgetSet) /\ DOMAIN widgets' = DOMAIN widgets
      /\ widgets'[k] = v /\ \A j \in DOMAIN widgets : j # k => widgets'[j] = widgets[j]
  BY <1>1, Replaced
<1>3. \A j \in DOMAIN widgets : Kin(widgets'[j], widgets[j])
  BY <1>2 DEF Kin
<1>4. DashTyped'
  BY <1>2 DEF DashboardRuns, DashTyped
<1>5. MissingIsAsked'
  BY <1>2, <1>3 DEF DashboardRuns, MissingIsAsked, Missing, Skipped, Pending, Kin
<1>6. Url' = Url
  BY DEF Url
<1>7. RangeIsUrls'
  BY <1>6 DEF DashboardRuns, RangeIsUrls
<1>8. ASSUME patient PROVE OneThing' /\ Synced' /\ Curves'
  <2>1. OneThing /\ Synced /\ Curves
    BY <1>8 DEF DashboardRuns, PatientBoard
  <2>2. \A j \in DOMAIN widgets : j # k =>
          /\ Idle(widgets'[j].handler) /\ ~Due(widgets[j].handler)
          /\ Held(widgets[j].handler)' /\ widgets'[j] = widgets[j]
    BY <1>2, <1>8 DEF Idle, Due, Held
  <2>3. OneThing'
    <3>1. \A j \in DOMAIN widgets' : widgets'[j].stray = 0
      BY <1>2, <1>8, <2>1 DEF OneThing
    <3>2. \A i, j \in DOMAIN widgets' :
            ~Idle(widgets'[i].handler) /\ ~Idle(widgets'[j].handler) => i = j
      BY <1>2, <2>2
    <3>3. \A j \in DOMAIN widgets' : dash'.loaded /\ Held(widgets[j].handler)'
      BY <1>2, <1>8, <2>1, <2>2 DEF OneThing, Held
    <3> QED BY <1>8, <2>1, <3>1, <3>2, <3>3 DEF OneThing
  <2>4. ASSUME NEW j \in DOMAIN widgets', dash.loaded
        PROVE  /\ widgets'[j].axes = dash.axes
               /\ \/ widgets'[j].range = dash.range
                  \/ Due(widgets[j].handler)' /\ fetches' = EmptyBag
    <3>1. /\ widgets[j].axes = dash.axes
          /\ widgets[j].range = dash.range \/ Due(widgets[j].handler)
      BY <1>2, <1>8, <2>1, <2>4 DEF Synced
    <3>2. CASE j = k
      <4>1. Due(v.handler)' => Due(widgets[j].handler)'
        BY <1>2, <3>2 DEF Due
      <4> QED BY <1>2, <1>3, <1>8, <3>1, <3>2, <4>1 DEF Kin
    <3>3. CASE j # k
      BY <1>2, <2>2, <2>4, <3>1, <3>3
    <3> QED BY <3>2, <3>3
  <2>5. [j \in DOMAIN widgets' |-> widgets'[j].name]
          = [j \in DOMAIN widgets |-> widgets[j].name]
    BY <1>2, <1>3 DEF Kin
  <2>6. Synced'
    BY <1>6, <1>8, <2>1, <2>4, <2>5 DEF Synced
  <2>7. /\ DOMAIN fetches = {}
        /\ \A j \in DOMAIN widgets : Complete(widgets[j]) /\ DrawsItsAxes(widgets[j])
    BY <1>8, NothingIsPending
  <2>8. ASSUME NEW j \in DOMAIN widgets', NEW s \in Sides, Here(j, s)'
        PROVE  /\ widgets'[j].data[s].info = widgets'[j].axes[s]
               /\ widgets'[j].data[s] \in widgets'[j].curves
               /\ \/ widgets'[j].data[s].range = widgets'[j].range
                  \/ Due(widgets[j].handler)' /\ fetches' = EmptyBag
               /\ \A c \in widgets'[j].curves :
                     c.info = widgets'[j].data[s].info => c = widgets'[j].data[s]
    <3>1. Here(j, s)
      BY <1>2, <1>3, <2>7, <2>8 DEF Here, Skipped, Pending, Kin
    <3>2. /\ widgets[j].data[s].info = widgets[j].axes[s]
          /\ widgets[j].data[s] \in widgets[j].curves
          /\ widgets[j].data[s].range = widgets[j].range \/ Due(widgets[j].handler)
          /\ \A c \in widgets[j].curves :
                c.info = widgets[j].data[s].info => c = widgets[j].data[s]
      BY <1>2, <2>1, <2>8, <3>1 DEF Curves, HasData
    <3>3. CASE j = k
      <4>1. Due(v.handler)' => Due(widgets[j].handler)'
        BY <1>2, <3>3 DEF Due
      <4> QED BY <1>2, <1>3, <1>8, <3>2, <3>3, <4>1 DEF Kin
    <3>4. CASE j # k
      BY <1>2, <2>2, <2>8, <3>2, <3>4
    <3> QED BY <3>3, <3>4
  <2>9. \A j \in DOMAIN widgets' : HasData(j)'
    BY <2>8 DEF HasData
  <2>10. \A j \in DOMAIN widgets' : AsksItsOwn(j)'
    BY <2>7 DEF AsksItsOwn
  <2>11. \A j \in DOMAIN widgets' : Complete(widgets'[j]) /\ DrawsItsAxes(widgets'[j])
    <3>1. \A j \in DOMAIN widgets' : widgets'[j].curves = widgets[j].curves
      BY <1>2, <1>8
    <3> QED BY <1>2, <1>3, <2>7, <3>1 DEF Complete, DrawsItsAxes, Skipped, Kin
  <2>12. Curves'
    BY <2>9, <2>10, <2>11 DEF Curves, Complete, DrawsItsAxes, Skipped
  <2> QED BY <2>3, <2>6, <2>12
<1> QED BY <1>4, <1>5, <1>7, <1>8 DEF DashboardRuns, PatientBoard

\* The shift of a widget is made permanent.
LEMMA PermanentKeeps ==
    ASSUME DashboardRuns, NEW k \in DOMAIN widgets, NEW v \in WidgetSet,
           Kin(v, widgets[k]), v.range = widgets[k].range, v.curves = widgets[k].curves,
           NEW us, us = [widgets EXCEPT ![k] = v], permanentTimeShift(us, k),
           UNCHANGED <<orphans, patient>>,
           patient =>
              /\ dash.loads = 0 /\ dash.zooms = 0 /\ ~dash.filterTimer
              /\ \A j \in DOMAIN widgets : j # k => Idle(widgets[j].handler)
              /\ \A j \in DOMAIN widgets : Complete(widgets[j]) /\ DrawsItsAxes(widgets[j])
              /\ v.stray = 0 /\ Held(v.handler)'
    PROVE  DashboardRuns'
<1>1. /\ dash \in Dashboards /\ widgets \in Seq(WidgetSet)
      /\ \A j \in DOMAIN widgets : widgets[j] \in WidgetSet
      /\ DOMAIN orphans \subseteq AnyRange
  BY BoardParts
<1>2. /\ us \in Seq(WidgetSet) /\ DOMAIN us = DOMAIN widgets
      /\ us[k] = v /\ \A j \in DOMAIN widgets : j # k => us[j] = widgets[j]
  BY <1>1, Replaced
<1>3. PICK r \in AnyRange : r = v.range
  BY DEF WidgetSet
<1>4. PICK x : x = temporaryTimeShift(v, r)
  OBVIOUS
<1>5. /\ x \in WidgetSet /\ Alike(x, v) /\ x.handler = v.handler /\ x.range = r
      /\ Complete(v) /\ DrawsItsAxes(v) => Complete(x) /\ DrawsItsAxes(x)
  BY <1>4, ShiftedWidget
<1>6. PICK ws : ws = [widgets EXCEPT ![k] = x]
  OBVIOUS
<1>7. /\ ws \in Seq(WidgetSet) /\ DOMAIN ws = DOMAIN widgets
      /\ ws[k] = x /\ \A j \in DOMAIN widgets : j # k => ws[j] = widgets[j]
  BY <1>1, <1>5, <1>6, Replaced
<1>8. [us EXCEPT ![k] = temporaryTimeShift(@, us[k].range)] = ws
  <2>1. [us EXCEPT ![k] = temporaryTimeShift(@, us[k].range)] = [us EXCEPT ![k] = x]
    BY <1>2, <1>3, <1>4
  <2> QED BY <1>2, <1>6, <2>1
<1>9. IF Throws(v) THEN widgets' = ws /\ UNCHANGED <<dash, fetches, nav>>
      ELSE setTimeRange(dash, ws, r)
  BY <1>2, <1>3, <1>8 DEF permanentTimeShift
<1>10. Kin(x, widgets[k]) /\ x.stray = v.stray
  BY <1>5 DEF Kin, Alike
<1>11. ASSUME patient PROVE Complete(v) /\ DrawsItsAxes(v)
  BY <1>11 DEF Kin, Complete, DrawsItsAxes, Skipped
<1>12. CASE Throws(v)
  <2>1. ~patient
    BY <1>11, <1>12, CompleteDraws
  <2>2. widgets' = [widgets EXCEPT ![k] = x] /\ UNCHANGED <<dash, fetches, nav>>
    BY <1>6, <1>9, <1>12
  <2> QED BY <1>5, <1>10, <2>1, <2>2, WidgetMoves
<1>13. CASE ~Throws(v)
  <2>1. PICK d \in Dashboards : d = dash
    BY <1>1
  <2>2. setTimeRange(d, ws, r)
    BY <1>9, <1>13, <2>1
  <2>3. \A j \in DOMAIN ws : Kin(ws[j], widgets[j])
    BY <1>7, <1>10 DEF Kin
  <2>4. DOMAIN orphans' \subseteq AnyRange
    BY <1>1
  <2>5. ASSUME patient
        PROVE  /\ DOMAIN orphans' = {}
               /\ \A j \in DOMAIN ws : /\ Complete(ws[j]) /\ DrawsItsAxes(ws[j])
                                       /\ ws[j].stray = 0 /\ Held(ws[j].handler)'
               /\ \A i, j \in DOMAIN ws :
                     ~Idle(ws[i].handler) /\ ~Idle(ws[j].handler) => i = j
               /\ \A f \in DOMAIN fetches : f.range = r
    <3>1. OneThing /\ Synced /\ Curves
      BY <2>5 DEF DashboardRuns, PatientBoard
    <3>2. ASSUME NEW j \in DOMAIN ws
          PROVE  /\ Complete(ws[j]) /\ DrawsItsAxes(ws[j])
                 /\ ws[j].stray = 0 /\ Held(ws[j].handler)'
      <4>1. CASE j = k
        BY <1>5, <1>7, <1>10, <1>11, <2>5, <4>1 DEF Held
      <4>2. CASE j # k
        BY <1>7, <2>5, <3>1, <3>2, <4>2 DEF OneThing, Held, Idle
      <4> QED BY <4>1, <4>2
    <3>3. \A i, j \in DOMAIN ws : ~Idle(ws[i].handler) /\ ~Idle(ws[j].handler) => i = j
      BY <1>7, <2>5
    <3>4. ASSUME NEW f \in DOMAIN fetches PROVE f.range = r
      <4>1. fetches # EmptyBag
        BY <3>4, BagEmpty
      <4>2. dash.loaded /\ dash.loads = 0
        BY <2>5, <3>1 DEF OneThing
      <4>3. \A j \in DOMAIN widgets : widgets[j].range = dash.range
        BY <3>1, <4>1, <4>2 DEF Synced
      <4>4. f.widget \in DOMAIN widgets
        BY <3>4 DEF DashboardRuns, DashTyped
      <4>5. f.range = widgets[f.widget].range
        BY <3>1, <3>4, <4>4 DEF Curves, AsksItsOwn
      <4> QED BY <1>3, <4>3, <4>4, <4>5
    <3> QED BY <3>1, <3>2, <3>3, <3>4 DEF OneThing
  <2> QED BY <1>7, <2>1, <2>2, <2>3, <2>4, <2>5, RangeSettles
<1> QED BY <1>12, <1>13

LEMMA WidgetTimerKeeps ==
    ASSUME DashboardRuns, NEW k \in DOMAIN widgets, WidgetTimer(k)
    PROVE  DashboardRuns'
<1>1. PICK w \in WidgetSet : w = widgets[k]
  BY BoardParts
<1>2. UNCHANGED <<orphans, patient, pointer>>
  BY DEF WidgetTimer
<1>3. CASE /\ w.handler.timer
           /\ permanentTimeShift([widgets EXCEPT ![k].handler = React(@, "timer")], k)
  <2>1. PICK g : g = React(w.handler, "timer")
    OBVIOUS
  <2>2. g \in Handlers /\ g.dragging = w.handler.dragging
    BY <2>1, HandlerTimer DEF WidgetSet
  <2>3. PICK v : v = [w EXCEPT !.handler = g]
    OBVIOUS
  <2>4. /\ v \in WidgetSet /\ Kin(v, w) /\ v.range = w.range /\ v.curves = w.curves
        /\ v.stray = w.stray /\ v.handler = g
    BY <2>2, <2>3 DEF WidgetSet, Kin
  <2>5. [widgets EXCEPT ![k].handler = React(@, "timer")] = [widgets EXCEPT ![k] = v]
    BY <1>1, <2>1, <2>3
  <2>6. ASSUME patient
        PROVE  /\ dash.loads = 0 /\ dash.zooms = 0 /\ ~dash.filterTimer
               /\ \A j \in DOMAIN widgets : j # k => Idle(widgets[j].handler)
               /\ \A j \in DOMAIN widgets : Complete(widgets[j]) /\ DrawsItsAxes(widgets[j])
               /\ v.stray = 0 /\ Held(v.handler)'
    <3>1. ~Idle(widgets[k].handler)
      BY <1>1, <1>3 DEF Idle
    <3>2. OneThing
      BY <2>6 DEF DashboardRuns, PatientBoard
    <3>3. v.stray = 0 /\ Held(v.handler)'
      BY <1>1, <1>2, <2>2, <2>4, <3>2 DEF OneThing, Held
    <3> QED BY <2>6, <3>1, <3>3, BusyWidget
  <2>7. PICK us : us = [widgets EXCEPT ![k] = v]
    OBVIOUS
  <2>8. permanentTimeShift(us, k)
    BY <1>3, <2>5, <2>7
  <2> QED BY <1>1, <1>2, <2>4, <2>6, <2>7, <2>8, PermanentKeeps
<1>4. CASE /\ w.stray > 0
           /\ permanentTimeShift([widgets EXCEPT ![k].stray = @ - 1], k)
  <2>1. PICK v : v = [w EXCEPT !.stray = @ - 1]
    OBVIOUS
  <2>2. w.stray - 1 \in Nat
    BY <1>4 DEF WidgetSet
  <2>3. v \in WidgetSet /\ Kin(v, w) /\ v.range = w.range /\ v.curves = w.curves
    BY <2>1, <2>2 DEF WidgetSet, Kin
  <2>4. [widgets EXCEPT ![k].stray = @ - 1] = [widgets EXCEPT ![k] = v]
    BY <1>1, <2>1
  <2>5. ~patient
    BY <1>1, <1>4 DEF DashboardRuns, PatientBoard, OneThing
  <2>6. PICK us : us = [widgets EXCEPT ![k] = v]
    OBVIOUS
  <2>7. permanentTimeShift(us, k)
    BY <1>4, <2>4, <2>6
  <2> QED BY <1>1, <1>2, <2>3, <2>5, <2>6, <2>7, PermanentKeeps
<1> QED BY <1>1, <1>3, <1>4 DEF WidgetTimer

\* An event on a widget shifts it for now, makes its shift permanent or
\* changes its handler alone.
LEMMA WidgetPointerKeeps ==
    ASSUME DashboardRuns, NEW k \in DOMAIN widgets, NEW e \in PointerEvents,
           WidgetPointer(k, e)
    PROVE  DashboardRuns'
<1>1. PICK w \in WidgetSet : w = widgets[k]
  BY BoardParts
<1>2. w.handler \in Handlers
  BY DEF WidgetSet
<1>3. PICK h : h = IF Shifts(w.handler, e) /\ Throws(w)
                   THEN [React(w.handler, e) EXCEPT !.timer = w.handler.timer]
                   ELSE React(w.handler, e)
  OBVIOUS
<1>4. /\ PointerMoves(e) /\ UNCHANGED <<patient, orphans>>
      /\ patient => DashboardAtRest \/ (~Idle(w.handler) /\ fetches = EmptyBag)
      /\ IF Shifts(w.handler, e)
         THEN /\ \E r \in Ranges :
                  widgets' = [widgets EXCEPT ![k] =
                      temporaryTimeShift([w EXCEPT !.handler = h], r)]
              /\ UNCHANGED <<dash, fetches, nav>>
         ELSE IF Reloads(w.handler, e)
              THEN permanentTimeShift([widgets EXCEPT ![k].handler = h], k)
              ELSE /\ widgets' = [widgets EXCEPT ![k].handler = h]
                   /\ UNCHANGED <<dash, fetches, nav>>
  BY <1>1, <1>3 DEF WidgetPointer, Acts, ShiftedRanges
<1>5. React(w.handler, e) \in Handlers
  BY <1>2, <1>4, ZenonT(30) DEF React, Handlers, PointerEvents, Touches
<1>6. h \in Handlers
  BY <1>2, <1>3, <1>5 DEF Handlers
<1>7. ASSUME patient
      PROVE  /\ fetches = EmptyBag /\ dash.loads = 0 /\ dash.zooms = 0 /\ ~dash.filterTimer
             /\ \A j \in DOMAIN widgets : j # k => Idle(widgets[j].handler)
             /\ \A j \in DOMAIN widgets : Complete(widgets[j]) /\ DrawsItsAxes(widgets[j])
             /\ Stands(w) /\ w.stray = 0 /\ Held(h)'
             /\ Shifts(w.handler, e) => Due(h)'
             /\ Due(w.handler) => Due(h)' \/ Reloads(w.handler, e)
  <2>1. OneThing
    BY <1>7 DEF DashboardRuns, PatientBoard
  <2>2. fetches = EmptyBag
    BY <1>4, <1>7 DEF DashboardAtRest
  <2>3. /\ dash.loads = 0 /\ dash.zooms = 0 /\ ~dash.filterTimer
        /\ \A j \in DOMAIN widgets : j # k => Idle(widgets[j].handler)
    <3>1. CASE DashboardAtRest
      BY <3>1 DEF DashboardAtRest
    <3>2. CASE ~Idle(w.handler)
      BY <1>1, <1>7, <3>2, BusyWidget
    <3> QED BY <1>4, <1>7, <3>1, <3>2
  <2>4. \A j \in DOMAIN widgets : /\ Complete(widgets[j]) /\ DrawsItsAxes(widgets[j])
                                  /\ Stands(widgets[j]) /\ ~Throws(widgets[j])
    BY <1>7, <2>2, NothingIsPending
  <2>5. h = React(w.handler, e)
    BY <1>1, <1>3, <2>4
  <2>6. w.stray = 0 /\ Held(w.handler)
    BY <1>1, <2>1 DEF OneThing
  <2>7. PICK g \in Handlers : g = w.handler
    BY <1>2
  <2>8. /\ Held(h)'
        /\ Shifts(g, e) => Due(h)'
    BY <1>4, <2>5, <2>6, <2>7, HandlerReacts
  <2>9. Due(g) => Due(h)' \/ Reloads(g, e)
    BY <1>4, <2>5, <2>6, <2>7, HandlerReacts
  <2> QED BY <1>1, <2>2, <2>3, <2>4, <2>6, <2>7, <2>8, <2>9
<1>8. PICK a : a = [w EXCEPT !.handler = h]
  OBVIOUS
<1>9. /\ a \in WidgetSet /\ Kin(a, w) /\ a.range = w.range /\ a.curves = w.curves
      /\ a.stray = w.stray /\ a.handler = h /\ a.data = w.data /\ a.axes = w.axes
  BY <1>6, <1>8 DEF WidgetSet, Kin
<1>10. [widgets EXCEPT ![k].handler = h] = [widgets EXCEPT ![k] = a]
  BY <1>1, <1>8
<1>11. CASE Shifts(w.handler, e)
  <2>1. PICK r \in Ranges : widgets' = [widgets EXCEPT ![k] = temporaryTimeShift(a, r)]
    BY <1>4, <1>8, <1>11
  <2>2. r \in AnyRange
    BY DEF AnyRange
  <2>3. PICK v : v = temporaryTimeShift(a, r)
    OBVIOUS
  <2>4. /\ v \in WidgetSet /\ Alike(v, a) /\ v.handler = a.handler
        /\ Stands(a) => v.curves = a.curves
    BY <1>9, <2>2, <2>3, ShiftedWidget
  <2>5. Stands(w) => Stands(a)
    BY <1>9 DEF Stands, Skipped
  <2>6. Kin(v, w) /\ v.stray = w.stray
    BY <1>9, <2>4 DEF Kin, Alike
  <2>7. UNCHANGED <<dash, fetches, nav>>
    BY <1>4, <1>11
  <2>8. ASSUME patient
        PROVE  v.stray = 0 /\ Held(v.handler)' /\ v.curves = w.curves /\ Due(v.handler)'
    BY <1>7, <1>9, <1>11, <2>4, <2>5, <2>6, <2>8
  <2> QED BY <1>1, <1>4, <1>7, <2>1, <2>3, <2>4, <2>6, <2>7, <2>8, WidgetMoves
<1>12. CASE ~Shifts(w.handler, e) /\ Reloads(w.handler, e)
  <2>1. PICK us : us = [widgets EXCEPT ![k] = a]
    OBVIOUS
  <2>2. permanentTimeShift(us, k)
    BY <1>4, <1>10, <1>12, <2>1
  <2>3. ASSUME patient PROVE a.stray = 0 /\ Held(a.handler)'
    BY <1>7, <1>9, <2>3
  <2> QED BY <1>1, <1>4, <1>7, <1>9, <2>1, <2>2, <2>3, PermanentKeeps
<1>13. CASE ~Shifts(w.handler, e) /\ ~Reloads(w.handler, e)
  <2>1. widgets' = [widgets EXCEPT ![k] = a] /\ UNCHANGED <<dash, fetches, nav>>
    BY <1>4, <1>10, <1>13
  <2>2. ASSUME patient
        PROVE  /\ a.stray = 0 /\ Held(a.handler)' /\ a.curves = widgets[k].curves
               /\ \/ Due(a.handler)'
                  \/ a.range = widgets[k].range /\ ~Due(widgets[k].handler)
    BY <1>1, <1>7, <1>9, <1>13, <2>2
  <2> QED BY <1>1, <1>4, <1>7, <1>9, <2>1, <2>2, WidgetMoves
<1> QED BY <1>11, <1>12, <1>13

\* New entries after the current one.
Pushed(h, b) == [entries |-> SubSeq(h.entries, 1, h.pos) \o b, pos |-> h.pos + Len(b)]

LEMMA HistoryPushes ==
    ASSUME NEW S, NEW h \in Histories(S), NEW b \in Seq(S), Len(b) > 0
    PROVE  Pushed(h, b) \in Histories(S) /\ Pushed(h, b).entries[Pushed(h, b).pos] = b[Len(b)]
<1>1. PICK s \in Seq(S), p \in Nat : h.entries = s /\ h.pos = p /\ p \in 1..Len(s)
  BY DEF Histories
<1>2. \A j \in 1..p : s[j] \in S
  BY <1>1, ElementOfSeq, LenProperties
<1> DEFINE a == SubSeq(s, 1, p)
<1>3. a \in Seq(S) /\ Len(a) = p
  BY <1>1, <1>2, SubSeqProperties
<1>4. PICK n \in Nat : n = Len(b) /\ n > 0
  BY LenProperties
<1> HIDE DEF a
<1>5. /\ a \o b \in Seq(S) /\ Len(a \o b) = Len(a) + Len(b)
      /\ \A j \in 1..(Len(a) + Len(b)) :
            (a \o b)[j] = IF j <= Len(a) THEN a[j] ELSE b[j - Len(a)]
  BY <1>3, ConcatProperties
<1>6. PICK q \in Nat : q = p + n /\ q \in 1..(p + n) /\ ~(q <= p) /\ q - p = n
  BY <1>1, <1>4
<1>7. PICK c \in Seq(S) : c = a \o b
  BY <1>5
<1>8. Len(c) = q /\ c[q] = b[n]
  BY <1>3, <1>4, <1>5, <1>6, <1>7
<1>9. Pushed(h, b) = [entries |-> c, pos |-> q] /\ q \in 1..q
  BY <1>1, <1>4, <1>6, <1>7 DEF Pushed, a
<1> QED BY <1>4, <1>8, <1>9 DEF Histories

\* An axis shows something else: every widget is drawn anew.
LEMMA SwitchAxisKeeps ==
    ASSUME DashboardRuns, NEW side \in Sides, NEW name \in Axes, switchAxis(side, name)
    PROVE  DashboardRuns'
<1>1. /\ dash \in Dashboards /\ widgets \in Seq(WidgetSet)
      /\ nav \in Histories(DashboardUrls)
      /\ DOMAIN widgets = 1..Len(widgets) /\ Len(widgets) \in Nat
      /\ \A j \in DOMAIN widgets : widgets[j] \in WidgetSet
      /\ DOMAIN fetches \subseteq FetchSet /\ DOMAIN orphans \subseteq AnyRange
  BY BoardParts
<1>2. PICK e \in DashboardUrls : e = Url
  BY BoardParts
<1>3. PICK u : u = [e EXCEPT !.axes[side] = name]
  OBVIOUS
<1>4. /\ u \in DashboardUrls /\ u.number = e.number /\ u.filter = e.filter
      /\ u.range = e.range /\ u.axes = [e.axes EXCEPT ![side] = name]
  BY <1>3 DEF DashboardUrls
<1>5. PICK n \in Nat : n = Len(widgets)
  BY <1>1
<1> DEFINE W(k) == [widgets[k] EXCEPT !.axes[side] = name]
           ws == [k \in DOMAIN widgets |-> Reset(W(k))]
<1>6. /\ patient' = patient /\ pointer' = pointer
      /\ patient => DashboardAtRest /\ n > 0
      /\ nav' = IF n = 0 THEN nav
                ELSE [entries |-> SubSeq(nav.entries, 1, nav.pos) \o [k \in 1..n |-> u],
                      pos |-> nav.pos + n]
      /\ dash' = [dash EXCEPT !.axes = [dash.axes EXCEPT ![side] = name]]
      /\ widgets' = ws /\ fetches' = fetches (+) Asked(ws, DOMAIN ws)
      /\ orphans' = orphans
  BY <1>2, <1>3, <1>5 DEF switchAxis, Gesture, Acts
<1>7. nav' \in Histories(DashboardUrls) /\ (IF n = 0 THEN Url' = Url ELSE Url' = u)
  <2>1. CASE n = 0
    BY <1>1, <1>6, <2>1 DEF Url
  <2>2. CASE n # 0
    <3>1. PICK b : b = [k \in 1..n |-> u]
      OBVIOUS
    <3>2. b \in Seq(DashboardUrls) /\ Len(b) = n /\ b[n] = u /\ n > 0
      BY <1>4, <2>2, <3>1
    <3>3. nav' = Pushed(nav, b)
      BY <1>6, <2>2, <3>1, <3>2 DEF Pushed
    <3>4. nav' \in Histories(DashboardUrls) /\ nav'.entries[nav'.pos] = b[n]
      BY <1>1, <3>2, <3>3, HistoryPushes
    <3> QED BY <2>2, <3>2, <3>4 DEF Url
  <2> QED BY <2>1, <2>2
<1>8. /\ dash' \in Dashboards /\ dash'.loads = dash.loads /\ dash'.zooms = dash.zooms
      /\ dash'.filterTimer = dash.filterTimer
      /\ dash'.loaded = dash.loaded /\ dash'.page = dash.page
      /\ dash'.filter = dash.filter /\ dash'.axes = [dash.axes EXCEPT ![side] = name]
      /\ dash'.filtered = dash.filtered /\ dash'.cells = dash.cells
      /\ dash'.range = dash.range
  BY <1>1, <1>6 DEF Dashboards
<1>9. ASSUME NEW k \in DOMAIN widgets
      PROVE  /\ ws[k] \in WidgetSet /\ ws[k].name = widgets[k].name
             /\ ws[k].axes = [widgets[k].axes EXCEPT ![side] = name]
             /\ ws[k].range = widgets[k].range /\ ws[k].curves = {}
             /\ ws[k].handler = NewHandler
             /\ Idle(widgets[k].handler) => ws[k].stray = widgets[k].stray
  <2>1. PICK w \in WidgetSet : w = widgets[k]
    BY <1>1, <1>9
  <2>2. PICK a : a = [w EXCEPT !.axes[side] = name]
    OBVIOUS
  <2>3. /\ a \in WidgetSet /\ a.name = w.name /\ a.range = w.range /\ a.svg \in Nat
        /\ a.axes = [w.axes EXCEPT ![side] = name] /\ a.handler = w.handler
        /\ a.stray = w.stray /\ a.stray \in Nat
    BY <2>2 DEF WidgetSet
  <2>4. PICK x : x = Reset(a)
    OBVIOUS
  <2>5. PICK q \in Nat : /\ q = a.stray + IF a.handler.timer THEN 1 ELSE 0
                         /\ ~a.handler.timer => q = a.stray
    BY <2>3
  <2>6. x = [a EXCEPT !.svg = a.svg + 1, !.curves = {}, !.handler = NewHandler, !.stray = q]
    BY <2>3, <2>4, <2>5 DEF Reset, WidgetSet
  <2>7. /\ x \in WidgetSet /\ x.name = a.name /\ x.axes = a.axes /\ x.range = a.range
        /\ x.curves = {} /\ x.handler = NewHandler /\ x.stray = q
    <3>1. PICK i \in Nat : i = a.svg + 1
      BY <2>3
    <3>2. PICK C \in SUBSET DataSet : C = {}
      OBVIOUS
    <3>3. PICK h \in Handlers : h = NewHandler
      BY NewHandlerTyped
    <3>4. x = [a EXCEPT !.svg = i, !.curves = C, !.handler = h, !.stray = q]
      BY <2>6, <3>1, <3>2, <3>3
    <3> QED BY <2>3, <3>2, <3>3, <3>4 DEF WidgetSet
  <2>8. ws[k] = x
    BY <1>9, <2>1, <2>2, <2>4
  <2> HIDE DEF ws
  <2> QED BY <2>1, <2>3, <2>5, <2>7, <2>8 DEF Idle
<1>10. DOMAIN ws = DOMAIN widgets
  OBVIOUS
<1>11. ws \in Seq(WidgetSet)
  <2>1. ws \in [1..Len(widgets) -> WidgetSet]
    BY <1>1, <1>9
  <2> HIDE DEF ws
  <2> QED BY <1>1, <2>1, SeqDef
<1> HIDE DEF W, ws
<1>12. PICK A : A = DOMAIN Asked(ws, DOMAIN ws)
  OBVIOUS
<1>13. /\ A \subseteq FetchSet
       /\ \A g \in A : /\ g.widget \in DOMAIN ws /\ g.svg = ws[g.widget].svg
                       /\ g.info = ws[g.widget].axes[g.side]
                       /\ g.range = ws[g.widget].range
       /\ \A k \in DOMAIN ws, s \in Sides : ~Skipped(ws[k], s) =>
             \E g \in A : g.widget = k /\ g.side = s
  BY <1>11, <1>12, AskedFetches
<1>14. DOMAIN fetches' = DOMAIN fetches \cup A
  BY <1>6, <1>12, BagsTogether
<1>15. DashTyped'
  BY <1>1, <1>6, <1>8, <1>10, <1>11, <1>13, <1>14 DEF DashboardRuns, DashTyped
<1>16. \A k \in DOMAIN widgets', s \in Sides : ~Skipped(widgets'[k], s) => Pending(k, s)'
  BY <1>6, <1>13, <1>14 DEF Pending
<1>17. MissingIsAsked'
  BY <1>16 DEF MissingIsAsked, Missing, Skipped, Pending
<1>18. RangeIsUrls'
  BY <1>2, <1>4, <1>7, <1>8 DEF DashboardRuns, RangeIsUrls
<1>19. ASSUME patient PROVE OneThing' /\ Synced' /\ Curves'
  <2>1. OneThing /\ Synced /\ DashboardAtRest /\ n > 0 /\ Url' = u
    BY <1>6, <1>7, <1>19 DEF DashboardRuns, PatientBoard
  <2>2. /\ dash.loads = 0 /\ dash.zooms = 0 /\ ~dash.filterTimer /\ DOMAIN fetches = {}
    BY <2>1, BagEmpty DEF DashboardAtRest
  <2>3. \A k \in DOMAIN widgets' :
          /\ widgets'[k].stray = 0 /\ Idle(widgets'[k].handler)
          /\ ~widgets'[k].handler.dragging /\ dash.loaded
    BY <1>6, <1>9, <1>10, <2>1, NewHandlerTyped DEF OneThing, DashboardAtRest
  <2>4. OneThing'
    BY <1>6, <1>8, <2>1, <2>2, <2>3 DEF OneThing, Held
  <2>5. ASSUME dash.loaded
        PROVE  \A k \in DOMAIN widgets' :
                 widgets'[k].axes = dash'.axes /\ widgets'[k].range = dash'.range
    <3>1. ASSUME NEW k \in DOMAIN widgets
          PROVE  widgets[k].axes = dash.axes /\ widgets[k].range = dash.range
      <4>1. Idle(widgets[k].handler)
        BY <2>1, <3>1 DEF DashboardAtRest
      <4> QED BY <2>1, <2>2, <2>5, <3>1, <4>1 DEF Synced, Due, Idle
    <3> QED BY <1>6, <1>8, <1>9, <1>10, <3>1
  <2>6. [k \in DOMAIN widgets' |-> widgets'[k].name]
          = [k \in DOMAIN widgets |-> widgets[k].name]
    BY <1>6, <1>9, <1>10
  <2>7. dash.loaded => dash.axes = e.axes
    BY <1>2, <2>1, <2>2 DEF Synced
  <2>8. Synced'
    BY <1>2, <1>4, <1>8, <2>1, <2>2, <2>5, <2>6, <2>7 DEF Synced
  <2>9. ASSUME NEW k \in DOMAIN widgets'
        PROVE  (AsksItsOwn(k) /\ HasData(k) /\ DrawsItsAxes(widgets[k]))'
    <3>1. AsksItsOwn(k)'
      BY <1>6, <1>13, <1>14, <2>2, <2>9 DEF AsksItsOwn
    <3>2. HasData(k)'
      BY <1>16, <2>9 DEF HasData, Here, Pending, Skipped
    <3>3. DrawsItsAxes(widgets[k])'
      BY <1>6, <1>9, <1>10, <2>9 DEF DrawsItsAxes
    <3> QED BY <3>1, <3>2, <3>3
  <2>10. Quiet'
    BY <2>3 DEF Quiet
  <2>11. Curves'
    BY <2>9, <2>10 DEF Curves
  <2> QED BY <2>4, <2>8, <2>11
<1> QED BY <1>6, <1>7, <1>15, <1>17, <1>18, <1>19 DEF DashboardRuns, PatientBoard

\* Every step of the dashboard keeps its invariant.
LEMMA DashboardKeeps ==
    ASSUME DashboardInv, DashboardNext, UNCHANGED taskPageVars
    PROVE  DashboardInv'
<1>1. TaskPageAbsent' /\ DashboardRuns
  BY DEF DashboardInv, TaskPageAbsent, taskPageVars
<1>2. ASSUME NEW f \in BagToSet(fetches), FetchAnswered(f) PROVE DashboardRuns'
  BY <1>1, <1>2, FetchAnsweredKeeps
<1>3. ASSUME NEW side \in Sides, NEW name \in Axes, switchAxis(side, name)
      PROVE  DashboardRuns'
  BY <1>1, <1>3, SwitchAxisKeeps
<1>4. ASSUME NEW f \in Filters, FilterInput(f) PROVE DashboardRuns'
  BY <1>1, <1>4, FilterInputKeeps
<1>5. ASSUME NEW p \in 0..Len(Components), switchToPage(p) PROVE DashboardRuns'
  BY <1>1, <1>5, SwitchToPageKeeps
<1>6. ASSUME NEW k \in DOMAIN widgets, NEW e \in PointerEvents, WidgetPointer(k, e)
      PROVE  DashboardRuns'
  BY <1>1, <1>6, WidgetPointerKeeps
<1>7. ASSUME NEW k \in DOMAIN widgets, WidgetTimer(k) PROVE DashboardRuns'
  BY <1>1, <1>7, WidgetTimerKeeps
<1>8. ASSUME NEW r \in BagToSet(orphans), OrphanTimer(r) PROVE DashboardRuns'
  BY <1>1, <1>8, OrphanTimerKeeps
<1>9. DashboardRuns'
  BY <1>1, <1>2, <1>3, <1>4, <1>5, <1>6, <1>7, <1>8, DashboardAnsweredKeeps,
     ResetZoomKeeps, ZoomAnsweredKeeps, FilterTimerKeeps, DashboardLayoutKeeps,
     DashboardTravelKeeps
     DEF DashboardNext
<1> QED BY <1>1, <1>9 DEF DashboardInv

\* The invariant says what the properties say.
LEMMA DashboardIsRight ==
    ASSUME DashboardInv
    PROVE  OnDashboard /\ DashboardIsUrl /\ CurvesAreAsked /\ BarsFollowAxis
<1>1. DashboardRuns /\ Url \in DashboardUrls
  BY BoardParts DEF DashboardInv
<1>2. OnDashboard
  BY <1>1, DashboardUrlParts DEF OnDashboard
<1>3. BarsFollowAxis
  BY DEF BarsFollowAxis, DashboardInv, TaskPageAbsent, EmptyComponentView
<1>4. ASSUME DashboardAtRest, NEW k \in DOMAIN widgets PROVE ~Due(widgets[k].handler)
  BY <1>4 DEF DashboardAtRest, Idle, Due
<1>5. DashboardIsUrl
  <2>1. ASSUME dash.loaded, DashboardAtRest PROVE dash.range = Url.range
    BY <1>1, <2>1 DEF DashboardRuns, RangeIsUrls, DashboardAtRest
  <2>2. ASSUME dash.loaded, DashboardAtRest, patient
        PROVE  /\ dash.page = Url.number /\ dash.filter = Url.filter
               /\ dash.axes = Url.axes
               /\ [k \in DOMAIN widgets |-> widgets[k].name]
                    = PageOf(Matches[Url.filter], Url.number, Cells(Len(Matches[Url.filter])))
               /\ \A k \in DOMAIN widgets :
                    widgets[k].axes = Url.axes /\ widgets[k].range = Url.range
    <3>1. Synced /\ dash.loads = 0
      BY <1>1, <2>2 DEF DashboardRuns, PatientBoard, DashboardAtRest
    <3>2. \A k \in DOMAIN widgets :
            widgets[k].axes = dash.axes /\ widgets[k].range = dash.range
      BY <1>4, <2>2, <3>1 DEF Synced
    <3>3. /\ dash.page = Url.number /\ dash.filter = Url.filter
          /\ dash.axes = Url.axes
          /\ dash.filtered = Matches[dash.filter]
          /\ dash.cells = Cells(Len(Matches[dash.filter]))
          /\ [k \in DOMAIN widgets |-> widgets[k].name]
               = PageOf(dash.filtered, dash.page, dash.cells)
      BY <2>2, <3>1 DEF Synced
    <3> QED BY <2>1, <2>2, <3>2, <3>3
  <2> QED BY <2>1, <2>2 DEF DashboardIsUrl
<1>6. CurvesAreAsked
  <2> SUFFICES ASSUME patient, DashboardAtRest, NEW k \in DOMAIN widgets
               PROVE  widgets[k].curves =
                        {[info |-> i, range |-> widgets[k].range] :
                            i \in Range(widgets[k].axes) \ {Skip}}
    BY DEF CurvesAreAsked
  <2>1. PICK w \in WidgetSet : w = widgets[k]
    BY <1>1, BoardParts
  <2>2. DOMAIN fetches = {} /\ Complete(w) /\ Stands(w) /\ DrawsItsAxes(w)
    BY <1>1, <2>1, NothingIsPending DEF DashboardAtRest
  <2>3. Curves /\ ~Due(w.handler)
    BY <1>1, <1>4, <2>1 DEF DashboardRuns, PatientBoard
  <2>4. ASSUME NEW s \in Sides, ~Skipped(w, s)
        PROVE  /\ w.data[s] = [info |-> w.axes[s], range |-> w.range]
               /\ w.data[s].info = w.axes[s] /\ w.data[s] \in w.curves
               /\ \A c \in w.curves : c.info = w.data[s].info => c = w.data[s]
    <3>1. Here(k, s)
      BY <2>1, <2>2, <2>4 DEF Here, Pending
    <3>2. w.data[s].info = w.axes[s] /\ w.data[s].range = w.range
      BY <2>1, <2>3, <3>1 DEF Curves, HasData
    <3>3. w.data[s] \in DataSet
      BY DEF WidgetSet
    <3> QED BY <2>2, <2>4, <3>2, <3>3 DEF Stands, DataSet
  <2>5. DOMAIN w.axes = Sides
    BY DEF WidgetSet
  <2>6. ASSUME NEW c \in w.curves
        PROVE  \E i \in Range(w.axes) \ {Skip} : c = [info |-> i, range |-> w.range]
    <3>1. PICK s \in Sides : ~Skipped(w, s) /\ c.info = w.axes[s]
      BY <2>2, <2>6 DEF DrawsItsAxes
    <3>2. c = [info |-> w.axes[s], range |-> w.range]
      BY <2>4, <2>6, <3>1
    <3>3. w.axes[s] \in Range(w.axes) \ {Skip}
      BY <2>5, <3>1 DEF Range, Skipped
    <3> QED BY <3>2, <3>3
  <2>7. ASSUME NEW i \in Range(w.axes) \ {Skip}
        PROVE  [info |-> i, range |-> w.range] \in w.curves
    <3>1. PICK s \in Sides : i = w.axes[s] /\ ~Skipped(w, s)
      BY <2>5, <2>7 DEF Range, Skipped
    <3> QED BY <2>4, <3>1
  <2> QED BY <2>1, <2>6, <2>7
<1> QED BY <1>2, <1>3, <1>5, <1>6

-----------------------------------------------------------------------------
(* Documents, and the application as a whole *)

\* What a document of the task page is loaded with.
LEMMA DocumentParts ==
    ASSUME NEW e \in PageUrls
    PROVE  /\ RoutedPage(e) \in Pages
           /\ RoutedPage(e).mode = "component" => RoutedPage(e).comp \in Names
           /\ RouteCall(e).wait # "component" \/ RoutedPage(e).mode = "component"
           /\ ServesOn(RoutedPage(e), RouteCall(e), e)
<1>1. NewPage \in Pages /\ NewPage.mode = "task"
  BY DEF NewPage, Pages, AnyRange
<1>2. e.range \in AnyRange /\ (e.page = "component" => e.key \in Names)
  BY PageUrlParts
<1>3. CASE e.page = "component" /\ e.range # NoRange
  <2>1. RoutedPage(e) = [NewPage EXCEPT !.mode = "component", !.comp = e.key,
                                        !.range = e.range]
    BY <1>3 DEF RoutedPage
  <2>2. /\ RoutedPage(e) \in Pages /\ RoutedPage(e).mode = "component"
        /\ RoutedPage(e).comp = e.key /\ RoutedPage(e).range = e.range
    BY <1>1, <1>2, <1>3, <2>1 DEF Pages
  <2> QED BY <1>2, <1>3, <2>2, RouteServes
<1>4. CASE ~(e.page = "component" /\ e.range # NoRange)
  <2>1. RoutedPage(e) = NewPage
    BY <1>4 DEF RoutedPage
  <2>2. RouteCall(e).wait # "component"
    BY <1>4, RouteTyped
  <2>3. ServesOn(NewPage, RouteCall(e), e)
    BY <1>4, RouteServes
  <2> QED BY <1>1, <2>1, <2>2, <2>3
<1> QED BY <1>3, <1>4

\* The history of a new document.
LEMMA HistoryOpened ==
    ASSUME NEW S, NEW e \in S
    PROVE  Opened(e) \in Histories(S) /\ Opened(e).entries[Opened(e).pos] = e
<1>1. <<e>> \in Seq(S) /\ Len(<<e>>) = 1 /\ <<e>>[1] = e
  OBVIOUS
<1> QED BY <1>1 DEF Opened, Histories

\* A widget's title is clicked: the page of its component is loaded.
LEMMA TitleClickOpens ==
    ASSUME DashboardInv, NEW k \in DOMAIN widgets, TitleClick(k)
    PROVE  TaskPageInv' /\ widgets' = <<>>
<1>1. PICK w \in WidgetSet : w = widgets[k]
  BY BoardParts DEF DashboardInv
<1>2. PICK e : e = [ComponentUrl(w.name) EXCEPT !.range = w.range]
  OBVIOUS
<1>3. e \in PageUrls
  <2>1. w.name \in Names /\ w.range \in AnyRange
    BY DEF WidgetSet
  <2> QED BY <1>2, <2>1 DEF ComponentUrl, PageUrls, ComponentUrls, Names
<1>4. /\ nav' = Opened(e) /\ page' = RoutedPage(e)
      /\ calls' = <<RouteCall(e)>> /\ handlers' = <<NewHandler>>
      /\ widgets' = <<>> /\ UNCHANGED <<taskView, compView>>
  BY <1>1, <1>2 DEF TitleClick
<1>5. taskView' \in TaskViews /\ compView' \in ComponentViews
  BY <1>4 DEF DashboardInv, TaskPageAbsent, EmptyView, EmptyComponentView, TaskViews,
              ComponentViews, AnyRange
<1>6. PICK c \in Calls : c = RouteCall(e)
  BY <1>3, RouteTyped
<1>7. PICK h \in Handlers : h = NewHandler /\ Idle(h) /\ ~h.dragging
  BY NewHandlerTyped
<1>8. /\ calls' \in Seq(Calls) /\ Len(calls') = 1 /\ calls'[1] = c /\ DOMAIN calls' = {1}
      /\ calls' # <<>>
  BY <1>4, <1>6
<1>9. handlers' \in Seq(Handlers) /\ DOMAIN handlers' = {1} /\ handlers'[1] = h
  BY <1>4, <1>7
<1>10. nav' \in Histories(PageUrls) /\ Url' = e
  BY <1>3, <1>4, HistoryOpened DEF Url
<1>11. PageTyped'
  BY <1>3, <1>4, <1>5, <1>8, <1>9, DocumentParts DEF PageTyped
<1>12. AllHeld'
  BY <1>7, <1>9 DEF AllHeld, Held
<1>13. BarsCatchUp' /\ TaskIsComing'
  BY <1>3, <1>4, <1>6, <1>8, DocumentParts DEF BarsCatchUp, TaskIsComing, NothingToReload
<1>14. Visiting'
  BY <1>3, <1>4, <1>6, <1>7, <1>8, <1>9, <1>10, DocumentParts DEF Visiting, Serves
<1> QED BY <1>4, <1>10, <1>11, <1>12, <1>13, <1>14 DEF TaskPageInv, PatientPage

\* The first document.
LEMMA InitOpens == Init => AppInv
<1> SUFFICES ASSUME Init PROVE AppInv
  OBVIOUS
<1>1. PICK e \in Entries : nav = Opened(e) /\ Loaded(e)
  BY DEF Init
<1>2. CASE e.page = "dashboard"
  <2>1. DashboardInit /\ TaskPageAbsent
    BY <1>1, <1>2 DEF Loaded
  <2>2. e \in DashboardUrls
    BY <1>2, AppAssumption DEF TaskUrls, ComponentUrls
  <2>3. nav \in Histories(DashboardUrls)
    BY <1>1, <2>2, HistoryOpened
  <2>4. NewDashboard \in Dashboards
    <3>1. MaxWidgets \in Nat
      BY PagesAssumption
    <3>2. Cells(MaxWidgets) \in Nat
      BY <3>1, CellsTyped
    <3>3. [p |-> Primary, s |-> Secondary] \in [Sides -> Axes]
      BY DashboardAssumption DEF Sides
    <3>4. NoFilter \in Filters /\ NoRange \in AnyRange
      BY DashboardAssumption DEF AnyRange
    <3>5. <<>> \in Seq(Names)
      OBVIOUS
    <3> QED BY <3>2, <3>3, <3>4, <3>5 DEF NewDashboard, Dashboards
  <2>5. dash \in Dashboards /\ dash.loads = 1 /\ dash.zooms = 0 /\ ~dash.filterTimer
    BY <2>1, <2>4 DEF DashboardInit, Dashboards, NewDashboard
  <2>6. /\ widgets = <<>> /\ widgets \in Seq(WidgetSet) /\ DOMAIN widgets = {}
        /\ fetches = EmptyBag /\ orphans = EmptyBag
        /\ DOMAIN fetches = {} /\ DOMAIN orphans = {}
    BY <2>1, BagEmpty DEF DashboardInit
  <2>7. DashTyped /\ MissingIsAsked /\ RangeIsUrls
    BY <2>5, <2>6 DEF DashTyped, MissingIsAsked, RangeIsUrls
  <2>8. OneThing /\ Synced /\ Curves
    BY <2>5, <2>6 DEF OneThing, Synced, Curves, Quiet
  <2> QED BY <2>1, <2>3, <2>7, <2>8 DEF AppInv, DashboardInv, DashboardRuns, PatientBoard
<1>3. CASE e.page # "dashboard"
  <2>1. TaskPageInit(e) /\ DashboardAbsent
    BY <1>1, <1>3 DEF Loaded
  <2>2. e \in PageUrls
    BY <1>3, AppAssumption DEF DashboardUrls, PageUrls
  <2>3. nav \in Histories(PageUrls) /\ Url = e
    BY <1>1, <2>2, HistoryOpened DEF Url
  <2>4. /\ page = RoutedPage(e) /\ calls = <<RouteCall(e)>> /\ handlers = <<NewHandler>>
        /\ widgets = <<>>
    BY <2>1 DEF TaskPageInit, DashboardAbsent
  <2>5. taskView \in TaskViews /\ compView \in ComponentViews
    BY <2>1 DEF TaskPageInit, EmptyView, EmptyComponentView, TaskViews, ComponentViews,
                AnyRange
  <2>6. PICK c \in Calls : c = RouteCall(e)
    BY <2>2, RouteTyped
  <2>7. PICK h \in Handlers : h = NewHandler /\ Idle(h) /\ ~h.dragging
    BY NewHandlerTyped
  <2>8. /\ calls \in Seq(Calls) /\ Len(calls) = 1 /\ calls[1] = c /\ DOMAIN calls = {1}
        /\ calls # <<>>
    BY <2>4, <2>6
  <2>9. handlers \in Seq(Handlers) /\ DOMAIN handlers = {1} /\ handlers[1] = h
    BY <2>4, <2>7
  <2>10. PageTyped
    BY <2>2, <2>4, <2>5, <2>8, <2>9, DocumentParts DEF PageTyped
  <2>11. AllHeld
    BY <2>7, <2>9 DEF AllHeld, Held
  <2>12. BarsCatchUp /\ TaskIsComing
    BY <2>2, <2>4, <2>6, <2>8, DocumentParts DEF BarsCatchUp, TaskIsComing, NothingToReload
  <2>13. Visiting
    BY <2>2, <2>3, <2>4, <2>6, <2>7, <2>8, <2>9, DocumentParts DEF Visiting, Serves
  <2> QED BY <2>3, <2>4, <2>10, <2>11, <2>12, <2>13 DEF AppInv, TaskPageInv, PatientPage
<1> QED BY <1>2, <1>3

\* A step in which nothing changes.
LEMMA StutterKeeps ==
    ASSUME AppInv, UNCHANGED vars
    PROVE  AppInv'
<1>1. /\ UNCHANGED <<nav, patient, pointer>>
      /\ UNCHANGED <<page, taskView, compView, colors, calls, handlers>>
      /\ UNCHANGED <<dash, widgets, fetches, orphans>>
  BY DEF vars, browserVars, taskPageVars, dashVars
<1>2. CASE TaskPageInv /\ widgets = <<>>
  <2>1. Goal' = Goal
    BY <1>1 DEF Goal
  <2>2. TaskPageInv'
    BY <1>1, <1>2, <2>1, ViewsMove DEF TaskPageInv, PageTyped
  <2> QED BY <1>1, <1>2, <2>2 DEF AppInv
<1>3. CASE DashboardInv
  <2>1. DashboardRuns /\ TaskPageAbsent'
    BY <1>1, <1>3 DEF DashboardInv, TaskPageAbsent
  <2>2. dash' \in Dashboards /\ nav' \in Histories(DashboardUrls)
    BY <1>1, <2>1, BoardParts
  <2>3. DashTyped' /\ MissingIsAsked' /\ (patient => Curves')
    BY <1>1, <2>1, <2>2, WidgetsStay
  <2>4. RangeIsUrls'
    BY <1>1, <2>1 DEF DashboardRuns, RangeIsUrls, Url
  <2>5. patient => OneThing'
    BY <1>1, <2>1 DEF DashboardRuns, PatientBoard, OneThing, Quiet, Held
  <2>6. patient => Synced'
    BY <1>1, <2>1 DEF DashboardRuns, PatientBoard, Synced, Due, Url
  <2> QED BY <1>1, <2>1, <2>2, <2>3, <2>4, <2>5, <2>6
          DEF AppInv, DashboardInv, DashboardRuns, PatientBoard
<1> QED BY <1>2, <1>3 DEF AppInv

LEMMA NextKeeps ==
    ASSUME AppInv, Next
    PROVE  AppInv'
<1>1. CASE TaskPageInv /\ widgets = <<>>
  <2>1. ~OnDashboard
    BY <1>1, TaskPageIsRight
  <2>2. TaskPageNext /\ UNCHANGED dashVars
    BY <2>1 DEF Next
  <2> QED BY <1>1, <2>2, TaskPageKeeps DEF AppInv, dashVars
<1>2. CASE DashboardInv
  <2>1. OnDashboard
    BY <1>2, DashboardIsRight
  <2>2. CASE DashboardNext /\ UNCHANGED taskPageVars
    BY <1>2, <2>2, DashboardKeeps DEF AppInv
  <2>3. ASSUME NEW k \in DOMAIN widgets, TitleClick(k) PROVE AppInv'
    BY <1>2, <2>3, TitleClickOpens DEF AppInv
  <2> QED BY <2>1, <2>2, <2>3 DEF Next
<1> QED BY <1>1, <1>2 DEF AppInv

LEMMA AppConsistent == Spec => []AppInv
<1>1. AppInv /\ [Next]_vars => AppInv'
  BY NextKeeps, StutterKeeps
<1> QED BY <1>1, InitOpens, PTL DEF Spec

-----------------------------------------------------------------------------
(* Theorems *)

\* For a user who waits, the task page at rest shows what its URL says: the
\* task or component, in the range of the URL, and the tasks of that range,
\* whatever was clicked, dragged and travelled through before.
THEOREM TaskPageAlwaysShowsUrl == Spec => []TaskPageShowsUrl
<1>1. AppInv => TaskPageShowsUrl
  BY TaskPageIsRight, DashboardIsRight DEF AppInv, TaskPageShowsUrl
<1> QED BY <1>1, AppConsistent, PTL

\* Whatever the user does, the bars of a task page at rest are where its axis
\* says, though transitions end after the axis they were made for has gone.
THEOREM BarsAlwaysFollowAxis == Spec => []BarsFollowAxis
<1>1. AppInv => BarsFollowAxis
  BY TaskPageIsRight, DashboardIsRight DEF AppInv
<1> QED BY <1>1, AppConsistent, PTL

\* URL and dashboard have one range whatever the user does, and for a user
\* who waits, and switches axes only where there are widgets, one page, filter
\* and pair of axes, and the widgets are those.
THEOREM DashboardAlwaysShowsUrl == Spec => []DashboardShowsUrl
<1>1. AppInv => DashboardShowsUrl
  BY TaskPageIsRight, DashboardIsRight DEF AppInv, DashboardShowsUrl
<1> QED BY <1>1, AppConsistent, PTL

\* For a user who waits, every widget at rest shows the curves of its axes in
\* the range of its axis, and no other.
THEOREM CurvesAlwaysAsked == Spec => []CurvesAreAsked
<1>1. AppInv => CurvesAreAsked
  <2>1. widgets = <<>> => CurvesAreAsked
    BY DEF CurvesAreAsked
  <2> QED BY <2>1, DashboardIsRight DEF AppInv
<1> QED BY <1>1, AppConsistent, PTL

=============================================================================
