---------------------------- MODULE DaisenBrowser ----------------------------
(***************************************************************************)
(* What the two pages of Daisen share: the session history of the browser, *)
(* whose current entry is the URL, the user with a mouse or a finger, and  *)
(* MouseEventHandler, the state machine that turns mouse and touch events  *)
(* on an element into shifts of its time range.  How far a gesture shifts  *)
(* or zooms is left open: the range becomes any of a given set.            *)
(***************************************************************************)
EXTENDS Naturals, Sequences, FiniteSets

CONSTANTS
    Ranges,         \* time ranges
    SimRange,       \* from the start to the end of the simulation
    NoRange,
    MaxEntries,     \* bound: entries of the session history
    MaxGestures     \* bound: what a patient and another user do

VARIABLES
    nav,        \* the session history: its entries and the current one
    patient,    \* does the user wait for the page to come to rest?
    pointer,    \* is the mouse button, are fingers down?
    gestures    \* what the user has done so far

browserVars == <<nav, patient, pointer, gestures>>

-----------------------------------------------------------------------------
(* The session history *)

Url == nav.entries[nav.pos]

Opened(e) == [entries |-> <<e>>, pos |-> 1]
pushState(n, e) == [entries |-> Append(SubSeq(n.entries, 1, n.pos), e),
                    pos |-> n.pos + 1]
replaceState(n, e) == [n EXCEPT !.entries[n.pos] = e]
HasRoom == nav.pos < MaxEntries

\* Back and Forward: the current entry changes and popstate is fired.
Travel ==
    \E p \in {nav.pos - 1, nav.pos + 1} \cap DOMAIN nav.entries :
        nav' = [nav EXCEPT !.pos = p]

-----------------------------------------------------------------------------
(* The user *)

\* The user does something: any time, or only when the page is ready.
Acts(ready) ==
    /\ gestures < MaxGestures[patient]
    /\ patient => ready
    /\ gestures' = gestures + 1
    /\ UNCHANGED patient

Gesture(ready) == Acts(ready) /\ UNCHANGED pointer

\* The button and the fingers: an element that sees the press of a button
\* also sees its release.
Touches == {"touchstart", "pinchstart", "touchmove", "touchend"}
PointerEvents == {"mousedown", "mousemove", "mouseup", "wheel"} \cup Touches

PointerMoves(e) ==
    CASE e = "mousedown"  -> pointer = "up" /\ pointer' = "mouse"
      [] e = "mouseup"    -> pointer = "mouse" /\ pointer' = "up"
      [] e = "touchstart" -> pointer = "up" /\ pointer' = "finger"
      [] e = "pinchstart" -> pointer = "finger" /\ pointer' = "fingers"
      [] e = "touchend"   -> pointer \in {"finger", "fingers"} /\ pointer' = "up"
      [] e = "touchmove"  -> pointer \in {"finger", "fingers"} /\ UNCHANGED pointer
      [] e \in {"mousemove", "wheel"} ->
            pointer \in {"up", "mouse"} /\ UNCHANGED pointer

-----------------------------------------------------------------------------
(* MouseEventHandler *)

NewHandler == [dragging |-> FALSE, pinching |-> FALSE, moved |-> FALSE,
               timer |-> FALSE]

\* Where a drag, a pinch or the wheel takes the time range: left open.
ShiftedRanges == Ranges

\* Does the event shift the range of the view for now?
Shifts(h, e) ==
    \/ e = "mousemove" /\ h.dragging
    \/ e = "touchmove" /\ (h.dragging \/ h.pinching)
    \/ e = "wheel"

\* Does it make the shift permanent (triggerReload)?
Reloads(h, e) ==
    \/ e = "mouseup" /\ h.moved
    \/ e = "timer"

\* The handler after the event.  Wheel and touch (continueScrolling) reload
\* one second after their last shift, the mouse when it is released.
React(h, e) ==
    CASE e = "mousedown"  -> [h EXCEPT !.dragging = TRUE, !.moved = FALSE]
      [] e = "mousemove"  -> [h EXCEPT !.moved = @ \/ h.dragging]
      [] e = "mouseup"    -> [h EXCEPT !.dragging = FALSE]
      [] e = "wheel"      -> [h EXCEPT !.timer = TRUE]
      [] e = "touchstart" -> [h EXCEPT !.dragging = TRUE, !.pinching = FALSE]
      [] e = "pinchstart" -> [h EXCEPT !.dragging = FALSE, !.pinching = TRUE]
      [] e = "touchmove"  -> [h EXCEPT !.moved = @ \/ h.dragging,
                                       !.timer = @ \/ h.dragging \/ h.pinching]
      [] e = "touchend"   -> [h EXCEPT !.dragging = FALSE, !.pinching = FALSE]
      [] e = "timer"      -> [h EXCEPT !.timer = FALSE]

Idle(h) == ~h.dragging /\ ~h.pinching /\ ~h.timer
=============================================================================
