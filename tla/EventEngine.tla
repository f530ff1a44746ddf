----------------------------- MODULE EventEngine -----------------------------
(***************************************************************************)
(* What sim.Engine promises its users, whichever engine is behind it: every *)
(* scheduled event is handled once, at its own time, and in chronological   *)
(* order; time never goes back, and Run returns only when nothing is left.  *)
(***************************************************************************)
EXTENDS Naturals

CONSTANTS
    Events      \* records with the fields id, time and secondary

VARIABLES
    now,        \* CurrentTime
    pending,    \* scheduled and not yet handed to a handler
    handling,   \* being handled
    run         \* "before", "called" or "returned"

engineVars == <<now, pending, handling, run>>

Init ==
    /\ now = 0
    /\ pending = {}
    /\ handling = {}
    /\ run = "before"

(* The program before Run, or a handler, schedules an event of the current *)
(* time or later.                                                          *)
ScheduleEvent ==
    /\ run = "before" \/ handling # {}
    /\ \E e \in Events \ (pending \cup handling) :
          /\ e.time >= now
          /\ pending' = pending \cup {e}
    /\ UNCHANGED <<now, handling, run>>

CallRun ==
    /\ run = "before"
    /\ run' = "called"
    /\ UNCHANGED <<now, pending, handling>>

(* Time moves to the earliest event once nothing is being handled. *)
Advance ==
    /\ run = "called"
    /\ handling = {}
    /\ \E e \in pending :
          /\ \A x \in pending : e.time <= x.time
          /\ now' = e.time
    /\ UNCHANGED <<pending, handling, run>>

(* An event is handed to its handler at its time, together with others of  *)
(* the same kind only.                                                     *)
StartEvent ==
    \E e \in pending :
       /\ run = "called"
       /\ e.time = now'
       /\ now' >= now
       /\ handling # {} => now' = now
       /\ \A x \in pending : e.time <= x.time
       /\ \A x \in handling : x.secondary = e.secondary
       /\ pending' = pending \ {e}
       /\ handling' = handling \cup {e}
       /\ UNCHANGED run

FinishEvent ==
    /\ \E e \in handling : handling' = handling \ {e}
    /\ UNCHANGED <<now, pending, run>>

ReturnRun ==
    /\ run = "called"
    /\ pending = {}
    /\ handling = {}
    /\ run' = "returned"
    /\ UNCHANGED <<now, pending, handling>>

Next ==
    ScheduleEvent \/ CallRun \/ Advance \/ StartEvent \/ FinishEvent \/ ReturnRun

Spec == Init /\ [][Next]_engineVars
=============================================================================
