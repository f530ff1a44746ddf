----------------------------- MODULE SerialEngine -----------------------------
(***************************************************************************)
(* The event loop of SerialEngine (sim/serialengine.go): a primary and a   *)
(* secondary queue, and handlers that schedule further events while they   *)
(* run.  Pause and Continue are in module EngineControl.                    *)
(***************************************************************************)
EXTENDS Naturals

CONSTANTS
    MaxEvents,  \* bound on the events scheduled in a run
    MaxTime     \* bound on their times

ASSUME SerialAssumption ==
    /\ MaxEvents \in Nat
    /\ MaxTime \in Nat

VARIABLES
    time,
    queue,
    secondaryQueue,
    current,    \* the event in Handle, as a set of at most one
    scheduled,  \* how many events were scheduled
    rpc         \* "setup" before Run, then "loop", "handle" or "returned"

vars == <<time, queue, secondaryQueue, current, scheduled, rpc>>

Events == [id : 1..MaxEvents, time : 0..MaxTime, secondary : BOOLEAN]

Front(q) == {e \in q : \A x \in q : e.time <= x.time}

(* The program before Run, and a handler, schedule at the current time or  *)
(* later, which Schedule checks.                                            *)
Schedule(t, secondary) ==
    /\ rpc \in {"setup", "handle"}
    /\ scheduled < MaxEvents
    /\ t >= time
    /\ LET e == [id |-> scheduled + 1, time |-> t, secondary |-> secondary]
       IN  IF secondary
           THEN secondaryQueue' = secondaryQueue \cup {e} /\ UNCHANGED queue
           ELSE queue' = queue \cup {e} /\ UNCHANGED secondaryQueue
    /\ scheduled' = scheduled + 1
    /\ UNCHANGED <<time, current, rpc>>

CallRun ==
    /\ rpc = "setup"
    /\ rpc' = "loop"
    /\ UNCHANGED <<time, queue, secondaryQueue, current, scheduled>>

\* Mutant: at the same time a secondary event goes first.
PrimaryNextMutant ==
    \/ secondaryQueue = {}
    \/ queue # {} /\ \A s \in secondaryQueue : \E p \in queue : p.time < s.time

(* The first primary event is not later than the first secondary one. *)
PrimaryNext ==
    \/ secondaryQueue = {}
    \/ queue # {} /\ \A s \in secondaryQueue : \E p \in queue : p.time <= s.time

\* Mutant: any event of the queue.
NextEventMutant(q) == q

NextEvent(q) == Front(q)

RunEvent ==
    /\ rpc = "loop"
    /\ \/ /\ PrimaryNext
          /\ \E e \in NextEvent(queue) : queue' = queue \ {e} /\ current' = {e}
          /\ UNCHANGED secondaryQueue
       \/ /\ ~PrimaryNext
          /\ \E e \in NextEvent(secondaryQueue) :
                secondaryQueue' = secondaryQueue \ {e} /\ current' = {e}
          /\ UNCHANGED queue
    /\ \E e \in current' : time' = e.time
    /\ rpc' = "handle"
    /\ UNCHANGED scheduled

HandlerReturns ==
    /\ rpc = "handle"
    /\ current' = {}
    /\ rpc' = "loop"
    /\ UNCHANGED <<time, queue, secondaryQueue, scheduled>>

RunReturns ==
    /\ rpc = "loop"
    /\ queue = {} /\ secondaryQueue = {}
    /\ rpc' = "returned"
    /\ UNCHANGED <<time, queue, secondaryQueue, current, scheduled>>

Init ==
    /\ time = 0
    /\ queue = {}
    /\ secondaryQueue = {}
    /\ current = {}
    /\ scheduled = 0
    /\ rpc = "setup"

Next ==
    \/ \E t \in 0..MaxTime, s \in BOOLEAN : Schedule(t, s)
    \/ CallRun \/ RunEvent \/ HandlerReturns \/ RunReturns

Spec == Init /\ [][Next]_vars

-----------------------------------------------------------------------------
(* The event loop is an event engine: no event is lost, handled twice, early *)
(* or late.                                                                  *)
Engine == INSTANCE EventEngine WITH
            now <- time, pending <- queue \cup secondaryQueue,
            handling <- current,
            run <- IF rpc = "setup" THEN "before"
                   ELSE IF rpc = "returned" THEN "returned" ELSE "called"

IsEngine == Engine!Spec

(* "Secondary event are handled after all same-time primary events are     *)
(* handled" (sim/event.go), the ones scheduled while it waits included.     *)
SecondaryAfterPrimary ==
    [][\A e \in current' \ current :
          e.secondary => \A x \in queue : x.time > e.time]_vars

=============================================================================
