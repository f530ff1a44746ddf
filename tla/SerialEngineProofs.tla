-------------------------- MODULE SerialEngineProofs --------------------------
(***************************************************************************)
(* SerialEngine implements EventEngine and keeps secondary events after    *)
(* primary ones, for every number of events and every range of times.      *)
(***************************************************************************)
EXTENDS SerialEngine, TLAPS

(* The inductive invariant: every event in the engine carries a number that *)
(* was given out, so a new event is a fresh one; none is earlier than the   *)
(* current time; an event is handled exactly while Run is in Handle, and    *)
(* then it is in no queue.                                                  *)
Known == queue \cup secondaryQueue \cup current

Inv ==
    /\ time \in 0..MaxTime
    /\ scheduled \in 0..MaxEvents
    /\ rpc \in {"setup", "loop", "handle", "returned"}
    /\ Known \subseteq Events
    /\ \A e \in Known : e.id <= scheduled /\ e.time >= time
    /\ \A e \in queue : ~e.secondary
    /\ \A e \in secondaryQueue : e.secondary
    /\ rpc = "setup" => time = 0
    /\ rpc # "handle" => current = {}
    /\ rpc = "handle" => \E e \in current : current = {e}
    /\ (queue \cup secondaryQueue) \cap current = {}

Handed(e) ==
    /\ current' = {e} /\ time' = e.time
    /\ queue' = queue \ {e} /\ secondaryQueue' = secondaryQueue \ {e}
    /\ \A x \in queue \cup secondaryQueue : e.time <= x.time

(* RunEvent hands over one event, and no event of either queue is earlier. *)
LEMMA EarliestIsHanded ==
    ASSUME Inv, RunEvent
    PROVE  \E e \in queue \cup secondaryQueue : Handed(e)
<1>1. /\ \A e \in queue \cup secondaryQueue : e.time \in Nat
      /\ queue \cap secondaryQueue = {}
  BY SerialAssumption DEF Inv, Known, Events
<1>2. CASE PrimaryNext
  <2>1. PICK e \in Front(queue) : /\ queue' = queue \ {e} /\ current' = {e}
                                 /\ secondaryQueue' = secondaryQueue
    BY <1>2 DEF RunEvent, NextEvent
  <2>2. time' = e.time
    BY <2>1 DEF RunEvent
  <2>3. ASSUME NEW x \in secondaryQueue PROVE e.time <= x.time
    <3>1. PICK p \in queue : p.time <= x.time
      BY <1>2, <2>3 DEF PrimaryNext
    <3> QED  BY <1>1, <2>1, <2>3, <3>1 DEF Front
  <2> QED  BY <1>1, <2>1, <2>2, <2>3 DEF Handed, Front
<1>3. CASE ~PrimaryNext
  <2>1. PICK e \in Front(secondaryQueue) :
           /\ secondaryQueue' = secondaryQueue \ {e} /\ current' = {e}
           /\ queue' = queue
    BY <1>3 DEF RunEvent, NextEvent
  <2>2. time' = e.time
    BY <2>1 DEF RunEvent
  <2>3. ASSUME NEW x \in queue PROVE e.time <= x.time
    <3>1. PICK s \in secondaryQueue : \A p \in queue : ~(p.time <= s.time)
      BY <1>3, <2>3 DEF PrimaryNext
    <3> QED  BY <1>1, <2>1, <2>3, <3>1 DEF Front
  <2> QED  BY <1>1, <2>1, <2>2, <2>3 DEF Handed, Front
<1> QED  BY <1>2, <1>3

(* Inv holds initially and every step of Run or of a handler keeps it. *)
LEMMA InvInductive == (Init => Inv) /\ (Inv /\ [Next]_vars => Inv')
<1> USE SerialAssumption
<1>1. Init => Inv
  BY DEF Init, Inv, Known
<1>2. ASSUME Inv, [Next]_vars PROVE Inv'
  <2> USE <1>2
  <2>1. ASSUME NEW t \in 0..MaxTime, NEW s \in BOOLEAN, Schedule(t, s) PROVE Inv'
    <3> DEFINE e == [id |-> scheduled + 1, time |-> t, secondary |-> s]
    <3>1. e \in Events /\ e.id = scheduled + 1 /\ e.time = t /\ e.secondary = s
      BY <2>1 DEF Schedule, Events, Inv
    <3>2. e \notin Known
      BY <3>1 DEF Inv
    <3> HIDE DEF e
    <3>3. Known' = Known \cup {e} /\ scheduled' = scheduled + 1 /\ time' = time
      BY <2>1 DEF Schedule, e, Known
    <3>4. current' = current /\ rpc' = rpc /\ rpc \in {"setup", "handle"}
      BY <2>1 DEF Schedule
    <3>5. \A x \in Known' : x.id <= scheduled' /\ x.time >= time'
      BY <2>1, <3>1, <3>3 DEF Inv, Events, Schedule
    <3>6. CASE s
      <4>1. secondaryQueue' = secondaryQueue \cup {e} /\ queue' = queue
        BY <2>1, <3>6 DEF Schedule, e
      <4> QED  BY <2>1, <3>1, <3>2, <3>3, <3>4, <3>5, <3>6, <4>1 DEF Inv, Known, Schedule
    <3>7. CASE ~s
      <4>1. queue' = queue \cup {e} /\ secondaryQueue' = secondaryQueue
        BY <2>1, <3>7 DEF Schedule, e
      <4> QED  BY <2>1, <3>1, <3>2, <3>3, <3>4, <3>5, <3>7, <4>1 DEF Inv, Known, Schedule
    <3> QED  BY <3>6, <3>7
  <2>2. CASE CallRun
    BY <2>2 DEF CallRun, Inv, Known
  <2>3. CASE RunEvent
    <3>1. PICK e \in queue \cup secondaryQueue : Handed(e)
      BY <2>3, EarliestIsHanded
    <3>2. Known' \subseteq Known /\ current = {} /\ rpc = "loop"
      BY <2>3, <3>1 DEF Handed, RunEvent, Inv, Known
    <3> QED  BY <2>3, <3>1, <3>2 DEF Handed, RunEvent, Inv, Known, Events
  <2>4. CASE HandlerReturns
    BY <2>4 DEF HandlerReturns, Inv, Known
  <2>5. CASE RunReturns
    BY <2>5 DEF RunReturns, Inv, Known
  <2>6. CASE UNCHANGED vars
    BY <2>6 DEF vars, Inv, Known
  <2> QED  BY <2>1, <2>2, <2>3, <2>4, <2>5, <2>6 DEF Next
<1> QED  BY <1>1, <1>2

(* Refinement: each step of the event loop is a step of the abstract engine *)
(* or leaves it alone, so no event is lost, handled twice, early or late.   *)
THEOREM SerialIsEngine == Spec => IsEngine
<1> USE SerialAssumption
<1>1. Init => Engine!Init
  BY DEF Init, Engine!Init
<1>2. ASSUME Inv, Inv', [Next]_vars PROVE [Engine!Next]_(Engine!engineVars)
  <2> USE <1>2
  <2>1. ASSUME NEW t \in 0..MaxTime, NEW s \in BOOLEAN, Schedule(t, s)
        PROVE Engine!ScheduleEvent
    <3> DEFINE e == [id |-> scheduled + 1, time |-> t, secondary |-> s]
    <3>1. e \in Events /\ e.id = scheduled + 1 /\ e.time = t
      BY <2>1 DEF Schedule, Events, Inv
    <3>2. e \notin Known
      BY <3>1 DEF Inv
    <3>3. (queue \cup secondaryQueue)' = (queue \cup secondaryQueue) \cup {e}
      BY <2>1 DEF Schedule
    <3>4. rpc = "setup" \/ current # {}
      BY <2>1 DEF Schedule, Inv
    <3> HIDE DEF e
    <3> QED  BY <2>1, <3>1, <3>2, <3>3, <3>4 DEF Schedule, Known, Engine!ScheduleEvent
  <2>2. CASE CallRun
    BY <2>2 DEF CallRun, Engine!CallRun, Engine!Next
  <2>3. CASE RunEvent
    <3>1. PICK e \in queue \cup secondaryQueue : Handed(e)
      BY <2>3, EarliestIsHanded
    <3>2. current = {} /\ rpc = "loop" /\ rpc' = "handle" /\ e.time >= time
      BY <2>3, <3>1 DEF Handed, RunEvent, Inv, Known
    <3>3. Engine!StartEvent
      BY <3>1, <3>2 DEF Handed, Engine!StartEvent
    <3> QED  BY <3>3 DEF Engine!Next
  <2>4. CASE HandlerReturns
    BY <2>4 DEF HandlerReturns, Inv, Engine!FinishEvent, Engine!Next
  <2>5. CASE RunReturns
    BY <2>5 DEF RunReturns, Inv, Engine!ReturnRun, Engine!Next
  <2>6. CASE UNCHANGED vars
    BY <2>6 DEF vars, Engine!engineVars
  <2> QED  BY <2>1, <2>2, <2>3, <2>4, <2>5, <2>6 DEF Next, Engine!Next
<1> QED  BY InvInductive, <1>1, <1>2, PTL DEF Spec, IsEngine, Engine!Spec

(* "Secondary event are handled after all same-time primary events are      *)
(* handled": when Run hands over a secondary event, every primary event in  *)
(* the queue, whenever it was scheduled, is later.                          *)
THEOREM SerialSecondaryAfterPrimary == Spec => SecondaryAfterPrimary
<1> DEFINE After == \A e \in current' \ current :
                        e.secondary => \A x \in queue : x.time > e.time
<1>1. ASSUME Inv, [Next]_vars PROVE [After]_vars
  <2> USE <1>1
  <2>1. CASE RunEvent
    <3>1. \A e \in queue \cup secondaryQueue : e.time \in Nat
      BY SerialAssumption DEF Inv, Known, Events
    <3>2. CASE PrimaryNext
      <4>1. PICK e \in queue : current' = {e}
        BY <2>1, <3>2 DEF RunEvent, NextEvent, Front
      <4>2. ~e.secondary
        BY <4>1 DEF Inv
      <4> QED  BY <4>1, <4>2
    <3>3. CASE ~PrimaryNext
      <4>1. PICK e \in Front(secondaryQueue) : current' = {e}
        BY <2>1, <3>3 DEF RunEvent, NextEvent
      <4>2. ASSUME NEW x \in queue PROVE x.time > e.time
        <5>1. PICK s \in secondaryQueue : \A p \in queue : ~(p.time <= s.time)
          BY <3>3, <4>2 DEF PrimaryNext
        <5>2. e \in secondaryQueue /\ e.time <= s.time /\ ~(x.time <= s.time)
          BY <4>1, <4>2, <5>1 DEF Front
        <5> QED  BY <3>1, <5>1, <5>2, <4>2
      <4> QED  BY <4>1, <4>2
    <3> QED  BY <3>2, <3>3
  <2>2. CASE \/ \E t \in 0..MaxTime, s \in BOOLEAN : Schedule(t, s)
             \/ CallRun \/ HandlerReturns \/ RunReturns \/ UNCHANGED vars
    <3>1. current' \ current = {}
      BY <2>2 DEF Schedule, CallRun, HandlerReturns, RunReturns, vars
    <3> QED  BY <3>1
  <2> QED  BY <2>1, <2>2 DEF Next
<1> QED  BY InvInductive, <1>1, PTL DEF Spec, SecondaryAfterPrimary

=============================================================================
