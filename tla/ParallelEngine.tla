---------------------------- MODULE ParallelEngine ----------------------------
(***************************************************************************)
(* The event loop of ParallelEngine (sim/parallelengine.go).  Each kind of *)
(* event, primary and secondary, has several queues and a channel that     *)
(* passes them around: whoever takes a queue out of the channel owns it.   *)
(* The goroutine in Run takes all of them, starts a goroutine for every    *)
(* event of the current time, puts each queue back as soon as it is done   *)
(* with it and waits for the goroutines.  Pause and Continue are in module *)
(* EngineControl.                                                          *)
(***************************************************************************)
EXTENDS Naturals, Sequences, FiniteSets

CONSTANTS
    NumQueues,  \* numQueues, per kind
    MaxEvents,  \* bound on the events scheduled in a run
    MaxTime     \* bound on their times

ASSUME ParallelAssumption ==
    /\ NumQueues \in Nat \ {0}
    /\ MaxEvents \in Nat
    /\ MaxTime \in Nat

VARIABLES
    now,
    queues,         \* queues[TRUE]: secondaryQueues, queues[FALSE]: queues
    queueChan,      \* queueChan[TRUE]: secondaryQueueChan, queueChan[FALSE]
    runningSecondaryEvents,
    pc,             \* what Run does next
    cur,            \* the queue that Run's loops have reached
    workers,        \* events whose goroutine has not called waitGroup.Done
    want,           \* want[w]: the event that w is about to Schedule, or none
    held,           \* held[w]: the queue that w took out of the channel, or 0
    scheduled       \* how many events were scheduled

vars == <<now, queues, queueChan, runningSecondaryEvents, pc, cur, workers,
          want, held, scheduled>>

Ids == 1..MaxEvents

(* late: scheduled by the handler of a secondary event for the very time of  *)
(* that event.  Only the properties look at it.                              *)
Events == [id : Ids, time : 0..MaxTime, secondary : BOOLEAN, late : BOOLEAN]

NoEvent == << >>

\* math.MaxFloat64
Never == MaxTime + 1

Front(q) == {e \in q : \A x \in q : e.time <= x.time}

-----------------------------------------------------------------------------
(* Schedule, called by the program before Run, when nobody else uses the    *)
(* queues *)
ScheduleBefore(t, k) ==
    /\ pc = "setup"
    /\ scheduled < MaxEvents
    /\ LET q == Head(queueChan[k])
           e == [id |-> scheduled + 1, time |-> t, secondary |-> k, late |-> FALSE]
       IN  /\ queues' = [queues EXCEPT ![k][q] = @ \cup {e}]
           /\ queueChan' = [queueChan EXCEPT ![k] = Append(Tail(@), q)]
    /\ scheduled' = scheduled + 1
    /\ UNCHANGED <<now, runningSecondaryEvents, pc, cur, workers, want, held>>

CallRun ==
    /\ pc = "setup"
    /\ pc' = "check"
    /\ UNCHANGED <<now, queues, queueChan, runningSecondaryEvents, cur, workers,
                   want, held, scheduled>>

(* Schedule, called by the handler of w *)

ScheduleCall(w, t, secondary) ==
    /\ w \in workers
    /\ want[w.id] = NoEvent
    /\ scheduled < MaxEvents
    /\ t >= now
    /\ want' = [want EXCEPT ![w.id] =
                  [id |-> scheduled + 1, time |-> t, secondary |-> secondary,
                   late |-> w.secondary /\ t = now]]
    /\ scheduled' = scheduled + 1
    /\ UNCHANGED <<now, queues, queueChan, runningSecondaryEvents, pc, cur,
                   workers, held>>

(* queue := <-e.queueChan *)
TakeQueue(w) ==
    /\ w \in workers
    /\ want[w.id] # NoEvent
    /\ held[w.id] = 0
    /\ LET k == want[w.id].secondary
       IN  /\ queueChan[k] # << >>
           /\ held' = [held EXCEPT ![w.id] = Head(queueChan[k])]
           /\ queueChan' = [queueChan EXCEPT ![k] = Tail(@)]
    /\ UNCHANGED <<now, queues, runningSecondaryEvents, pc, cur, workers, want,
                   scheduled>>

\* Mutant: the queue is not put back.
PutBackMutant(k, q) == UNCHANGED queueChan

PutBack(k, q) == queueChan' = [queueChan EXCEPT ![k] = Append(@, q)]

PushEvent(w) ==
    /\ w \in workers
    /\ held[w.id] # 0
    /\ LET k == want[w.id].secondary
           q == held[w.id]
       IN  /\ queues' = [queues EXCEPT ![k][q] = @ \cup {want[w.id]}]
           /\ PutBack(k, q)
    /\ want' = [want EXCEPT ![w.id] = NoEvent]
    /\ held' = [held EXCEPT ![w.id] = 0]
    /\ UNCHANGED <<now, runningSecondaryEvents, pc, cur, workers, scheduled>>

WorkerDone(w) ==
    /\ w \in workers
    /\ want[w.id] = NoEvent
    /\ workers' = workers \ {w}
    /\ UNCHANGED <<now, queues, queueChan, runningSecondaryEvents, pc, cur,
                   want, held, scheduled>>

-----------------------------------------------------------------------------
(* Run *)

InQueues(k) == UNION {queues[k][q] : q \in 1..NumQueues}

HasMoreEvents ==
    /\ pc = "check"
    /\ pc' = IF InQueues(FALSE) \cup InQueues(TRUE) = {}
             THEN "returned" ELSE "determine"
    /\ UNCHANGED <<now, queues, queueChan, runningSecondaryEvents, cur, workers,
                   want, held, scheduled>>

EarliestTime(k) ==
    IF InQueues(k) = {} THEN Never
    ELSE (CHOOSE e \in InQueues(k) : e \in Front(InQueues(k))).time

\* Mutant: at the same time secondary events go first.
SecondaryNextMutant == EarliestTime(TRUE) <= EarliestTime(FALSE)

SecondaryNext == EarliestTime(TRUE) < EarliestTime(FALSE)

DetermineWhatToRun ==
    /\ pc = "determine"
    /\ runningSecondaryEvents' = SecondaryNext
    /\ now' = EarliestTime(SecondaryNext)
    /\ pc' = "drain"
    /\ cur' = 1
    /\ UNCHANGED <<queues, queueChan, workers, want, held, scheduled>>

EmptyQueueChan ==
    /\ pc = "drain"
    /\ queueChan[runningSecondaryEvents] # << >>
    /\ queueChan' = [queueChan EXCEPT ![runningSecondaryEvents] = Tail(@)]
    /\ IF cur = NumQueues THEN pc' = "visit" /\ cur' = 1
                          ELSE cur' = cur + 1 /\ UNCHANGED pc
    /\ UNCHANGED <<now, queues, runningSecondaryEvents, workers, want, held,
                   scheduled>>

(* The queue being visited. *)
Visited == queues[runningSecondaryEvents][cur]

(* runEventWithTempWorker *)
StartWorker ==
    /\ pc = "visit"
    /\ \E e \in Front(Visited) :
          /\ e.time = now
          /\ queues' = [queues EXCEPT ![runningSecondaryEvents][cur] = @ \ {e}]
          /\ workers' = workers \cup {e}
    /\ UNCHANGED <<now, queueChan, runningSecondaryEvents, pc, cur, want, held,
                   scheduled>>

LeaveQueue ==
    /\ pc = "visit"
    /\ \A e \in Visited : e.time > now
    /\ Len(queueChan[runningSecondaryEvents]) < NumQueues
    /\ PutBack(runningSecondaryEvents, cur)
    /\ IF cur = NumQueues THEN pc' = "wait" /\ UNCHANGED cur
                          ELSE cur' = cur + 1 /\ UNCHANGED pc
    /\ UNCHANGED <<now, queues, runningSecondaryEvents, workers, want, held,
                   scheduled>>

\* Mutant: the round does not wait for its goroutines.
AllDoneMutant == TRUE

AllDone == workers = {}

WaitForWorkers ==
    /\ pc = "wait"
    /\ AllDone
    /\ pc' = "check"
    /\ UNCHANGED <<now, queues, queueChan, runningSecondaryEvents, cur, workers,
                   want, held, scheduled>>

-----------------------------------------------------------------------------
Init ==
    /\ now = 0
    /\ queues = [k \in BOOLEAN |-> [q \in 1..NumQueues |-> {}]]
    /\ queueChan = [k \in BOOLEAN |-> [q \in 1..NumQueues |-> q]]
    /\ runningSecondaryEvents = FALSE
    /\ pc = "setup"
    /\ cur = 1
    /\ workers = {}
    /\ want = [i \in Ids |-> NoEvent]
    /\ held = [i \in Ids |-> 0]
    /\ scheduled = 0

RunStep ==
    \/ CallRun \/ HasMoreEvents \/ DetermineWhatToRun \/ EmptyQueueChan \/ StartWorker
    \/ LeaveQueue \/ WaitForWorkers

WorkerStep(w) == TakeQueue(w) \/ PushEvent(w) \/ WorkerDone(w)

ScheduleStep ==
    \E t \in 0..MaxTime, k \in BOOLEAN :
       ScheduleBefore(t, k) \/ \E w \in workers : ScheduleCall(w, t, k)

Next == RunStep \/ ScheduleStep \/ \E w \in workers : WorkerStep(w)

Spec == Init /\ [][Next]_vars

(* The goroutine in Run and the workers are scheduled, a channel hands out  *)
(* its queues first come first served, and a handler returns.               *)
FairSpec ==
    /\ Spec
    /\ WF_vars(RunStep)
    /\ \A i \in Ids : SF_vars(\E w \in workers : w.id = i /\ WorkerStep(w))

-----------------------------------------------------------------------------
(* Properties *)

InChan(k) == {queueChan[k][n] : n \in DOMAIN queueChan[k]}

(* A queue has one owner: the channel, the goroutine in Run or one worker,  *)
(* and each queue is in one of these places.  So nobody touches a queue     *)
(* that somebody else uses, and putting a queue back never blocks.          *)
HeldByRun(k) ==
    IF k # runningSecondaryEvents THEN {}
    ELSE CASE pc = "drain" -> {q \in 1..NumQueues : q \notin InChan(k)}
           [] pc = "visit" -> cur..NumQueues
           [] OTHER -> {}

HeldByWorkers(k) == {held[w.id] : w \in {x \in workers : /\ held[x.id] # 0
                                                        /\ want[x.id].secondary = k}}

OneOwner ==
    \A k \in BOOLEAN :
       /\ \A m, n \in DOMAIN queueChan[k] : queueChan[k][m] = queueChan[k][n] => m = n
       /\ \A v, w \in workers :
             /\ held[v.id] # 0 /\ held[v.id] = held[w.id]
             /\ want[v.id].secondary = want[w.id].secondary
             => v = w
       /\ pc = "drain" /\ k = runningSecondaryEvents
             => Len(queueChan[k]) = NumQueues - cur + 1
       /\ HeldByRun(k) \cap HeldByWorkers(k) = {}
       /\ InChan(k) \cap (HeldByRun(k) \cup HeldByWorkers(k)) = {}
       /\ InChan(k) \cup HeldByRun(k) \cup HeldByWorkers(k) = 1..NumQueues

(* The event loop is an event engine: no event is lost, handled twice, early *)
(* or late.                                                                  *)
Engine == INSTANCE EventEngine WITH
            pending <- InQueues(FALSE) \cup InQueues(TRUE),
            handling <- workers,
            run <- IF pc = "setup" THEN "before"
                   ELSE IF pc = "returned" THEN "returned" ELSE "called"

IsEngine == Engine!Spec

(* "Secondary event are handled after all same-time primary events are      *)
(* handled" (sim/event.go), with the exception ParallelEngine makes: a       *)
(* primary event goes after a secondary one of its time if a secondary event *)
(* of that time scheduled it.                                                *)
SecondaryAfterEarlierPrimary ==
    [][\A e \in workers' \ workers : e.secondary =>
          \A x \in InQueues(FALSE) : x.time > e.time \/ (x.time = e.time /\ x.late)]_vars

(* Run returns once the handlers schedule no more events. *)
RunReturns == <>(pc = "returned")

=============================================================================
