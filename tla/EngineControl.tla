---------------------------- MODULE EngineControl ----------------------------
(***************************************************************************)
(* The engine as its goroutines see it: the goroutines in Engine.Run and   *)
(* the HTTP goroutines of the monitor (monitoring/monitor.go) that pause   *)
(* and continue the engine, start Run and tick a component by hand.        *)
(* A step is what a goroutine does between two lock operations.            *)
(***************************************************************************)
EXTENDS Naturals, Sequences

CONSTANTS
    Comps,      \* ticking components
    Period,     \* the clock period of each component
    Runners,    \* goroutines that call Run
    Clients,    \* HTTP goroutines of the monitor
    Scripts,    \* what a client may ask for, for each of the engines: a set of
                \* sequences of requests
    MaxTime,    \* bound: a component makes progress only before this time
    Never       \* math.MaxFloat64, later than every event

ASSUME ControlAssumption ==
    /\ Period \in [Comps -> Nat \ {0}]
    /\ MaxTime \in Nat
    /\ Never \in Nat
    /\ Never > MaxTime
    /\ \A engine \in BOOLEAN :
          Scripts[engine] \subseteq Seq({"pause", "continue"} \cup {"tick"})

None == "none"

VARIABLES
    serial,         \* TRUE: SerialEngine, FALSE: ParallelEngine
    time,           \* SerialEngine.time, ParallelEngine.now
    queue,          \* the scheduled tick events
    nextTickTime,   \* TickScheduler of each component
    schedLock,      \* TickScheduler.lock: who holds it
    singleRunLock,  \* SerialEngine only
    pauseLock,      \* TRUE: locked.  A Go mutex does not know its holder
    isPaused,       \* SerialEngine only
    isPausedLock,   \* SerialEngine only: who holds it
    rpc,            \* what each goroutine in Run does next
    round,          \* the components whose event is being handled by a Run
    script,         \* requests still to be made by a client
    cpc,            \* what each client does next
    target,         \* <<component, time of its tick>> of a tick request
    crashed         \* why the process died, or "no"

engineVars == <<time, queue, nextTickTime>>
lockVars == <<schedLock, singleRunLock, pauseLock, isPaused, isPausedLock>>
runVars == <<rpc, round>>
clientVars == <<script, cpc, target>>
vars == <<serial, engineVars, lockVars, runVars, clientVars, crashed>>

Event(c, t) == [handler |-> c, time |-> t]

(* The first cycle of c after t. *)
NextTick(c, t) == (t \div Period[c] + 1) * Period[c]

-----------------------------------------------------------------------------
(* Run *)

(* The serial engine lets one goroutine in; the parallel one all of them. *)
EnterRun(r) ==
    /\ rpc[r] = "start"
    /\ serial => singleRunLock = FALSE
    /\ singleRunLock' = serial
    /\ rpc' = [rpc EXCEPT ![r] = "check"]
    /\ UNCHANGED <<engineVars, schedLock, pauseLock, isPaused, isPausedLock,
                   round, clientVars, crashed>>

CheckMore(r) ==
    /\ rpc[r] = "check"
    /\ \/ /\ queue = {}
          /\ rpc' = [rpc EXCEPT ![r] = "returned"]
          /\ singleRunLock' = FALSE
       \/ /\ queue # {}
          /\ rpc' = [rpc EXCEPT ![r] = "acquire"]
          /\ UNCHANGED singleRunLock
    /\ UNCHANGED <<engineVars, schedLock, pauseLock, isPaused, isPausedLock,
                   round, clientVars, crashed>>

\* Mutant: Run does not wait for the lock.
AcquirePauseMutant(r) ==
    /\ rpc[r] = "acquire"
    /\ pauseLock' = TRUE
    /\ rpc' = [rpc EXCEPT ![r] = "pick"]
    /\ UNCHANGED <<engineVars, schedLock, singleRunLock, isPaused, isPausedLock,
                   round, clientVars, crashed>>

AcquirePause(r) ==
    /\ rpc[r] = "acquire"
    /\ ~pauseLock
    /\ pauseLock' = TRUE
    /\ rpc' = [rpc EXCEPT ![r] = "pick"]
    /\ UNCHANGED <<engineVars, schedLock, singleRunLock, isPaused, isPausedLock,
                   round, clientVars, crashed>>

Earliest(e) == \A x \in queue : e.time <= x.time

(* SerialEngine: nextEvent, the check for an event in the past, writeNow.   *)
PickEvent(r) ==
    /\ serial
    /\ rpc[r] = "pick"
    /\ \E e \in queue :
          /\ Earliest(e)
          /\ queue' = queue \ {e}
          /\ IF e.time < time
             THEN /\ crashed' = "cannot run event in the past"
                  /\ UNCHANGED <<time, round>>
             ELSE /\ time' = e.time
                  /\ round' = [round EXCEPT ![r] = {e.handler}]
                  /\ UNCHANGED crashed
    /\ rpc' = [rpc EXCEPT ![r] = "handle"]
    /\ UNCHANGED <<nextTickTime, lockVars, clientVars>>

(* ParallelEngine: determineWhatToRun takes the earliest time, which is     *)
(* MaxFloat64 for empty queues; runEventsUntilConflict starts the round.    *)

EarliestTime ==
    IF queue = {} THEN Never ELSE (CHOOSE e \in queue : Earliest(e)).time

PickRound(r) ==
    /\ ~serial
    /\ rpc[r] = "pick"
    /\ time' = EarliestTime
    /\ round' = [round EXCEPT ![r] =
                    {c \in Comps : Event(c, EarliestTime) \in queue}]
    /\ queue' = {e \in queue : e.time # EarliestTime}
    /\ rpc' = [rpc EXCEPT ![r] = "handle"]
    /\ UNCHANGED <<nextTickTime, lockVars, clientVars, crashed>>

(* TickingComponent.Handle: a tick that makes progress asks for the next.   *)
Handle(r, c) ==
    /\ rpc[r] = "handle"
    /\ c \in round[r]
    /\ round' = [round EXCEPT ![r] = @ \ {c}]
    /\ \/ UNCHANGED <<nextTickTime, queue>>
       \/ /\ time < MaxTime
          /\ schedLock[c] = None
          /\ nextTickTime[c] < NextTick(c, time)
          /\ nextTickTime' = [nextTickTime EXCEPT ![c] = NextTick(c, time)]
          /\ queue' = queue \cup {Event(c, NextTick(c, time))}
    /\ UNCHANGED <<time, lockVars, rpc, clientVars, crashed>>

ReleasePause(r) ==
    /\ rpc[r] = "handle"
    /\ round[r] = {}
    /\ IF pauseLock THEN UNCHANGED crashed
                    ELSE crashed' = "unlock of unlocked mutex"
    /\ pauseLock' = FALSE
    /\ rpc' = [rpc EXCEPT ![r] = "check"]
    /\ UNCHANGED <<engineVars, schedLock, singleRunLock, isPaused, isPausedLock,
                   round, clientVars>>

-----------------------------------------------------------------------------
(* The monitor's requests *)

Asks(u, request) ==
    /\ cpc[u] = "idle"
    /\ script[u] # << >>
    /\ Head(script[u]) = request

Answer(u) ==
    /\ script' = [script EXCEPT ![u] = Tail(@)]
    /\ cpc' = [cpc EXCEPT ![u] = "idle"]

(* SerialEngine.Pause: isPausedLock is held while waiting for pauseLock. *)
PauseEnter(u) ==
    /\ serial
    /\ Asks(u, "pause")
    /\ isPausedLock = None
    /\ \/ /\ isPaused
          /\ Answer(u)
          /\ UNCHANGED isPausedLock
       \/ /\ ~isPaused
          /\ isPausedLock' = u
          /\ cpc' = [cpc EXCEPT ![u] = "pausing"]
          /\ UNCHANGED script
    /\ UNCHANGED <<engineVars, schedLock, singleRunLock, pauseLock, isPaused,
                   runVars, target, crashed>>

\* Mutant: Pause only raises the flag.
PauseDoneMutant(u) ==
    /\ cpc[u] = "pausing"
    /\ isPaused' = TRUE
    /\ isPausedLock' = None
    /\ Answer(u)
    /\ UNCHANGED <<engineVars, schedLock, singleRunLock, pauseLock, runVars,
                   target, crashed>>

\* Mutant: Pause keeps isPausedLock.
PauseDoneLeakMutant(u) ==
    /\ cpc[u] = "pausing"
    /\ ~pauseLock
    /\ pauseLock' = TRUE
    /\ isPaused' = TRUE
    /\ Answer(u)
    /\ UNCHANGED <<engineVars, schedLock, singleRunLock, isPausedLock, runVars,
                   target, crashed>>

PauseDone(u) ==
    /\ cpc[u] = "pausing"
    /\ ~pauseLock
    /\ pauseLock' = TRUE
    /\ isPaused' = TRUE
    /\ isPausedLock' = None
    /\ Answer(u)
    /\ UNCHANGED <<engineVars, schedLock, singleRunLock, runVars, target,
                   crashed>>

\* Mutant: Continue forgets the lock.
UnpauseMutant(u) == isPaused' = FALSE /\ UNCHANGED pauseLock

Unpause(u) == isPaused' = FALSE /\ pauseLock' = FALSE

ContinueSerial(u) ==
    /\ serial
    /\ Asks(u, "continue")
    /\ isPausedLock = None
    /\ \/ isPaused /\ Unpause(u)
       \/ ~isPaused /\ UNCHANGED <<isPaused, pauseLock>>
    /\ Answer(u)
    /\ UNCHANGED <<engineVars, schedLock, singleRunLock, isPausedLock, runVars,
                   target, crashed>>

(* ParallelEngine.Pause and Continue are the bare lock operations. *)
PauseParallel(u) ==
    /\ ~serial
    /\ Asks(u, "pause")
    /\ ~pauseLock
    /\ pauseLock' = TRUE
    /\ Answer(u)
    /\ UNCHANGED <<engineVars, schedLock, singleRunLock, isPaused, isPausedLock,
                   runVars, target, crashed>>

ContinueParallel(u) ==
    /\ ~serial
    /\ Asks(u, "continue")
    /\ IF pauseLock THEN UNCHANGED crashed
                    ELSE crashed' = "unlock of unlocked mutex"
    /\ pauseLock' = FALSE
    /\ Answer(u)
    /\ UNCHANGED <<engineVars, schedLock, singleRunLock, isPaused, isPausedLock,
                   runVars, target>>

(* Monitor.tick: TickLater(engine.CurrentTime()) for a component, then in   *)
(* TickLater the check of nextTickTime and in Schedule the check of time,   *)
(* both while the engine moves on.                                          *)
TickRead(u) ==
    /\ Asks(u, "tick")
    /\ \E c \in Comps : target' = [target EXCEPT ![u] = <<c, NextTick(c, time)>>]
    /\ cpc' = [cpc EXCEPT ![u] = "ticking"]
    /\ UNCHANGED <<engineVars, lockVars, runVars, script, crashed>>

TickLater(u) ==
    /\ cpc[u] = "ticking"
    /\ LET c == target[u][1]
           t == target[u][2]
       IN  /\ schedLock[c] = None
           /\ \/ /\ nextTickTime[c] >= t
                 /\ Answer(u)
                 /\ UNCHANGED <<nextTickTime, schedLock>>
              \/ /\ nextTickTime[c] < t
                 /\ nextTickTime' = [nextTickTime EXCEPT ![c] = t]
                 /\ schedLock' = [schedLock EXCEPT ![c] = u]
                 /\ cpc' = [cpc EXCEPT ![u] = "scheduling"]
                 /\ UNCHANGED script
    /\ UNCHANGED <<time, queue, singleRunLock, pauseLock, isPaused,
                   isPausedLock, runVars, target, crashed>>

ScheduleCheck(u) ==
    /\ cpc[u] = "scheduling"
    /\ crashed' = IF target[u][2] < time
                  THEN "scheduling an event earlier than current time"
                  ELSE crashed
    /\ cpc' = [cpc EXCEPT ![u] = "pushing"]
    /\ UNCHANGED <<engineVars, lockVars, runVars, script, target>>

SchedulePush(u) ==
    /\ cpc[u] = "pushing"
    /\ queue' = queue \cup {Event(target[u][1], target[u][2])}
    /\ schedLock' = [schedLock EXCEPT ![target[u][1]] = None]
    /\ Answer(u)
    /\ UNCHANGED <<time, nextTickTime, singleRunLock, pauseLock, isPaused,
                   isPausedLock, runVars, target, crashed>>

-----------------------------------------------------------------------------
Init ==
    /\ serial \in BOOLEAN
    /\ time = 0
    /\ queue = {Event(c, NextTick(c, 0)) : c \in Comps}
    /\ nextTickTime = [c \in Comps |-> NextTick(c, 0)]
    /\ schedLock = [c \in Comps |-> None]
    /\ singleRunLock = FALSE
    /\ pauseLock = FALSE
    /\ isPaused = FALSE
    /\ isPausedLock = None
    /\ rpc = [r \in Runners |-> "start"]
    /\ round = [r \in Runners |-> {}]
    /\ script \in [Clients -> Scripts[serial]]
    /\ cpc = [u \in Clients |-> "idle"]
    /\ target = [u \in Clients |-> << >>]
    /\ crashed = "no"

RunStep(r) ==
    /\ UNCHANGED serial
    /\ \/ EnterRun(r) \/ CheckMore(r) \/ AcquirePause(r) \/ PickEvent(r)
       \/ PickRound(r) \/ (\E c \in Comps : Handle(r, c)) \/ ReleasePause(r)

ClientStep(u) ==
    /\ UNCHANGED serial
    /\ \/ PauseEnter(u) \/ PauseDone(u) \/ ContinueSerial(u)
       \/ PauseParallel(u) \/ ContinueParallel(u)
       \/ TickRead(u) \/ TickLater(u) \/ ScheduleCheck(u) \/ SchedulePush(u)

Next ==
    /\ crashed = "no"
    /\ (\E r \in Runners : RunStep(r)) \/ (\E u \in Clients : ClientStep(u))

Spec == Init /\ [][Next]_vars

(* Goroutines are scheduled, and a mutex is handed over eventually. *)
FairSpec ==
    /\ Spec
    /\ \A r \in Runners : SF_vars(crashed = "no" /\ RunStep(r))
    /\ \A u \in Clients : SF_vars(crashed = "no" /\ ClientStep(u))

-----------------------------------------------------------------------------
(* Properties *)

(* The variables have their types. *)
TypeOK ==
    /\ serial \in BOOLEAN
    /\ time \in Nat
    /\ queue \subseteq [handler : Comps, time : Nat]
    /\ nextTickTime \in [Comps -> Nat]
    /\ schedLock \in [Comps -> Clients \cup {None}]
    /\ singleRunLock \in BOOLEAN
    /\ pauseLock \in BOOLEAN
    /\ isPaused \in BOOLEAN
    /\ isPausedLock \in Clients \cup {None}
    /\ rpc \in [Runners -> {"start", "check", "acquire", "pick", "handle", "returned"}]
    /\ round \in [Runners -> SUBSET Comps]
    /\ cpc \in [Clients -> {"idle", "pausing", "ticking", "scheduling", "pushing"}]

(* Engine.Pause "will pause the simulation until continue is called": no    *)
(* event is being handled while the serial engine counts as paused.         *)
HandlingEvents == \E r \in Runners : rpc[r] \in {"pick", "handle"}

PausedIsStill == serial /\ isPaused => ~HandlingEvents

(* pauseLock of the serial engine is held by exactly one of them: a pause   *)
(* or one Run.                                                              *)
PauseLockHeld ==
    serial => /\ pauseLock <=> isPaused \/ HandlingEvents
              /\ \A r, s \in Runners : /\ rpc[r] \in {"pick", "handle"}
                                       /\ rpc[s] \in {"pick", "handle"}
                                       => r = s

(* A client that, from having the engine paused or not, ticks components   *)
(* only while it is and follows every Pause by one Continue.  The page has  *)
(* a button for each and does not enforce it (engine_control.ts).           *)
Pairs(s, paused) ==
    \E h \in [1..(Len(s) + 1) -> BOOLEAN] :
        /\ h[1] = paused
        /\ \A n \in 1..Len(s) :
            /\ h[n] = (s[n] # "pause")
            /\ h[n + 1] = (s[n] # "continue")

(* No goroutine meets one of the panics of the engine or unlocks a mutex    *)
(* that is not locked.                                                      *)
NoCrash == crashed = "no"

(* Every pause, continue and tick is answered; and so is every Run, unless  *)
(* the last word was Pause.  The clients of the parallel engine continue    *)
(* what they paused; of the serial one isPaused tells.                      *)
RequestsAnswered ==
    /\ <>(\A u \in Clients : script[u] = << >>)
    /\ <>[]~isPaused => <>(\A r \in Runners : rpc[r] = "returned")

=============================================================================
