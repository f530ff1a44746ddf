-------------------------- MODULE EngineControlProofs --------------------------
(* Proofs about EngineControl, for any number of goroutines and components. *)
EXTENDS EngineControl, SequenceTheorems, WellFoundedInduction, TLAPS

(* pauseLock of the serial engine is held by the pause or by one goroutine  *)
(* in Run, never both.                                                      *)
PauseInv == serial /\ PauseLockHeld /\ PausedIsStill

RpcOK == rpc \in [Runners -> {"start", "check", "acquire", "pick", "handle", "returned"}]

LEMMA InitPause == Init /\ serial => RpcOK /\ PauseInv
  BY DEF Init, RpcOK, PauseInv, PauseLockHeld, PausedIsStill, HandlingEvents

(* What every step of a goroutine in Run does to the lock. *)
LEMMA RunStepPause ==
    ASSUME RpcOK, PauseInv, NEW r \in Runners, RunStep(r)
    PROVE  RpcOK' /\ PauseInv'
<1>0. serial' = serial
  BY DEF RunStep
<1> USE <1>0 DEF RpcOK, PauseInv, PauseLockHeld, PausedIsStill, HandlingEvents
<1>1. CASE EnterRun(r)
  BY <1>1 DEF EnterRun
<1>2. CASE CheckMore(r)
  BY <1>2 DEF CheckMore
<1>3. CASE AcquirePause(r)
  BY <1>3 DEF AcquirePause
<1>4. CASE PickEvent(r)
  BY <1>4 DEF PickEvent, lockVars
<1>5. CASE PickRound(r)
  BY <1>5 DEF PickRound
<1>6. CASE \E c \in Comps : Handle(r, c)
  BY <1>6 DEF Handle, lockVars
<1>7. CASE ReleasePause(r)
  BY <1>7 DEF ReleasePause
<1> QED
  BY <1>1, <1>2, <1>3, <1>4, <1>5, <1>6, <1>7 DEF RunStep

(* What every request of the monitor does to the lock. *)
LEMMA ClientStepPause ==
    ASSUME RpcOK, PauseInv, NEW u \in Clients, ClientStep(u)
    PROVE  RpcOK' /\ PauseInv'
<1>0. serial' = serial
  BY DEF ClientStep
<1> USE <1>0 DEF RpcOK, PauseInv, PauseLockHeld, PausedIsStill, HandlingEvents
<1>1. CASE PauseEnter(u)
  BY <1>1 DEF PauseEnter, runVars
<1>2. CASE PauseDone(u)
  BY <1>2 DEF PauseDone, runVars
<1>3. CASE ContinueSerial(u)
  BY <1>3 DEF ContinueSerial, Unpause, runVars
<1>4. CASE PauseParallel(u) \/ ContinueParallel(u)
  BY <1>4 DEF PauseParallel, ContinueParallel
<1>5. CASE TickRead(u) \/ TickLater(u) \/ ScheduleCheck(u) \/ SchedulePush(u)
  <2>1. UNCHANGED <<rpc, pauseLock, isPaused>>
    BY <1>5 DEF TickRead, TickLater, ScheduleCheck, SchedulePush, runVars, lockVars
  <2> QED
    BY <2>1
<1> QED
  BY <1>1, <1>2, <1>3, <1>4, <1>5 DEF ClientStep

(* The lock discipline of the serial engine is an inductive invariant.      *)
SerialInv == serial => RpcOK /\ PauseInv

LEMMA SerialPause == Spec => []SerialInv
<1>1. Init => SerialInv
  BY InitPause DEF SerialInv
<1>2. SerialInv /\ [Next]_vars => SerialInv'
  <2> SUFFICES ASSUME SerialInv, [Next]_vars PROVE SerialInv'
    OBVIOUS
  <2>1. CASE ~serial
    BY <2>1 DEF SerialInv, Next, RunStep, ClientStep, vars
  <2>2. CASE serial /\ UNCHANGED vars
    BY <2>2 DEF SerialInv, vars, lockVars, runVars, RpcOK, PauseInv, PauseLockHeld,
                PausedIsStill, HandlingEvents
  <2>3. CASE serial /\ Next
    BY <2>3, RunStepPause, ClientStepPause DEF Next, SerialInv
  <2> QED
    BY <2>1, <2>2, <2>3
<1> QED
  BY <1>1, <1>2, PTL DEF Spec

(* However many goroutines call Run, Pause and Continue, the serial engine  *)
(* handles events in one of them at a time, with pauseLock held.            *)
THEOREM SerialPauseLock == Spec => []PauseLockHeld
<1>1. SerialInv => PauseLockHeld
  BY DEF SerialInv, PauseInv, PauseLockHeld
<1> QED
  BY <1>1, SerialPause, PTL

(* A paused serial engine handles no event, however the goroutines that     *)
(* call Run, Pause and Continue interleave.                                 *)
THEOREM SerialPausedIsStill == Spec => []PausedIsStill
<1>1. SerialInv => PausedIsStill
  BY DEF SerialInv, PauseInv, PausedIsStill
<1> QED
  BY <1>1, SerialPause, PTL

-----------------------------------------------------------------------------
(* No crash of the parallel engine *)

Requests == {"pause", "continue", "tick"}
OnTick(u) == cpc[u] \in {"ticking", "scheduling", "pushing"}

ControlTyped ==
    /\ RpcOK
    /\ time \in Nat
    /\ queue \subseteq [handler : Comps, time : Nat]
    /\ script \in [Clients -> Seq(Requests)]
    /\ cpc \in [Clients -> {"idle", "ticking", "scheduling", "pushing"}]
    /\ target \in [Clients -> (Comps \X Nat) \cup {<< >>}]

(* A client u has the engine paused: it holds pauseLock and no Run does.    *)
(* What it asks for next pairs with that, and the tick it is making is      *)
(* later than the time, which stands still.                                 *)
Behaves(u, has) ==
    /\ Pairs(script[u], has)
    /\ has => pauseLock /\ ~HandlingEvents
    /\ OnTick(u) =>
        /\ has /\ script[u] # << >> /\ Head(script[u]) = "tick"
        /\ target[u] \in Comps \X Nat /\ target[u][2] > time

OneRun ==
    /\ HandlingEvents => pauseLock
    /\ \A r, s \in Runners : /\ rpc[r] \in {"pick", "handle"}
                             /\ rpc[s] \in {"pick", "handle"}
                             => r = s

ControlInv ==
    /\ ControlTyped /\ OneRun /\ NoCrash
    /\ \E has \in [Clients -> BOOLEAN] :
        /\ \A u \in Clients : Behaves(u, has[u])
        /\ \A u, v \in Clients : has[u] /\ has[v] => u = v

(* What Pairs says of the first request. *)
LEMMA PairsFirst ==
    ASSUME NEW s \in Seq(Requests), s # << >>, NEW b \in BOOLEAN, Pairs(s, b)
    PROVE  /\ b = (Head(s) # "pause")
           /\ Pairs(Tail(s), Head(s) # "continue")
<1>1. PICK h \in [1..(Len(s) + 1) -> BOOLEAN] :
        /\ h[1] = b
        /\ \A n \in 1..Len(s) : /\ h[n] = (s[n] # "pause")
                                /\ h[n + 1] = (s[n] # "continue")
  BY DEF Pairs
<1>2. /\ Len(s) \in Nat /\ Len(s) >= 1 /\ Head(s) = s[1]
      /\ Len(Tail(s)) = Len(s) - 1
      /\ \A n \in 1..Len(Tail(s)) : Tail(s)[n] = s[n + 1]
  <2>1. Len(s) \in Nat /\ Len(s) # 0
    BY EmptySeq, LenProperties
  <2>2. Tail(s) \in Seq(Requests) /\ Len(Tail(s)) = Len(s) - 1
    BY HeadTailProperties
  <2>3. \A n \in 1..Len(Tail(s)) : Tail(s)[n] = s[n + 1]
    BY <2>1, <2>2, HeadTailProperties
  <2> QED
    BY <2>1, <2>2, <2>3
<1> DEFINE g == [n \in 1..(Len(Tail(s)) + 1) |-> h[n + 1]]
<1>3. g \in [1..(Len(Tail(s)) + 1) -> BOOLEAN]
  BY <1>2
<1>4. h[1] = (s[1] # "pause") /\ h[2] = (s[1] # "continue")
  BY <1>1, <1>2
<1>5. g[1] = h[2]
  BY <1>2
<1>6. ASSUME NEW n \in 1..Len(Tail(s))
      PROVE  /\ g[n] = (Tail(s)[n] # "pause")
             /\ g[n + 1] = (Tail(s)[n] # "continue")
  <2>1. n + 1 \in 1..Len(s) /\ Tail(s)[n] = s[n + 1]
    BY <1>2
  <2>2. /\ h[n + 1] = (s[n + 1] # "pause")
        /\ h[n + 1 + 1] = (s[n + 1] # "continue")
    BY <1>1, <2>1
  <2>3. g[n] = h[n + 1] /\ g[n + 1] = h[n + 1 + 1]
    BY <1>2
  <2> QED
    BY <2>1, <2>2, <2>3
<1>7. Pairs(Tail(s), Head(s) # "continue")
  <2> HIDE DEF g
  <2>1. g[1] = (Head(s) # "continue")
    BY <1>2, <1>4, <1>5
  <2> QED
    BY <1>3, <1>6, <2>1 DEF Pairs
<1> QED
  BY <1>1, <1>2, <1>4, <1>7

(* A component's next cycle comes after the time. *)
LEMMA NextTickIsLater ==
    ASSUME NEW c \in Comps, NEW t \in Nat
    PROVE  NextTick(c, t) \in Nat /\ NextTick(c, t) > t
<1> DEFINE p == Period[c]
           q == t \div p
<1>1. p \in Nat /\ p > 0
  BY ControlAssumption
<1> HIDE DEF p
<1>2. q \in Nat /\ t < p * (q + 1)
  BY <1>1
<1> HIDE DEF q
<1>3. (q + 1) * p \in Nat /\ (q + 1) * p > t
  BY <1>1, <1>2
<1> QED
  BY <1>3 DEF NextTick, p, q

(* A set of times has a first one. *)
LEMMA TimesHaveFirst ==
    ASSUME NEW T \in SUBSET Nat, T # {}
    PROVE  \E x \in T : \A y \in T : x <= y
<1>1. IsWellFoundedOn(OpToRel(<, Nat), Nat)
  BY NatLessThanWellFounded
<1>2. PICK x \in T : \A y \in T : ~ (<<y, x>> \in OpToRel(<, Nat))
  BY <1>1, WFMin
<1>3. \A y \in T : ~(y < x)
  BY <1>2 DEF OpToRel
<1> QED
  BY <1>3

(* The time of a round. *)
LEMMA EarliestTimeTyped ==
    ASSUME queue \subseteq [handler : Comps, time : Nat]
    PROVE  EarliestTime \in Nat
<1>1. CASE queue = {}
  BY <1>1, ControlAssumption DEF EarliestTime
<1>2. CASE queue # {}
  <2> DEFINE T == {e.time : e \in queue}
  <2>1. T \in SUBSET Nat /\ T # {}
    BY <1>2
  <2>4. PICK x \in T : \A y \in T : x <= y
    BY <2>1, TimesHaveFirst
  <2>5. \E e \in queue : Earliest(e)
    BY <2>4 DEF Earliest
  <2>6. (CHOOSE e \in queue : Earliest(e)) \in queue
    BY <2>5
  <2> QED
    BY <1>2, <2>6 DEF EarliestTime
<1> QED
  BY <1>1, <1>2

LEMMA ControlInit ==
    ASSUME ~serial, \A s \in Scripts[FALSE] : Pairs(s, FALSE), Init
    PROVE  ControlInv
<1>1. ControlTyped
  <2>1. Scripts[serial] \subseteq Seq(Requests)
    <3>1. {"pause", "continue"} \cup {"tick"} = Requests
      BY DEF Requests
    <3>2. serial = FALSE
      BY DEF Init
    <3>3. Scripts[FALSE] \subseteq Seq({"pause", "continue"} \cup {"tick"})
      BY ControlAssumption
    <3> QED
      BY <3>1, <3>2, <3>3
  <2>2. script \in [Clients -> Seq(Requests)]
    BY <2>1 DEF Init
  <2>3. queue \subseteq [handler : Comps, time : Nat]
    BY NextTickIsLater DEF Init, Event
  <2> QED
    BY <2>2, <2>3 DEF Init, ControlTyped, RpcOK
<1>2. OneRun /\ NoCrash
  BY DEF Init, OneRun, HandlingEvents, NoCrash
<1> DEFINE has == [u \in Clients |-> FALSE]
<1>3. ASSUME NEW u \in Clients PROVE Behaves(u, FALSE)
  BY DEF Init, Behaves, OnTick
<1>4. /\ has \in [Clients -> BOOLEAN]
      /\ \A u \in Clients : Behaves(u, has[u])
      /\ \A u, v \in Clients : has[u] /\ has[v] => u = v
  BY <1>3
<1> QED
  BY <1>1, <1>2, <1>4 DEF ControlInv

(* A step of a goroutine in Run: it moves the time or takes the lock only   *)
(* when no client has the engine paused.                                    *)
LEMMA ControlRunStep ==
    ASSUME ~serial, ControlInv, NEW r \in Runners, RunStep(r)
    PROVE  ControlInv'
<1> USE DEF ControlInv
<1>1. PICK has \in [Clients -> BOOLEAN] :
        /\ \A u \in Clients : Behaves(u, has[u])
        /\ \A u, v \in Clients : has[u] /\ has[v] => u = v
  OBVIOUS
<1>2. UNCHANGED <<script, cpc, target>>
  BY DEF RunStep, EnterRun, CheckMore, AcquirePause, PickEvent, PickRound,
         Handle, ReleasePause, clientVars
<1>3. ControlTyped' /\ OneRun' /\ NoCrash'
  <2> USE DEF ControlTyped, RpcOK, OneRun, HandlingEvents, NoCrash
  <2>1. CASE EnterRun(r)
    BY <1>2, <2>1 DEF EnterRun, engineVars
  <2>2. CASE CheckMore(r)
    BY <1>2, <2>2 DEF CheckMore, engineVars
  <2>3. CASE AcquirePause(r)
    BY <1>2, <2>3 DEF AcquirePause, engineVars
  <2>4. CASE PickRound(r)
    <3>1. EarliestTime \in Nat
      BY EarliestTimeTyped
    <3> QED
      BY <1>2, <2>4, <3>1 DEF PickRound, lockVars
  <2>5. CASE \E c \in Comps : Handle(r, c)
    <3>1. PICK c \in Comps : Handle(r, c)
      BY <2>5
    <3>2. Event(c, NextTick(c, time)) \in [handler : Comps, time : Nat]
      BY NextTickIsLater DEF Event
    <3>3. queue' \subseteq queue \cup {Event(c, NextTick(c, time))}
      BY <3>1 DEF Handle
    <3>4. UNCHANGED <<time, rpc, pauseLock, crashed>>
      BY <3>1 DEF Handle, lockVars
    <3> QED
      BY <1>2, <3>2, <3>3, <3>4
  <2>6. CASE ReleasePause(r)
    BY <1>2, <2>6 DEF ReleasePause, engineVars
  <2> QED
    BY <2>1, <2>2, <2>3, <2>4, <2>5, <2>6 DEF RunStep, PickEvent
<1>4. ASSUME NEW u \in Clients, has[u]
      PROVE  pauseLock' /\ ~HandlingEvents' /\ time' = time
  <2>1. pauseLock /\ ~HandlingEvents
    BY <1>1, <1>4 DEF Behaves
  <2>2. rpc[r] \notin {"pick", "handle"}
    BY <2>1 DEF HandlingEvents
  <2>3. EnterRun(r) \/ CheckMore(r)
    BY <2>1, <2>2 DEF RunStep, AcquirePause, PickEvent, PickRound, Handle,
                      ReleasePause
  <2> QED
    BY <2>1, <2>3 DEF EnterRun, CheckMore, engineVars, HandlingEvents,
                      ControlTyped, RpcOK
<1>5. ASSUME NEW u \in Clients PROVE Behaves(u, has[u])'
  BY <1>1, <1>2, <1>4 DEF Behaves, OnTick
<1> QED
  BY <1>1, <1>3, <1>5

(* What a client does is between its own pause and continue. *)
LEMMA ControlClientStep ==
    ASSUME ~serial, ControlInv, NEW u \in Clients, ClientStep(u)
    PROVE  ControlInv'
<1> USE DEF ControlInv
<1>1. PICK has \in [Clients -> BOOLEAN] :
        /\ \A v \in Clients : Behaves(v, has[v])
        /\ \A v, w \in Clients : has[v] /\ has[w] => v = w
  OBVIOUS
<1>2. UNCHANGED <<rpc, time>>
  BY DEF ClientStep, PauseEnter, PauseDone, ContinueSerial, PauseParallel,
         ContinueParallel, TickRead, TickLater, ScheduleCheck, SchedulePush,
         runVars, engineVars
<1>3. script[u] \in Seq(Requests)
  BY DEF ControlTyped
<1>4. ASSUME script[u] # << >>
      PROVE  /\ has[u] = (Head(script[u]) # "pause")
             /\ Pairs(Tail(script[u]), Head(script[u]) # "continue")
  BY <1>1, <1>3, <1>4, PairsFirst DEF Behaves
\* It is enough to show that u behaves and that the lock is still held by
\* the client that holds it.
<1>5. ASSUME NEW b \in BOOLEAN, Behaves(u, b)',
             ControlTyped', OneRun', NoCrash',
             \A v \in Clients \ {u} : UNCHANGED <<script[v], cpc[v], target[v]>>,
             \A v \in Clients \ {u} : has[v] => pauseLock' /\ ~b
      PROVE  ControlInv'
  <2> DEFINE had == [has EXCEPT ![u] = b]
  <2>1. had \in [Clients -> BOOLEAN]
    OBVIOUS
  <2>2. ASSUME NEW v \in Clients \ {u} PROVE Behaves(v, has[v])'
    BY <1>1, <1>2, <1>5 DEF Behaves, OnTick, HandlingEvents
  <2>3. \A v \in Clients : Behaves(v, had[v])'
    BY <1>5, <2>2
  <2>4. \A v, w \in Clients : had[v] /\ had[w] => v = w
    BY <1>1, <1>5
  <2> HIDE DEF had
  <2> QED
    BY <1>5, <2>1, <2>3, <2>4
\* What an answered request leaves of the script.
<1>6. ASSUME script[u] # << >>, Answer(u)
      PROVE  /\ script' \in [Clients -> Seq(Requests)]
             /\ cpc' \in [Clients -> {"idle", "ticking", "scheduling", "pushing"}]
             /\ script'[u] = Tail(script[u]) /\ cpc'[u] = "idle"
             /\ \A v \in Clients \ {u} : UNCHANGED <<script[v], cpc[v]>>
  <2>1. Tail(script[u]) \in Seq(Requests)
    BY <1>3, <1>6, HeadTailProperties
  <2> QED
    BY <1>6, <2>1 DEF Answer, ControlTyped
<1> USE DEF ControlTyped, RpcOK, OneRun, HandlingEvents, NoCrash
<1>7. CASE PauseParallel(u)
  <2>1. /\ script[u] # << >> /\ Head(script[u]) = "pause" /\ Answer(u)
        /\ ~pauseLock /\ pauseLock'
        /\ UNCHANGED <<time, queue, rpc, target, crashed>>
    BY <1>7 DEF PauseParallel, Asks, engineVars, runVars
  <2>2. Behaves(u, TRUE)'
    BY <1>4, <1>6, <2>1 DEF Behaves, OnTick
  <2>3. \A v \in Clients : ~has[v]
    BY <1>1, <2>1 DEF Behaves
  <2>4. ControlTyped' /\ OneRun' /\ NoCrash'
    BY <1>6, <2>1
  <2> HIDE DEF ControlInv, ControlTyped, OneRun, NoCrash
  <2> QED
    BY <1>5, <1>6, <2>1, <2>2, <2>3, <2>4
<1>8. CASE ContinueParallel(u)
  <2>1. /\ script[u] # << >> /\ Head(script[u]) = "continue" /\ Answer(u)
        /\ UNCHANGED <<time, queue, rpc, target>>
        /\ pauseLock' = FALSE
        /\ IF pauseLock THEN UNCHANGED crashed
                        ELSE crashed' = "unlock of unlocked mutex"
    BY <1>8 DEF ContinueParallel, Asks, engineVars, runVars
  <2>2. has[u] /\ pauseLock /\ ~HandlingEvents
    BY <1>1, <1>4, <2>1 DEF Behaves
  <2>3. Behaves(u, FALSE)'
    BY <1>4, <1>6, <2>1 DEF Behaves, OnTick
  <2>4. \A v \in Clients \ {u} : ~has[v]
    BY <1>1, <2>2
  <2>5. ControlTyped' /\ OneRun' /\ NoCrash'
    BY <1>6, <2>1, <2>2
  <2> HIDE DEF ControlInv, ControlTyped, OneRun, NoCrash
  <2> QED
    BY <1>5, <1>6, <2>1, <2>3, <2>4, <2>5
\* While u ticks a component it has the engine paused.
<1>9. ASSUME script[u] # << >>, Head(script[u]) = "tick", Behaves(u, TRUE)',
             ControlTyped', NoCrash', pauseLock' = pauseLock,
             \A v \in Clients \ {u} : UNCHANGED <<script[v], cpc[v], target[v]>>
      PROVE  ControlInv'
  <2>1. has[u]
    BY <1>4, <1>9
  <2>2. \A v \in Clients \ {u} : ~has[v]
    BY <1>1, <2>1
  <2>3. OneRun'
    BY <1>2, <1>9
  <2> HIDE DEF ControlInv, ControlTyped, OneRun, NoCrash
  <2> QED
    BY <1>5, <1>9, <2>2, <2>3
<1>10. CASE TickRead(u)
  <2>1. PICK c \in Comps :
          target' = [target EXCEPT ![u] = <<c, NextTick(c, time)>>]
    BY <1>10 DEF TickRead
  <2>2. /\ script[u] # << >> /\ Head(script[u]) = "tick"
        /\ cpc' = [cpc EXCEPT ![u] = "ticking"]
        /\ UNCHANGED <<time, queue, rpc, script, crashed, pauseLock>>
    BY <1>10 DEF TickRead, Asks, engineVars, runVars, lockVars
  <2>3. NextTick(c, time) \in Nat /\ NextTick(c, time) > time
    BY NextTickIsLater
  <2>4. Behaves(u, TRUE)
    BY <1>1, <1>4, <2>2
  <2>5. /\ target'[u] = <<c, NextTick(c, time)>>
        /\ target' \in [Clients -> (Comps \X Nat) \cup {<< >>}]
        /\ cpc'[u] = "ticking"
        /\ cpc' \in [Clients -> {"idle", "ticking", "scheduling", "pushing"}]
    BY <2>1, <2>2, <2>3
  <2>6. Behaves(u, TRUE)'
    <3>1. target'[u] \in Comps \X Nat /\ target'[u][2] > time'
      BY <2>2, <2>3, <2>5
    <3>2. script'[u] = script[u] /\ pauseLock' = pauseLock /\ rpc' = rpc
      BY <2>2
    <3>3. Pairs(script'[u], TRUE) /\ pauseLock' /\ ~HandlingEvents'
      BY <2>4, <3>2 DEF Behaves
    <3> QED
      BY <2>2, <3>1, <3>2, <3>3 DEF Behaves
  <2>7. \A v \in Clients \ {u} : UNCHANGED <<script[v], cpc[v], target[v]>>
    BY <2>1, <2>2
  <2>8. ControlTyped' /\ NoCrash'
    BY <2>2, <2>5
  <2> HIDE DEF ControlInv, ControlTyped, NoCrash
  <2> QED
    BY <1>9, <2>2, <2>6, <2>7, <2>8
<1>11. ASSUME OnTick(u)
       PROVE  /\ script[u] # << >> /\ Head(script[u]) = "tick" /\ has[u]
              /\ target[u] \in Comps \X Nat /\ target[u][2] > time
              /\ Behaves(u, TRUE)
  BY <1>1, <1>4, <1>11 DEF Behaves
\* A tick goes on, or is answered.
<1>12. ASSUME OnTick(u), UNCHANGED <<time, rpc, pauseLock, target>>,
              queue' \subseteq [handler : Comps, time : Nat], NoCrash',
              \/ Answer(u)
              \/ /\ UNCHANGED script
                 /\ \E p \in {"scheduling", "pushing"} : cpc' = [cpc EXCEPT ![u] = p]
       PROVE  ControlInv'
  <2>1. CASE Answer(u)
    <3>1. Pairs(script'[u], TRUE)
      BY <1>4, <1>6, <1>11, <1>12, <2>1
    <3>2. Behaves(u, TRUE)'
      BY <1>6, <1>11, <1>12, <2>1, <3>1 DEF Behaves, OnTick
    <3>3. ControlTyped'
      BY <1>6, <1>11, <1>12, <2>1
    <3>4. \A v \in Clients \ {u} : UNCHANGED <<script[v], cpc[v], target[v]>>
      BY <1>6, <1>11, <1>12, <2>1
    <3> HIDE DEF ControlInv, ControlTyped, NoCrash
    <3> QED
      BY <1>9, <1>11, <1>12, <3>2, <3>3, <3>4
  <2>2. CASE /\ UNCHANGED script
             /\ \E p \in {"scheduling", "pushing"} : cpc' = [cpc EXCEPT ![u] = p]
    <3>1. Behaves(u, TRUE)'
      BY <1>11, <1>12, <2>2 DEF Behaves, OnTick
    <3>2. ControlTyped'
      BY <1>12, <2>2
    <3>3. \A v \in Clients \ {u} : UNCHANGED <<script[v], cpc[v], target[v]>>
      BY <1>12, <2>2
    <3> HIDE DEF ControlInv, ControlTyped, NoCrash
    <3> QED
      BY <1>9, <1>11, <1>12, <3>1, <3>2, <3>3
  <2> QED
    BY <1>12, <2>1, <2>2
<1>13. CASE TickLater(u)
  <2>1. OnTick(u)
    BY <1>13 DEF TickLater, OnTick
  <2>2. /\ UNCHANGED <<time, queue, rpc, pauseLock, target, crashed>>
        /\ \/ Answer(u)
           \/ UNCHANGED script /\ cpc' = [cpc EXCEPT ![u] = "scheduling"]
    BY <1>13 DEF TickLater, runVars
  <2>3. queue' \subseteq [handler : Comps, time : Nat] /\ NoCrash'
    BY <2>2
  <2> HIDE DEF ControlInv, ControlTyped, NoCrash
  <2> QED
    BY <1>12, <2>1, <2>2, <2>3
<1>14. CASE ScheduleCheck(u)
  <2>1. OnTick(u)
    BY <1>14 DEF ScheduleCheck, OnTick
  <2>2. UNCHANGED <<time, queue, rpc, pauseLock, target, script>>
    BY <1>14 DEF ScheduleCheck, engineVars, runVars, lockVars
  <2>3. crashed' = crashed
    <3>1. target[u][2] \in Nat /\ target[u][2] > time
      BY <1>11, <2>1
    <3>2. ~(target[u][2] < time)
      BY <3>1
    <3> QED
      BY <1>14, <3>2 DEF ScheduleCheck
  <2>4. cpc' = [cpc EXCEPT ![u] = "pushing"]
    BY <1>14 DEF ScheduleCheck
  <2>5. queue' \subseteq [handler : Comps, time : Nat] /\ NoCrash'
    BY <2>2, <2>3
  <2> HIDE DEF ControlInv, ControlTyped, NoCrash
  <2> QED
    BY <1>12, <2>1, <2>2, <2>4, <2>5
<1>15. CASE SchedulePush(u)
  <2>1. OnTick(u)
    BY <1>15 DEF SchedulePush, OnTick
  <2>2. queue' \subseteq [handler : Comps, time : Nat]
    BY <1>11, <1>15, <2>1 DEF SchedulePush, Event
  <2>3. UNCHANGED <<time, rpc, pauseLock, target, crashed>> /\ Answer(u)
    BY <1>15 DEF SchedulePush, runVars
  <2>4. NoCrash'
    BY <2>3
  <2> HIDE DEF ControlInv, ControlTyped, NoCrash
  <2> QED
    BY <1>12, <2>1, <2>2, <2>3, <2>4
<1>16. ~PauseEnter(u) /\ ~PauseDone(u) /\ ~ContinueSerial(u)
  BY DEF PauseEnter, PauseDone, ContinueSerial
<1> QED
  BY <1>7, <1>8, <1>10, <1>13, <1>14, <1>15, <1>16 DEF ClientStep

-----------------------------------------------------------------------------
(* No crash of the serial engine *)

(* All events are in the future, and nobody ticks components. *)
SerialSafe ==
    /\ RpcOK /\ PauseInv /\ NoCrash
    /\ time \in Nat
    /\ queue \subseteq [handler : Comps, time : Nat]
    /\ \A e \in queue : e.time >= time
    /\ script \in [Clients -> Seq({"pause", "continue"})]
    /\ cpc \in [Clients -> {"idle", "pausing"}]
    /\ \A u \in Clients : cpc[u] = "pausing" => script[u] # << >>

LEMMA SerialSafeInit ==
    ASSUME serial, Scripts[TRUE] \subseteq Seq({"pause", "continue"}), Init
    PROVE  SerialSafe
<1>1. queue \subseteq [handler : Comps, time : Nat] /\ \A e \in queue : e.time >= time
  BY NextTickIsLater DEF Init, Event
<1>2. script \in [Clients -> Seq({"pause", "continue"})]
  <2>1. serial = TRUE
    BY DEF Init
  <2> QED
    BY <2>1 DEF Init
<1> QED
  BY <1>1, <1>2, InitPause DEF Init, SerialSafe, NoCrash

(* The earliest event is handled, and handling it schedules later ones. *)
LEMMA SerialSafeRunStep ==
    ASSUME SerialSafe, NEW r \in Runners, RunStep(r)
    PROVE  SerialSafe'
<1>1. RpcOK' /\ PauseInv'
  BY RunStepPause DEF SerialSafe
<1>2. UNCHANGED <<script, cpc>>
  BY DEF RunStep, EnterRun, CheckMore, AcquirePause, PickEvent, PickRound,
         Handle, ReleasePause, clientVars
<1> USE DEF SerialSafe, NoCrash
<1>3. CASE EnterRun(r) \/ CheckMore(r) \/ AcquirePause(r)
  BY <1>1, <1>2, <1>3 DEF EnterRun, CheckMore, AcquirePause, engineVars
<1>4. CASE PickEvent(r)
  <2>1. PICK e \in queue :
          /\ Earliest(e)
          /\ queue' = queue \ {e}
          /\ IF e.time < time
             THEN /\ crashed' = "cannot run event in the past"
                  /\ UNCHANGED <<time, round>>
             ELSE /\ time' = e.time
                  /\ round' = [round EXCEPT ![r] = {e.handler}]
                  /\ UNCHANGED crashed
    BY <1>4 DEF PickEvent
  <2>2. e.time \in Nat /\ ~(e.time < time)
    <3>1. e \in [handler : Comps, time : Nat] /\ e.time >= time /\ time \in Nat
      OBVIOUS
    <3> HIDE DEF SerialSafe
    <3> QED
      BY <3>1
  <2>3. time' = e.time /\ crashed' = crashed
    BY <2>1, <2>2
  <2>4. \A x \in queue' : x.time >= time'
    BY <2>1, <2>3 DEF Earliest
  <2>5. queue' \subseteq [handler : Comps, time : Nat]
    BY <2>1
  <2> QED
    BY <1>1, <1>2, <2>2, <2>3, <2>4, <2>5
<1>5. ~PickRound(r)
  BY DEF PickRound, PauseInv
<1>6. CASE \E c \in Comps : Handle(r, c)
  <2>1. PICK c \in Comps : Handle(r, c)
    BY <1>6
  <2>2. /\ Event(c, NextTick(c, time)) \in [handler : Comps, time : Nat]
        /\ Event(c, NextTick(c, time)).time >= time
    BY NextTickIsLater DEF Event
  <2>3. /\ queue' \subseteq queue \cup {Event(c, NextTick(c, time))}
        /\ UNCHANGED <<time, crashed>>
    BY <2>1 DEF Handle
  <2> QED
    BY <1>1, <1>2, <2>2, <2>3
<1>7. CASE ReleasePause(r)
  <2>1. pauseLock
    BY <1>7 DEF ReleasePause, PauseInv, PauseLockHeld, HandlingEvents
  <2>2. UNCHANGED <<time, queue, crashed>>
    BY <1>7, <2>1 DEF ReleasePause, engineVars
  <2> QED
    BY <1>1, <1>2, <2>2
<1> QED
  BY <1>3, <1>4, <1>5, <1>6, <1>7 DEF RunStep

(* Pause and Continue in any order leave the events alone. *)
LEMMA SerialSafeClientStep ==
    ASSUME SerialSafe, NEW u \in Clients, ClientStep(u)
    PROVE  SerialSafe'
<1>1. RpcOK' /\ PauseInv'
  BY ClientStepPause DEF SerialSafe
<1> USE DEF SerialSafe, NoCrash
<1>2. CASE TickRead(u)
  <2>1. script[u] # << >> /\ Head(script[u]) = "tick"
    BY <1>2 DEF TickRead, Asks
  <2>2. Head(script[u]) \in {"pause", "continue"}
    BY <2>1, HeadTailProperties
  <2> QED
    BY <2>1, <2>2
<1>3. ~TickLater(u) /\ ~ScheduleCheck(u) /\ ~SchedulePush(u)
  BY DEF TickLater, ScheduleCheck, SchedulePush
<1>4. ~PauseParallel(u) /\ ~ContinueParallel(u)
  BY DEF PauseParallel, ContinueParallel, PauseInv
<1>5. CASE PauseEnter(u) \/ PauseDone(u) \/ ContinueSerial(u)
  <2>1. UNCHANGED <<time, queue, crashed>>
    BY <1>5 DEF PauseEnter, PauseDone, ContinueSerial, engineVars
  <2>2. \/ Answer(u)
        \/ UNCHANGED script /\ cpc' = [cpc EXCEPT ![u] = "pausing"]
    BY <1>5 DEF PauseEnter, PauseDone, ContinueSerial
  <2>3. script[u] # << >>
    BY <1>5 DEF PauseEnter, PauseDone, ContinueSerial, Asks
  <2>4. /\ script' \in [Clients -> Seq({"pause", "continue"})]
        /\ cpc' \in [Clients -> {"idle", "pausing"}]
        /\ \A v \in Clients : cpc'[v] = "pausing" => script'[v] # << >>
    <3>1. CASE Answer(u)
      <4>1. Tail(script[u]) \in Seq({"pause", "continue"})
        BY <2>3, HeadTailProperties
      <4> QED
        BY <3>1, <4>1 DEF Answer
    <3> QED
      BY <2>2, <2>3, <3>1
  <2> QED
    BY <1>1, <2>1, <2>4
<1> QED
  BY <1>2, <1>3, <1>4, <1>5 DEF ClientStep

(* The engine meets none of its panics, and nobody unlocks a mutex that is  *)
(* not locked, however many goroutines call Run and however many clients    *)
(* make requests.  On the serial engine they may pause and continue in any  *)
(* order.  On the parallel one, whose Pause and Continue are bare lock      *)
(* operations, they may tick components, too, provided that every client    *)
(* continues what it has paused, once, and ticks only in between.           *)
THEOREM NeverCrashes ==
    /\ Scripts[TRUE] \subseteq Seq({"pause", "continue"})
    /\ \A s \in Scripts[FALSE] : Pairs(s, FALSE)
    => (Spec => []NoCrash)
<1> SUFFICES ASSUME Scripts[TRUE] \subseteq Seq({"pause", "continue"}),
                    \A s \in Scripts[FALSE] : Pairs(s, FALSE)
             PROVE  Spec => []NoCrash
  OBVIOUS
<1> DEFINE Inv == IF serial THEN SerialSafe ELSE ControlInv
<1>1. Init => Inv
  BY ControlInit, SerialSafeInit
<1>2. Inv /\ [Next]_vars => Inv'
  <2> SUFFICES ASSUME Inv, [Next]_vars PROVE Inv'
    OBVIOUS
  <2>1. serial' = serial
    BY DEF Next, RunStep, ClientStep, vars
  <2>2. CASE ~serial /\ UNCHANGED vars
    <3>1. UNCHANGED <<time, queue, rpc, script, cpc, target, pauseLock, crashed>>
      BY <2>2 DEF vars, engineVars, lockVars, runVars, clientVars
    <3>2. ControlInv'
      BY <2>2, <3>1 DEF ControlInv, ControlTyped, RpcOK, OneRun, HandlingEvents,
                        NoCrash, Behaves, OnTick
    <3> QED
      BY <2>1, <2>2, <3>2
  <2>3. CASE serial /\ UNCHANGED vars
    <3>1. SerialSafe'
      BY <2>3 DEF SerialSafe, vars, engineVars, lockVars, runVars, clientVars,
                  RpcOK, PauseInv, PauseLockHeld, PausedIsStill, HandlingEvents,
                  NoCrash
    <3> QED
      BY <2>1, <2>3, <3>1
  <2>4. CASE ~serial /\ Next
    <3>1. ControlInv'
      BY <2>4, ControlRunStep, ControlClientStep DEF Next
    <3> QED
      BY <2>1, <2>4, <3>1
  <2>5. CASE serial /\ Next
    <3>1. SerialSafe'
      BY <2>5, SerialSafeRunStep, SerialSafeClientStep DEF Next
    <3> QED
      BY <2>1, <2>5, <3>1
  <2> QED
    BY <2>2, <2>3, <2>4, <2>5
<1>3. Inv => NoCrash
  BY DEF ControlInv, SerialSafe
<1> HIDE DEF Inv
<1> QED
  BY <1>1, <1>2, <1>3, PTL DEF Spec
=============================================================================
