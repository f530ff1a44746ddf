--------------------------- MODULE MessageDelivery ---------------------------
(***************************************************************************)
(* How a message travels from one component to another in Akita: the event *)
(* engine (sim/serialengine.go, sim/parallelengine.go), the tick schedulers*)
(* that decide when a component runs again (sim/ticker.go), the ports      *)
(* (sim/port.go), the direct connections (sim/directconnection.go) and the *)
(* agents of the acceptance tests as the components (noc/acceptance).      *)
(*                                                                         *)
(* A component that makes no progress in a tick is not ticked again until  *)
(* somebody wakes it up, so one wake-up dropped at the wrong moment stops  *)
(* the simulation with messages inside.  The flags portBusy and busy, the  *)
(* nextTickTime comparison that drops redundant ticks and the rule that    *)
(* connections tick after all the components of the same time make up the  *)
(* wake-up protocol that this module is about.                             *)
(***************************************************************************)
EXTENDS Integers, Sequences, FiniteSets, TLC

CONSTANTS
    Agents,     \* ticking components (primary tick events)
    Conns,      \* direct connections (secondary tick events)
    Ports,      \* every port of every agent
    Owner,      \* Owner[p]: the agent that owns port p
    ConnOf,     \* ConnOf[p]: the connection p is plugged in
    PortList,   \* PortList[k]: the ports of connection k, in PlugIn order
    PortCap,    \* PortCap[p]: capacity of the incoming buffer of p
    BufSize,    \* BufSize[p]: sourceSideBufSize given to PlugIn for p
    Period,     \* Period[h]: clock period of an agent or a connection
    Workloads,  \* the possible MsgsToSend of the agents at the start
    Parallel    \* TRUE: ParallelEngine, FALSE: SerialEngine

Handlers == Agents \cup Conns

\* Messages are identified by their id; src and dst are ports.
Messages == [id : Nat, src : Ports, dst : Ports]

ValidMsg(m) == m.src # m.dst /\ ConnOf[m.src] = ConnOf[m.dst]

ASSUME HandlersAssumption == Agents \cap Conns = {}
ASSUME TopologyAssumption ==
    /\ Owner \in [Ports -> Agents]
    /\ ConnOf \in [Ports -> Conns]
    /\ PortList \in [Conns -> Seq(Ports)]
    /\ \A p \in Ports : \E i \in 1..Len(PortList[ConnOf[p]]) :
            PortList[ConnOf[p]][i] = p
    /\ \A k \in Conns : \A i \in 1..Len(PortList[k]) :
            ConnOf[PortList[k][i]] = k
    /\ \A k \in Conns : \A i, j \in 1..Len(PortList[k]) :
            PortList[k][i] = PortList[k][j] => i = j
    /\ \A k \in Conns : PortList[k] # << >>
ASSUME CapacityAssumption ==
    /\ PortCap \in [Ports -> Nat \ {0}]
    /\ BufSize \in [Ports -> Nat \ {0}]
    /\ Period \in [Handlers -> Nat \ {0}]
    /\ Parallel \in BOOLEAN
\* What Test.GenerateMsgs guarantees of a workload: an agent sends from its
\* own ports, to a port of the same connection other than the source.
ASSUME WorkloadAssumption ==
    \A w \in Workloads :
        /\ w \in [Agents -> Seq(Messages)]
        /\ \A a \in Agents : \A i \in 1..Len(w[a]) :
                Owner[w[a][i].src] = a /\ ValidMsg(w[a][i])

VARIABLES
    now,            \* engine: time of the event being handled
    queue,          \* engine: primary events
    secondaryQueue, \* engine: secondary events
    nextTickTime,   \* tick schedulers
    pc,             \* handlers: what the running handler does next
    madeProgress,   \* handlers: the local variable of Tick
    MsgsToSend,     \* agents
    received,       \* what each port has handed to the Test, in order
    buf,            \* ports: incoming buffer
    portBusy,       \* ports: a delivery failed since the last Retrieve
    endBuf,         \* connection ends: outgoing buffer of a port
    endBusy,        \* connection ends: a Send failed since the last delivery
    nextPortID,     \* connections: round-robin start
    visited         \* connections: i, the ports visited in this Tick

engineVars == <<now, queue, secondaryQueue>>
portVars == <<buf, portBusy>>
connVars == <<endBuf, endBusy, nextPortID, visited>>
agentVars == <<MsgsToSend, received>>
vars == <<engineVars, nextTickTime, pc, madeProgress, portVars, connVars,
          agentVars>>

-----------------------------------------------------------------------------
(* Freq.NextTick: the tick after t, with the rounding to a tenth of a cycle *)
(* that absorbs floating-point noise (times are integers here).             *)
TenthsOfCycle(h, t) == (20 * t + Period[h]) \div (2 * Period[h])

NextTick(h, t) == (TenthsOfCycle(h, t) \div 10 + 1) * Period[h]

(* Events.  A tick event is its handler and its time; two equal tick events *)
(* never coexist since nextTickTime grows, so a queue is a set.  The heap   *)
(* compares times only: events of the same time leave in any order.         *)
Event(h, t) == [handler |-> h, time |-> t]

Earliest(e, q) == \A x \in q : e.time <= x.time

(* TickScheduler.TickNow for the handlers in nowSet and TickLater for those *)
(* in laterSet, with Engine.Schedule for the ones that are not dropped.     *)
TickTime(h, nowSet) == IF h \in nowSet THEN now ELSE NextTick(h, now)

Woken(nowSet, laterSet) ==
    {h \in nowSet \cup laterSet : nextTickTime[h] < TickTime(h, nowSet)}

ScheduleTicks(nowSet, laterSet) ==
    LET woken == Woken(nowSet, laterSet)
    IN  /\ nextTickTime' = [h \in Handlers |->
              IF h \in woken THEN TickTime(h, nowSet) ELSE nextTickTime[h]]
        /\ queue' = queue \cup
              {Event(h, TickTime(h, nowSet)) : h \in woken \cap Agents}
        /\ secondaryQueue' = secondaryQueue \cup
              {Event(h, TickTime(h, nowSet)) : h \in woken \cap Conns}

-----------------------------------------------------------------------------
(* The engine.  SerialEngine.Run handles one event at a time.  In a round   *)
(* of ParallelEngine.Run the events of one time and one class run together. *)
Idle(S) == \A h \in S : pc[h] = "idle"

RunPrimary(e) ==
    /\ e \in queue
    /\ \/ /\ Idle(Handlers)
          /\ Earliest(e, queue)
          /\ Earliest(e, secondaryQueue)
       \/ /\ Parallel
          /\ ~Idle(Agents)
          /\ e.time = now
    /\ now' = e.time
    /\ queue' = queue \ {e}
    /\ pc' = [pc EXCEPT ![e.handler] = "send"]
    /\ madeProgress' = [madeProgress EXCEPT ![e.handler] = FALSE]
    /\ UNCHANGED <<secondaryQueue, nextTickTime, portVars, connVars, agentVars>>

\* nextEvent and determineWhatToRun prefer the primary event of a tie.
PrimaryFirst(e) == \A x \in queue : e.time < x.time

RunSecondary(e) ==
    /\ e \in secondaryQueue
    /\ \/ /\ Idle(Handlers)
          /\ Earliest(e, secondaryQueue)
          /\ PrimaryFirst(e)
       \/ /\ Parallel
          /\ ~Idle(Conns)
          /\ e.time = now
    /\ now' = e.time
    /\ secondaryQueue' = secondaryQueue \ {e}
    /\ pc' = [pc EXCEPT ![e.handler] = "scan"]
    /\ madeProgress' = [madeProgress EXCEPT ![e.handler] = FALSE]
    /\ visited' = [visited EXCEPT ![e.handler] = 0]
    /\ UNCHANGED <<queue, nextTickTime, portVars, endBuf, endBusy, nextPortID,
                   agentVars>>

-----------------------------------------------------------------------------
(* Agent.send: one message per tick through LimitNumMsgPort.Send and        *)
(* DirectConnection.Send.  A full end remembers that it turned a Send down. *)
SendSkip(a) ==
    /\ MsgsToSend[a] = << >>
    /\ UNCHANGED <<engineVars, nextTickTime, madeProgress, portVars, connVars,
                   agentVars>>

\* Mutant: a message that does not fit is dropped.
SendFailMutant(a) ==
    /\ MsgsToSend[a] # << >>
    /\ LET p == Head(MsgsToSend[a]).src
       IN  Len(endBuf[p]) >= BufSize[p]
    /\ MsgsToSend' = [MsgsToSend EXCEPT ![a] = Tail(@)]
    /\ UNCHANGED <<engineVars, nextTickTime, madeProgress, portVars, connVars,
                   received>>

SendFail(a) ==
    /\ MsgsToSend[a] # << >>
    /\ LET p == Head(MsgsToSend[a]).src
       IN  /\ Len(endBuf[p]) >= BufSize[p]
           /\ endBusy' = [endBusy EXCEPT ![p] = TRUE]
    /\ UNCHANGED <<engineVars, nextTickTime, madeProgress, portVars, endBuf,
                   nextPortID, visited, agentVars>>

TickConn(k) == ScheduleTicks({k}, {})

SendOK(a) ==
    /\ MsgsToSend[a] # << >>
    /\ LET m == Head(MsgsToSend[a])
       IN  /\ Len(endBuf[m.src]) < BufSize[m.src]
           /\ endBuf' = [endBuf EXCEPT ![m.src] = Append(@, m)]
           /\ MsgsToSend' = [MsgsToSend EXCEPT ![a] = Tail(@)]
           /\ TickConn(ConnOf[m.src])
    /\ madeProgress' = [madeProgress EXCEPT ![a] = TRUE]
    /\ UNCHANGED <<now, received, portVars, endBusy, nextPortID, visited>>

Send(a) ==
    /\ pc[a] = "send"
    /\ pc' = [pc EXCEPT ![a] = "recv"]
    /\ SendSkip(a) \/ SendFail(a) \/ SendOK(a)

(* Agent.recv: LimitNumMsgPort.Retrieve on every port of the agent; the     *)
(* first one after a failed delivery ticks the connection.  The end of the  *)
(* tick is TickingComponent.Handle: progress means another tick.            *)
Arrived(a) == {p \in Ports : Owner[p] = a /\ buf[p] # << >>}

\* The connections to notify: those that failed to deliver to these ports.
Freed(got) == {ConnOf[p] : p \in {q \in got : portBusy[q]}}

Recv(a) ==
    /\ pc[a] = "recv"
    /\ pc' = [pc EXCEPT ![a] = "idle"]
    /\ LET got == Arrived(a)
           progress == madeProgress[a] \/ got # {}
       IN  /\ buf' = [p \in Ports |->
                        IF p \in got THEN Tail(buf[p]) ELSE buf[p]]
           /\ received' = [p \in Ports |->
                IF p \in got THEN Append(received[p], Head(buf[p]))
                             ELSE received[p]]
           /\ portBusy' = [p \in Ports |-> portBusy[p] /\ p \notin got]
           /\ madeProgress' = [madeProgress EXCEPT ![a] = progress]
           /\ ScheduleTicks(Freed(got), IF progress THEN {a} ELSE {})
    /\ UNCHANGED <<now, MsgsToSend, connVars>>

-----------------------------------------------------------------------------
(* DirectConnection.Tick visits the ports once, starting at nextPortID.     *)
Current(k) ==
    PortList[k][((visited[k] + nextPortID[k]) % Len(PortList[k])) + 1]

Visiting(k) == pc[k] = "scan" /\ visited[k] < Len(PortList[k])

(* One turn of the loop of forwardMany: the head is accepted by Recv of its *)
(* destination, whose owner is notified, and so is a sender turned down.    *)
\* Mutant: the sender that was turned down is not notified.
TurnedDownMutant(p) == {}

TurnedDown(p) == IF endBusy[p] THEN {Owner[p]} ELSE {}

Deliver(k) ==
    /\ Visiting(k)
    /\ LET p == Current(k)
           m == Head(endBuf[p])
       IN  /\ endBuf[p] # << >>
           /\ Len(buf[m.dst]) < PortCap[m.dst]
           /\ buf' = [buf EXCEPT ![m.dst] = Append(@, m)]
           /\ endBuf' = [endBuf EXCEPT ![p] = Tail(@)]
           /\ endBusy' = [endBusy EXCEPT ![p] = FALSE]
           /\ ScheduleTicks({}, {Owner[m.dst]} \cup TurnedDown(p))
    /\ madeProgress' = [madeProgress EXCEPT ![k] = TRUE]
    /\ UNCHANGED <<now, pc, portBusy, nextPortID, visited, agentVars>>

(* The other ways out of that loop: nothing left, or the destination is     *)
(* full and remembers it.                                                   *)
\* Mutant: a full port does not remember the failed delivery.
RefuseMutant(d) == Len(buf[d]) >= PortCap[d] /\ UNCHANGED portBusy

Refuse(d) ==
    /\ Len(buf[d]) >= PortCap[d]
    /\ portBusy' = [portBusy EXCEPT ![d] = TRUE]

\* Mutant: the loop does not end at a full port.
NextPortMutant(k) ==
    visited' = [visited EXCEPT ![k] = @ + IF endBuf[Current(k)] = << >> THEN 1 ELSE 0]

NextPort(k) == visited' = [visited EXCEPT ![k] = @ + 1]

LeavePort(k) ==
    /\ Visiting(k)
    /\ \/ endBuf[Current(k)] = << >> /\ UNCHANGED portBusy
       \/ endBuf[Current(k)] # << >> /\ Refuse(Head(endBuf[Current(k)]).dst)
    /\ NextPort(k)
    /\ UNCHANGED <<engineVars, nextTickTime, pc, madeProgress, buf, endBuf,
                   endBusy, nextPortID, agentVars>>

(* The end of Tick and TickingComponent.Handle of the connection.           *)
EndTick(k) ==
    /\ pc[k] = "scan"
    /\ visited[k] = Len(PortList[k])
    /\ pc' = [pc EXCEPT ![k] = "idle"]
    /\ nextPortID' = [nextPortID EXCEPT ![k] = (@ + 1) % Len(PortList[k])]
    /\ ScheduleTicks({}, IF madeProgress[k] THEN {k} ELSE {})
    /\ UNCHANGED <<now, madeProgress, portVars, endBuf, endBusy, visited,
                   agentVars>>

-----------------------------------------------------------------------------
(* Every agent is kicked with TickLater(0) before the engine runs.          *)
Init ==
    /\ now = 0
    /\ queue = {Event(a, NextTick(a, 0)) : a \in Agents}
    /\ secondaryQueue = {}
    /\ nextTickTime = [h \in Handlers |->
                          IF h \in Agents THEN NextTick(h, 0) ELSE -1]
    /\ pc = [h \in Handlers |-> "idle"]
    /\ madeProgress = [h \in Handlers |-> FALSE]
    /\ MsgsToSend \in Workloads
    /\ received = [p \in Ports |-> << >>]
    /\ buf = [p \in Ports |-> << >>]
    /\ portBusy = [p \in Ports |-> FALSE]
    /\ endBuf = [p \in Ports |-> << >>]
    /\ endBusy = [p \in Ports |-> FALSE]
    /\ nextPortID = [k \in Conns |-> 0]
    /\ visited = [k \in Conns |-> 0]

(* Run returns when no event is left and no handler is running.             *)
RunReturned == Idle(Handlers) /\ queue = {} /\ secondaryQueue = {}

Return == RunReturned /\ UNCHANGED vars

EngineStep ==
    \/ \E e \in queue : RunPrimary(e)
    \/ \E e \in secondaryQueue : RunSecondary(e)

AgentStep == \E a \in Agents : Send(a) \/ Recv(a)

ConnStep == \E k \in Conns : Deliver(k) \/ LeavePort(k) \/ EndTick(k)

Next == EngineStep \/ AgentStep \/ ConnStep \/ Return

(* The goroutine in Run, and in a round every worker, keeps running.        *)
Fairness ==
    /\ WF_vars(EngineStep)
    /\ \A a \in Agents : WF_vars(Send(a) \/ Recv(a))
    /\ \A k \in Conns : WF_vars(Deliver(k) \/ LeavePort(k) \/ EndTick(k))

Spec == Init /\ [][Next]_vars

FairSpec == Spec /\ Fairness

-----------------------------------------------------------------------------
(* Properties *)

(* The variables have their types. *)
TypeOK ==
    /\ now \in Nat
    /\ queue \subseteq [handler : Agents, time : Nat]
    /\ secondaryQueue \subseteq [handler : Conns, time : Nat]
    /\ nextTickTime \in [Handlers -> Nat \cup {-1}]
    /\ pc \in [Handlers -> {"idle", "send", "recv", "scan"}]
    /\ madeProgress \in [Handlers -> BOOLEAN]
    /\ MsgsToSend \in [Agents -> Seq(Messages)]
    /\ received \in [Ports -> Seq(Messages)]
    /\ buf \in [Ports -> Seq(Messages)]
    /\ portBusy \in [Ports -> BOOLEAN]
    /\ endBuf \in [Ports -> Seq(Messages)]
    /\ endBusy \in [Ports -> BOOLEAN]
    /\ nextPortID \in [Conns -> Nat]
    /\ \A k \in Conns : nextPortID[k] < Len(PortList[k])
    /\ visited \in [Conns -> Nat]
    /\ \A k \in Conns : visited[k] <= Len(PortList[k])

(* Nothing is left behind: when the engine runs out of events and Run       *)
(* returns, every message has been sent, delivered and retrieved, so no     *)
(* wake-up was ever dropped that mattered (Test.MustHaveReceivedAllMsgs).   *)
NothingLeftBehind ==
    RunReturned =>
        /\ \A a \in Agents : MsgsToSend[a] = << >>
        /\ \A p \in Ports : endBuf[p] = << >> /\ buf[p] = << >>

(* Time does not run backwards: no event is ever left in the past of the    *)
(* engine, which Schedule and Run would answer with a panic.                *)
NoEventInThePast ==
    \A e \in queue \cup secondaryQueue : e.time >= now

(* EventBase.secondary: while a secondary event is handled there is no      *)
(* primary event of the same or an earlier time, waiting or running.        *)
PrimariesDone == Idle(Agents) /\ \A e \in queue : e.time > now

SecondaryAfterPrimary == Idle(Conns) \/ PrimariesDone

-----------------------------------------------------------------------------
(* The wake-up protocol, in the form of an inductive invariant.             *)

Pending(h) == \E e \in queue \cup secondaryQueue : e.handler = h

(* Messages stay on the connection of their source port. *)
Routed ==
    /\ \A a \in Agents : \A i \in 1..Len(MsgsToSend[a]) :
          Owner[MsgsToSend[a][i].src] = a /\ ValidMsg(MsgsToSend[a][i])
    /\ \A p \in Ports : \A i \in 1..Len(endBuf[p]) :
          ConnOf[endBuf[p][i].dst] = ConnOf[p]

(* A set flag stands for a full buffer, which somebody will have to empty.  *)
FlagsMeanFull ==
    \A p \in Ports : /\ portBusy[p] => Len(buf[p]) >= PortCap[p]
                     /\ endBusy[p] => Len(endBuf[p]) >= BufSize[p]

(* The comparison with nextTickTime drops a tick only when another one is   *)
(* coming: a tick recorded for now or later is in the queue, unless it is   *)
(* the tick of a connection for now and no component can ask for it again.  *)
DroppedTicksAreRedundant ==
    /\ \A a \in Agents : nextTickTime[a] > now => Event(a, nextTickTime[a]) \in queue
    /\ \A k \in Conns :
          /\ nextTickTime[k] > now => Event(k, nextTickTime[k]) \in secondaryQueue
          /\ nextTickTime[k] = now => \/ Event(k, now) \in secondaryQueue
                                      \/ PrimariesDone

(* A component with a message to take is about to run. *)
ReceiverAwake ==
    \A p \in Ports : buf[p] # << >> =>
        Pending(Owner[p]) \/ pc[Owner[p]] # "idle"

(* A component with a message to send is about to run or blocked on a full  *)
(* end that knows about it.                                                 *)
SenderAwake ==
    \A a \in Agents : MsgsToSend[a] # << >> =>
        \/ Pending(a)
        \/ pc[a] = "send"
        \/ pc[a] = "recv" /\ madeProgress[a]
        \/ endBusy[Head(MsgsToSend[a]).src]

(* Port p is still to be visited in this tick of its connection. *)
ToVisit(p) ==
    \E j \in visited[ConnOf[p]] .. Len(PortList[ConnOf[p]]) - 1 :
        PortList[ConnOf[p]][((j + nextPortID[ConnOf[p]])
                                % Len(PortList[ConnOf[p]])) + 1] = p

(* A connection with a message to deliver is about to run or blocked on a   *)
(* full port that knows about it.                                           *)
ConnectionAwake ==
    \A p \in Ports : endBuf[p] # << >> =>
        \/ Pending(ConnOf[p])
        \/ pc[ConnOf[p]] = "scan" /\ (madeProgress[ConnOf[p]] \/ ToVisit(p))
        \/ portBusy[Head(endBuf[p]).dst]

(* Agents and connections run their own handlers. *)
PcOK ==
    /\ \A a \in Agents : pc[a] # "scan"
    /\ \A k \in Conns : pc[k] \in {"idle", "scan"}

WakeUpInv ==
    /\ TypeOK
    /\ PcOK
    /\ NoEventInThePast
    /\ SecondaryAfterPrimary
    /\ Routed
    /\ FlagsMeanFull
    /\ DroppedTicksAreRedundant
    /\ ReceiverAwake
    /\ SenderAwake
    /\ ConnectionAwake

-----------------------------------------------------------------------------
(* Every message of the workload is received, and then Run returns.         *)
EventuallyReturns == <>RunReturned

(* What the network promises: OrderedDelivery, with the messages between    *)
(* Send and Retrieve in flight.  Those of s that go from src to dst, in the *)
(* order of s:                                                              *)
FromTo(s, src, dst) ==
    LET Kept[i \in 0..Len(s)] ==
            IF i = 0 THEN << >>
            ELSE IF s[i].src = src /\ s[i].dst = dst
                 THEN Append(Kept[i - 1], s[i])
            ELSE Kept[i - 1]
    IN  Kept[Len(s)]

\* The oldest ones wait at the destination, the others at the source.
Between(src, dst) ==
    FromTo(buf[dst], src, dst) \o FromTo(endBuf[src], src, dst)

InFlight == [c \in Ports \X Ports |-> Between(c[1], c[2])]

OD == INSTANCE OrderedDelivery WITH inFlight <- InFlight

DeliversInOrder == OD!Spec

=============================================================================
