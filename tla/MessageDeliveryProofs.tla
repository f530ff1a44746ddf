------------------------ MODULE MessageDeliveryProofs ------------------------
(***************************************************************************)
(* MessageDelivery for every topology, capacity and clock: nobody sleeps   *)
(* through work (WakeUpInv), so that nothing is left behind; and messages  *)
(* arrive once and in the order sent, as OrderedDelivery says, because the *)
(* buffer of a port's connection holds what the port sent and the port     *)
(* itself what was sent to it (Addressed).                                 *)
(***************************************************************************)
EXTENDS MessageDelivery, NaturalsInduction, WellFoundedInduction, TLAPS

(* Freq.NextTick is a time strictly after its argument. *)
LEMMA NextTickLater ==
    ASSUME NEW h \in Handlers, NEW t \in Nat
    PROVE  NextTick(h, t) \in Nat /\ NextTick(h, t) > t
<1> DEFINE p == Period[h]
           q == (20 * t + p) \div (2 * p)
           n == q \div 10
<1>1. p \in Nat /\ p > 0
  BY CapacityAssumption
<1> HIDE DEF p
<1>2. q \in Nat /\ 20 * t + p < 2 * p * (q + 1)
  BY <1>1
<1> HIDE DEF q
<1>3. n \in Nat /\ q + 1 <= 10 * (n + 1)
  BY <1>2
<1> HIDE DEF n
<1>4. 2 * p * (q + 1) <= 2 * p * (10 * (n + 1))
  BY <1>1, <1>2, <1>3
<1>5. 20 * t + p < 20 * ((n + 1) * p)
  BY <1>1, <1>2, <1>3, <1>4
<1>6. (n + 1) * p \in Nat
  BY <1>1, <1>3
<1>7. (n + 1) * p > t
  BY <1>1, <1>5, <1>6
<1> QED
  BY <1>6, <1>7 DEF NextTick, TenthsOfCycle, n, q, p

(* The round-robin position stays within the list of ports. *)
LEMMA ModRange ==
    ASSUME NEW L \in Nat \ {0}, NEW x \in Nat
    PROVE  x % L \in 0..L-1
  OBVIOUS

LEMMA ModWrap ==
    ASSUME NEW L \in Nat \ {0}, NEW i \in 0..L-1, NEW n \in 0..L-1
    PROVE  \E j \in 0..L-1 : (j + n) % L = i
<1>1. CASE n <= i
  <2>1. ((i - n) + n) % L = i
    BY <1>1
  <2> QED
    BY <1>1, <2>1
<1>2. CASE n > i
  <2>1. (i + L) % L = i
    OBVIOUS
  <2>2. (((i + L) - n) + n) = i + L /\ (i + L) - n \in 0..L-1
    BY <1>2
  <2> QED
    BY <2>1, <2>2
<1> QED
  BY <1>1, <1>2

-----------------------------------------------------------------------------
(* What scheduling does, whoever asks for it. *)

LEMMA TickTimeRange ==
    ASSUME TypeOK, NEW h \in Handlers, NEW nowSet
    PROVE  /\ TickTime(h, nowSet) \in Nat
           /\ TickTime(h, nowSet) >= now
           /\ h \notin nowSet => TickTime(h, nowSet) > now
  BY NextTickLater DEF TypeOK, TickTime

(* Scheduling keeps the types and only adds events. *)
LEMMA ScheduleTicksType ==
    ASSUME TypeOK, NEW nowSet \in SUBSET Handlers,
           NEW laterSet \in SUBSET Handlers, ScheduleTicks(nowSet, laterSet)
    PROVE  /\ queue' \subseteq [handler : Agents, time : Nat]
           /\ secondaryQueue' \subseteq [handler : Conns, time : Nat]
           /\ nextTickTime' \in [Handlers -> Nat \cup {-1}]
           /\ queue \subseteq queue'
           /\ secondaryQueue \subseteq secondaryQueue'
<1>1. \A h \in Handlers : TickTime(h, nowSet) \in Nat
  BY TickTimeRange
<1> QED
  BY <1>1 DEF ScheduleTicks, Woken, Event, TypeOK, Handlers

(* The events it adds are not in the past; an event for now needs TickNow. *)
LEMMA ScheduleTicksTimes ==
    ASSUME TypeOK, NEW nowSet \in SUBSET Handlers,
           NEW laterSet \in SUBSET Handlers, ScheduleTicks(nowSet, laterSet)
    PROVE  /\ \A e \in queue' : e \in queue \/ e.time >= now
           /\ \A e \in secondaryQueue' : e \in secondaryQueue \/ e.time >= now
           /\ nowSet \cap Agents = {} =>
                 \A e \in queue' : e \in queue \/ e.time > now
<1>1. \A h \in Handlers : /\ TickTime(h, nowSet) >= now
                          /\ h \notin nowSet => TickTime(h, nowSet) > now
  BY TickTimeRange
<1> QED
  BY <1>1 DEF ScheduleTicks, Woken, Event, TypeOK, Handlers

(* TickLater and TickNow leave a tick in the queue, unless a connection has *)
(* had its tick for now and no component is left to run at this time.       *)
LEMMA ScheduleTicksWakes ==
    ASSUME TypeOK, DroppedTicksAreRedundant,
           NEW nowSet \in SUBSET Conns,
           NEW laterSet \in SUBSET Handlers, ScheduleTicks(nowSet, laterSet)
    PROVE  /\ \A h \in laterSet \ nowSet : Pending(h)'
           /\ \A k \in nowSet : Pending(k)' \/ PrimariesDone
<1>1. \A h \in Handlers : TickTime(h, nowSet) \in Nat
  BY TickTimeRange
<1>2. queue \subseteq queue' /\ secondaryQueue \subseteq secondaryQueue'
  BY DEF ScheduleTicks
<1>3. ASSUME NEW h \in nowSet \cup laterSet,
             nextTickTime[h] < TickTime(h, nowSet)
      PROVE  Pending(h)'
  <2>1. h \in Woken(nowSet, laterSet)
    BY <1>3 DEF Woken
  <2>2. h \in Agents \/ h \in Conns
    BY DEF Handlers
  <2>3. Event(h, TickTime(h, nowSet)) \in queue' \cup secondaryQueue'
    BY <2>1, <2>2 DEF ScheduleTicks
  <2> QED
    BY <2>3 DEF Pending, Event
<1>4. ASSUME NEW h \in laterSet \ nowSet,
             ~(nextTickTime[h] < TickTime(h, nowSet))
      PROVE  Pending(h)'
  <2>0. TickTime(h, nowSet) \in Nat /\ TickTime(h, nowSet) > now
    BY TickTimeRange
  <2>a. nextTickTime[h] \in Int /\ now \in Int
    BY DEF TypeOK
  <2>1. nextTickTime[h] > now
    BY <1>4, <2>0, <2>a
  <2>2. Event(h, nextTickTime[h]) \in queue \cup secondaryQueue
    BY <2>1 DEF DroppedTicksAreRedundant, Handlers
  <2> QED
    BY <1>2, <2>2 DEF Pending, Event
<1>5. ASSUME NEW k \in nowSet, ~(nextTickTime[k] < TickTime(k, nowSet))
      PROVE  Pending(k)' \/ PrimariesDone
  <2>1. nextTickTime[k] >= now
    BY <1>5 DEF TickTime, TypeOK, Handlers
  <2>2. \/ Event(k, nextTickTime[k]) \in secondaryQueue
        \/ PrimariesDone
    BY <2>1 DEF DroppedTicksAreRedundant, TypeOK, Handlers
  <2> QED
    BY <1>2, <2>2 DEF Pending, Event
<1> QED
  BY <1>3, <1>4, <1>5

(* Scheduling by a handler keeps the record of the scheduled ticks. *)
LEMMA ScheduleTicksRecords ==
    ASSUME TypeOK, DroppedTicksAreRedundant,
           NEW nowSet \in SUBSET Conns,
           NEW laterSet \in SUBSET Handlers, ScheduleTicks(nowSet, laterSet),
           now' = now, PrimariesDone => PrimariesDone'
    PROVE  DroppedTicksAreRedundant'
<1>1. \A h \in Handlers : TickTime(h, nowSet) \in Nat
  BY TickTimeRange
<1>2. queue \subseteq queue' /\ secondaryQueue \subseteq secondaryQueue'
  BY DEF ScheduleTicks
<1>3. ASSUME NEW h \in Handlers
      PROVE  \/ nextTickTime'[h] = nextTickTime[h]
             \/ /\ h \in Agents => Event(h, nextTickTime'[h]) \in queue'
                /\ h \in Conns => Event(h, nextTickTime'[h]) \in secondaryQueue'
  BY <1>3 DEF ScheduleTicks
<1>4. ASSUME NEW a \in Agents, nextTickTime'[a] > now
      PROVE  Event(a, nextTickTime'[a]) \in queue'
  BY <1>2, <1>3, <1>4 DEF DroppedTicksAreRedundant, Handlers
<1>5. ASSUME NEW k \in Conns, nextTickTime'[k] > now
      PROVE  Event(k, nextTickTime'[k]) \in secondaryQueue'
  BY <1>2, <1>3, <1>5 DEF DroppedTicksAreRedundant, Handlers
<1>6. ASSUME NEW k \in Conns, nextTickTime'[k] = now
      PROVE  Event(k, now) \in secondaryQueue' \/ PrimariesDone'
  BY <1>2, <1>3, <1>6 DEF DroppedTicksAreRedundant, Handlers
<1> QED
  BY <1>4, <1>5, <1>6 DEF DroppedTicksAreRedundant, Event

-----------------------------------------------------------------------------
(* Type correctness *)

LEMMA HeadOfMessages ==
    ASSUME NEW s \in Seq(Messages), s # << >>
    PROVE  /\ Head(s) \in Messages
           /\ Head(s).src \in Ports
           /\ Head(s).dst \in Ports
           /\ Tail(s) \in Seq(Messages)
           /\ Len(s) \in Nat \ {0}
           /\ s[1] = Head(s)
<1>1. Head(s) \in Messages /\ Tail(s) \in Seq(Messages) /\ Len(s) \in Nat \ {0}
      /\ s[1] = Head(s)
  OBVIOUS
<1> QED
  BY <1>1 DEF Messages

LEMMA TailElements ==
    ASSUME NEW S, NEW s \in Seq(S), s # << >>, NEW i \in 1..Len(Tail(s))
    PROVE  i + 1 \in 1..Len(s) /\ Tail(s)[i] = s[i + 1]
  OBVIOUS

LEMMA AppendElements ==
    ASSUME NEW S, NEW s \in Seq(S), NEW x \in S, NEW i \in 1..Len(Append(s, x))
    PROVE  \/ i \in 1..Len(s) /\ Append(s, x)[i] = s[i]
           \/ Append(s, x)[i] = x
  OBVIOUS

LEMMA Topology ==
    /\ \A p \in Ports : Owner[p] \in Agents /\ ConnOf[p] \in Conns
    /\ \A k \in Conns : /\ Len(PortList[k]) \in Nat \ {0}
                         /\ \A i \in 1..Len(PortList[k]) :
                               /\ PortList[k][i] \in Ports
                               /\ ConnOf[PortList[k][i]] = k
<1>1. \A p \in Ports : Owner[p] \in Agents /\ ConnOf[p] \in Conns
  BY TopologyAssumption
<1>2. ASSUME NEW k \in Conns
      PROVE  /\ Len(PortList[k]) \in Nat \ {0}
             /\ \A i \in 1..Len(PortList[k]) : PortList[k][i] \in Ports
  <2>1. PortList[k] \in Seq(Ports) /\ PortList[k] # << >>
    BY TopologyAssumption
  <2> QED
    BY <2>1
<1>3. \A k \in Conns : \A i \in 1..Len(PortList[k]) : ConnOf[PortList[k][i]] = k
  BY TopologyAssumption
<1> QED
  BY <1>1, <1>2, <1>3

(* The port a connection is visiting is one of its ports. *)
LEMMA CurrentPort ==
    ASSUME TypeOK, NEW k \in Conns
    PROVE  /\ Current(k) \in Ports
           /\ ConnOf[Current(k)] = k
<1> DEFINE L == Len(PortList[k])
           x == visited[k] + nextPortID[k]
<1>1. L \in Nat \ {0} /\ x \in Nat
  BY Topology DEF TypeOK
<1>2. x % L \in 0..L-1
  BY <1>1, ModRange
<1>3. (x % L) + 1 \in 1..L
  BY <1>1, <1>2
<1> QED
  BY <1>3, Topology DEF Current

LEMMA InitType == Init => TypeOK
<1> SUFFICES ASSUME Init PROVE TypeOK
  OBVIOUS
<1>1. \A a \in Agents : NextTick(a, 0) \in Nat
  BY NextTickLater DEF Handlers
<1>2. MsgsToSend \in [Agents -> Seq(Messages)]
  BY WorkloadAssumption DEF Init
<1>3. \A k \in Conns : Len(PortList[k]) \in Nat /\ 0 < Len(PortList[k])
  BY TopologyAssumption, SMTT(30)
<1> QED
  BY <1>1, <1>2, <1>3 DEF Init, TypeOK, Event

LEMMA NextType == TypeOK /\ [Next]_vars => TypeOK'
<1> SUFFICES ASSUME TypeOK, [Next]_vars PROVE TypeOK'
  OBVIOUS
<1>0. /\ \A k \in Conns : Len(PortList[k]) \in Nat \ {0}
      /\ \A k \in Conns : \A i \in 1..Len(PortList[k]) : PortList[k][i] \in Ports
  BY TopologyAssumption, SMTT(30)
<1>1. ASSUME NEW e \in queue, RunPrimary(e) PROVE TypeOK'
  BY <1>1 DEF RunPrimary, TypeOK, portVars, connVars, agentVars, Handlers
<1>2. ASSUME NEW e \in secondaryQueue, RunSecondary(e) PROVE TypeOK'
  BY <1>0, <1>2 DEF RunSecondary, TypeOK, portVars, agentVars, Handlers
<1>3. ASSUME NEW a \in Agents, Send(a) PROVE TypeOK'
  <2>1. CASE SendSkip(a)
    BY <1>3, <2>1 DEF Send, SendSkip, TypeOK, engineVars, portVars, connVars,
                      agentVars
  <2>2. CASE SendFail(a)
    BY <1>3, <2>2 DEF Send, SendFail, TypeOK, engineVars, portVars, agentVars
  <2>3. CASE SendOK(a)
    <3> DEFINE m == Head(MsgsToSend[a])
    <3>1. m \in Messages /\ ConnOf[m.src] \in Conns /\ m.src \in Ports
      BY <2>3, HeadOfMessages, TopologyAssumption DEF SendOK, TypeOK
    <3>2. ScheduleTicks({ConnOf[m.src]}, {})
      BY <2>3 DEF SendOK, TickConn
    <3>3. {ConnOf[m.src]} \in SUBSET Handlers /\ {} \in SUBSET Handlers
      BY <3>1 DEF Handlers
    <3>4. /\ queue' \subseteq [handler : Agents, time : Nat]
          /\ secondaryQueue' \subseteq [handler : Conns, time : Nat]
          /\ nextTickTime' \in [Handlers -> Nat \cup {-1}]
      BY <3>2, <3>3, ScheduleTicksType
    <3>5. Append(endBuf[m.src], m) \in Seq(Messages)
      BY <3>1 DEF TypeOK
    <3>6. Tail(MsgsToSend[a]) \in Seq(Messages)
      BY <2>3 DEF SendOK, TypeOK
    <3> QED
      BY <1>3, <2>3, <3>1, <3>4, <3>5, <3>6
      DEF Send, SendOK, TypeOK, portVars
  <2> QED
    BY <1>3, <2>1, <2>2, <2>3 DEF Send
<1>4. ASSUME NEW a \in Agents, Recv(a) PROVE TypeOK'
  <2> DEFINE later == IF madeProgress[a] \/ Arrived(a) # {} THEN {a} ELSE {}
  <2>1. Freed(Arrived(a)) \in SUBSET Handlers /\ later \in SUBSET Handlers
    BY TopologyAssumption DEF Freed, Arrived, Handlers
  <2>2. ScheduleTicks(Freed(Arrived(a)), later)
    BY <1>4 DEF Recv
  <2>3. /\ queue' \subseteq [handler : Agents, time : Nat]
        /\ secondaryQueue' \subseteq [handler : Conns, time : Nat]
        /\ nextTickTime' \in [Handlers -> Nat \cup {-1}]
    BY <2>1, <2>2, ScheduleTicksType
  <2>4. \A p \in Arrived(a) : /\ Tail(buf[p]) \in Seq(Messages)
                              /\ Append(received[p], Head(buf[p])) \in Seq(Messages)
    BY DEF Arrived, TypeOK
  <2>5. buf' \in [Ports -> Seq(Messages)] /\ received' \in [Ports -> Seq(Messages)]
    BY <1>4, <2>4 DEF Recv, TypeOK
  <2> QED
    BY <1>4, <2>3, <2>5 DEF Recv, TypeOK, connVars
<1>5. ASSUME NEW k \in Conns, Deliver(k) PROVE TypeOK'
  <2> DEFINE p == Current(k)
             m == Head(endBuf[p])
  <2>1. p \in Ports
    BY CurrentPort
  <2>2. m \in Messages /\ m.dst \in Ports
    BY <1>5, <2>1, HeadOfMessages DEF Deliver, TypeOK
  <2>3. {Owner[m.dst]} \cup TurnedDown(p) \in SUBSET Handlers /\ {} \in SUBSET Handlers
    <3> HIDE DEF p, m
    <3> QED
      BY <2>1, <2>2, Topology DEF TurnedDown, Handlers
  <2>4. ScheduleTicks({}, {Owner[m.dst]} \cup TurnedDown(p))
    BY <1>5 DEF Deliver
  <2>5. /\ queue' \subseteq [handler : Agents, time : Nat]
        /\ secondaryQueue' \subseteq [handler : Conns, time : Nat]
        /\ nextTickTime' \in [Handlers -> Nat \cup {-1}]
    BY <2>3, <2>4, ScheduleTicksType
  <2>6. Append(buf[m.dst], m) \in Seq(Messages) /\ Tail(endBuf[p]) \in Seq(Messages)
    BY <1>5, <2>1, <2>2 DEF Deliver, TypeOK
  <2> QED
    BY <1>5, <2>1, <2>2, <2>5, <2>6 DEF Deliver, TypeOK, agentVars
<1>6. ASSUME NEW k \in Conns, LeavePort(k) PROVE TypeOK'
  <2>1. Current(k) \in Ports
    BY CurrentPort
  <2>2. portBusy' \in [Ports -> BOOLEAN]
    BY <1>6 DEF LeavePort, Refuse, TypeOK
  <2>3. /\ visited' \in [Conns -> Nat]
        /\ \A j \in Conns : visited'[j] <= Len(PortList[j])
    BY <1>0, <1>6 DEF LeavePort, NextPort, Visiting, TypeOK
  <2> QED
    BY <1>6, <2>2, <2>3 DEF LeavePort, TypeOK, engineVars, agentVars
<1>7. ASSUME NEW k \in Conns, EndTick(k) PROVE TypeOK'
  <2> DEFINE later == IF madeProgress[k] THEN {k} ELSE {}
  <2>1. ScheduleTicks({}, later) /\ {} \in SUBSET Handlers /\ later \in SUBSET Handlers
    BY <1>7 DEF EndTick, Handlers
  <2>2. /\ queue' \subseteq [handler : Agents, time : Nat]
        /\ secondaryQueue' \subseteq [handler : Conns, time : Nat]
        /\ nextTickTime' \in [Handlers -> Nat \cup {-1}]
    BY <2>1, ScheduleTicksType
  <2>3. nextPortID[k] + 1 \in Nat
    BY DEF TypeOK
  <2>4. (nextPortID[k] + 1) % Len(PortList[k]) \in 0..Len(PortList[k])-1
    BY <1>0, <2>3, ModRange
  <2>5. /\ nextPortID' \in [Conns -> Nat]
        /\ \A j \in Conns : nextPortID'[j] < Len(PortList[j])
    BY <1>0, <1>7, <2>4 DEF EndTick, TypeOK
  <2> QED
    BY <1>7, <2>2, <2>5 DEF EndTick, TypeOK, portVars, agentVars
<1>8. CASE UNCHANGED vars
  BY <1>8 DEF TypeOK, vars, engineVars, portVars, connVars, agentVars
<1> QED
  BY <1>1, <1>2, <1>3, <1>4, <1>5, <1>6, <1>7, <1>8
  DEF Next, EngineStep, AgentStep, ConnStep, Return

-----------------------------------------------------------------------------
(* The inductive invariant: one lemma per action *)

USE HandlersAssumption

LEMMA IntTimes ==
    ASSUME TypeOK
    PROVE  now \in Int /\ \A h \in Handlers : nextTickTime[h] \in Int
  BY DEF TypeOK

LEMMA InitInv == Init => WakeUpInv
<1> SUFFICES ASSUME Init PROVE WakeUpInv
  OBVIOUS
<1>1. TypeOK
  BY InitType
<1>2. \A a \in Agents : NextTick(a, 0) \in Nat /\ NextTick(a, 0) > 0
  BY NextTickLater DEF Handlers
<1>3. PcOK /\ SecondaryAfterPrimary /\ FlagsMeanFull /\ ReceiverAwake
      /\ ConnectionAwake
  BY Topology DEF Init, PcOK, SecondaryAfterPrimary, Idle, FlagsMeanFull, ReceiverAwake,
              ConnectionAwake, Handlers
<1>4. NoEventInThePast
  BY <1>2 DEF Init, NoEventInThePast, Event
<1>5. Routed
  BY WorkloadAssumption, SMTT(30) DEF Init, Routed
<1>6. DroppedTicksAreRedundant
  BY <1>2 DEF Init, DroppedTicksAreRedundant, Handlers
<1>7. SenderAwake
  <2>1. \A a \in Agents : Event(a, NextTick(a, 0)) \in queue
    BY DEF Init
  <2>2. ASSUME NEW a \in Agents PROVE Pending(a)
    <3>1. Event(a, NextTick(a, 0)) \in queue /\ Event(a, NextTick(a, 0)).handler = a
      BY <2>1 DEF Event
    <3> QED
      BY <3>1 DEF Pending
  <2> QED
    BY <2>2 DEF SenderAwake
<1> QED
  BY <1>1, <1>3, <1>4, <1>5, <1>6, <1>7 DEF WakeUpInv

LEMMA RunPrimaryInv ==
    ASSUME WakeUpInv, TypeOK', NEW e \in queue, RunPrimary(e)
    PROVE  WakeUpInv'
<1> DEFINE a == e.handler
<1>0. /\ a \in Agents /\ a \notin Conns /\ a \in Handlers
      /\ e.time \in Nat /\ e.time >= now /\ now' = e.time
  BY DEF WakeUpInv, TypeOK, NoEventInThePast, RunPrimary, Handlers
<1>1. /\ \A h \in Handlers : h # a => pc'[h] = pc[h] /\ madeProgress'[h] = madeProgress[h]
      /\ pc'[a] = "send"
      /\ queue' = queue \ {e} /\ secondaryQueue' = secondaryQueue
      /\ nextTickTime' = nextTickTime
  BY <1>0 DEF RunPrimary, WakeUpInv, TypeOK
<1>2. UNCHANGED <<buf, portBusy, endBuf, endBusy, nextPortID, visited, MsgsToSend, received>>
  BY DEF RunPrimary, portVars, connVars, agentVars
<1>t. now \in Int /\ \A h \in Handlers : nextTickTime[h] \in Int
  BY IntTimes DEF WakeUpInv
<1> HIDE DEF a
<1>3. PcOK'
  BY <1>0, <1>1 DEF WakeUpInv, PcOK, Handlers
<1>4. NoEventInThePast'
  BY <1>0, <1>1 DEF RunPrimary, Earliest, WakeUpInv, NoEventInThePast, TypeOK
<1>5. (Idle(Conns) /\ ~PrimariesDone) \/ e.time > now
  BY <1>0 DEF RunPrimary, Idle, WakeUpInv, SecondaryAfterPrimary, PrimariesDone, Handlers, TypeOK
<1>6. SecondaryAfterPrimary'
  <2>1. Idle(Conns)
    BY DEF RunPrimary, Idle, WakeUpInv, SecondaryAfterPrimary, PrimariesDone, Handlers
  <2> QED
    BY <1>0, <1>1, <2>1 DEF SecondaryAfterPrimary, Idle, Handlers
<1>7. Routed' /\ FlagsMeanFull'
  BY <1>2 DEF WakeUpInv, Routed, FlagsMeanFull
<1>8. DroppedTicksAreRedundant'
  <2>1. ASSUME NEW b \in Agents, nextTickTime[b] > now'
        PROVE  Event(b, nextTickTime[b]) \in queue'
    <3>1. nextTickTime[b] > now
      BY <1>0, <1>t, <2>1 DEF Handlers
    <3>2. Event(b, nextTickTime[b]) \in queue
      BY <3>1 DEF WakeUpInv, DroppedTicksAreRedundant
    <3>3. Event(b, nextTickTime[b]) # e
      BY <1>0, <2>1 DEF Event
    <3> QED
      BY <1>1, <3>2, <3>3
  <2>2. ASSUME NEW k \in Conns, nextTickTime[k] >= now'
        PROVE  Event(k, nextTickTime[k]) \in secondaryQueue'
    <3>1. nextTickTime[k] >= now /\ (e.time > now => nextTickTime[k] > now)
      BY <1>0, <1>t, <2>2 DEF Handlers
    <3>2. e.time > now \/ ~PrimariesDone
      BY <1>5
    <3>3. nextTickTime[k] > now \/ nextTickTime[k] = now
      BY <1>t, <3>1 DEF Handlers
    <3> QED
      BY <1>1, <3>1, <3>2, <3>3 DEF WakeUpInv, DroppedTicksAreRedundant
  <2>3. \A k \in Conns : nextTickTime[k] \in Int /\ now' \in Int
    BY <1>0, <1>t DEF Handlers
  <2> QED
    BY <1>0, <1>1, <2>1, <2>2, <2>3 DEF DroppedTicksAreRedundant, Event
<1>9. \A h \in Handlers : Pending(h) => Pending(h)' \/ h = a
  BY <1>1 DEF Pending, a
<1>10. ReceiverAwake'
  BY <1>1, <1>2, <1>9, Topology DEF WakeUpInv, ReceiverAwake, Handlers
<1>11. SenderAwake'
  BY <1>1, <1>2, <1>9 DEF WakeUpInv, SenderAwake, Handlers
<1>12. ConnectionAwake'
  <2>1. \A p \in Ports : ToVisit(p) => ToVisit(p)'
    BY <1>2 DEF ToVisit
  <2>2. \A k \in Conns : k # a
    BY <1>0
  <2> QED
    BY <1>1, <1>2, <1>9, <2>1, <2>2, Topology
    DEF WakeUpInv, ConnectionAwake, Handlers
<1> QED
  BY <1>3, <1>4, <1>6, <1>7, <1>8, <1>10, <1>11, <1>12 DEF WakeUpInv

LEMMA RunSecondaryInv ==
    ASSUME WakeUpInv, TypeOK', NEW e \in secondaryQueue, RunSecondary(e)
    PROVE  WakeUpInv'
<1> DEFINE k == e.handler
<1>0. /\ k \in Conns /\ k \notin Agents /\ k \in Handlers
      /\ e.time \in Nat /\ e.time >= now /\ now' = e.time
  BY DEF WakeUpInv, TypeOK, NoEventInThePast, RunSecondary, Handlers
<1>1. /\ \A h \in Handlers : h # k => pc'[h] = pc[h] /\ madeProgress'[h] = madeProgress[h]
      /\ \A j \in Conns : j # k => visited'[j] = visited[j]
      /\ pc'[k] = "scan"
      /\ visited'[k] = 0
      /\ queue' = queue /\ secondaryQueue' = secondaryQueue \ {e}
      /\ nextTickTime' = nextTickTime
  BY <1>0 DEF RunSecondary, WakeUpInv, TypeOK
<1>2. UNCHANGED <<buf, portBusy, endBuf, endBusy, nextPortID, MsgsToSend, received>>
  BY DEF RunSecondary, portVars, agentVars
<1>t. now \in Int /\ \A h \in Handlers : nextTickTime[h] \in Int
  BY IntTimes DEF WakeUpInv
<1> HIDE DEF k
<1>3. PcOK'
  BY <1>0, <1>1 DEF WakeUpInv, PcOK, Handlers
<1>4. NoEventInThePast'
  BY <1>0, <1>1
  DEF RunSecondary, Earliest, PrimaryFirst, WakeUpInv, NoEventInThePast, TypeOK
<1>5. PrimariesDone'
  <2>1. Idle(Agents)
    BY DEF RunSecondary, Idle, WakeUpInv, SecondaryAfterPrimary, PrimariesDone, Handlers
  <2>2. Idle(Agents)'
    BY <1>0, <1>1, <2>1 DEF Idle, Handlers
  <2>3. \A x \in queue' : x.time > now'
    BY <1>0, <1>1 DEF RunSecondary, PrimaryFirst, WakeUpInv, SecondaryAfterPrimary,
                      PrimariesDone, TypeOK
  <2> QED
    BY <2>2, <2>3 DEF PrimariesDone
<1>6. SecondaryAfterPrimary'
  BY <1>5 DEF SecondaryAfterPrimary
<1>7. Routed' /\ FlagsMeanFull'
  BY <1>2 DEF WakeUpInv, Routed, FlagsMeanFull
<1>8. DroppedTicksAreRedundant'
  <2>1. ASSUME NEW b \in Agents, nextTickTime[b] > now'
        PROVE  Event(b, nextTickTime[b]) \in queue'
    <3>1. nextTickTime[b] > now
      BY <1>0, <1>t, <2>1 DEF Handlers
    <3> QED
      BY <1>1, <3>1 DEF WakeUpInv, DroppedTicksAreRedundant
  <2>2. ASSUME NEW j \in Conns, nextTickTime[j] > now'
        PROVE  Event(j, nextTickTime[j]) \in secondaryQueue'
    <3>1. nextTickTime[j] > now
      BY <1>0, <1>t, <2>2 DEF Handlers
    <3>2. Event(j, nextTickTime[j]) \in secondaryQueue
      BY <3>1 DEF WakeUpInv, DroppedTicksAreRedundant
    <3>3. Event(j, nextTickTime[j]) # e
      BY <1>0, <2>2 DEF Event
    <3> QED
      BY <1>1, <3>2, <3>3
  <2> QED
    BY <1>1, <1>5, <2>1, <2>2 DEF DroppedTicksAreRedundant
<1>9. \A h \in Handlers : Pending(h) => Pending(h)' \/ h = k
  BY <1>1 DEF Pending, k
<1>10. ReceiverAwake'
  BY <1>0, <1>1, <1>2, <1>9, Topology DEF WakeUpInv, ReceiverAwake, Handlers
<1>11. SenderAwake'
  BY <1>0, <1>1, <1>2, <1>9 DEF WakeUpInv, SenderAwake, Handlers
<1>12. ConnectionAwake'
  <2>1. \A p \in Ports : ConnOf[p] # k /\ ToVisit(p) => ToVisit(p)'
    BY <1>1, <1>2, Topology DEF ToVisit
  <2>2. ASSUME NEW p \in Ports, ConnOf[p] = k PROVE ToVisit(p)'
    <3> DEFINE L == Len(PortList[k])
    <3>1. L \in Nat \ {0}
      BY <1>0, Topology
    <3>2. PICK i \in 1..L : PortList[k][i] = p
      BY <2>2, TopologyAssumption
    <3>3. nextPortID[k] \in 0..L-1
      BY <1>0, <3>1, SMTT(30) DEF WakeUpInv, TypeOK
    <3>4. i - 1 \in 0..L-1
      BY <3>1, <3>2
    <3>5. PICK j \in 0..L-1 : (j + nextPortID[k]) % L = i - 1
      BY <3>1, <3>3, <3>4, ModWrap
    <3>6. PortList[k][((j + nextPortID[k]) % L) + 1] = p
      BY <3>2, <3>5
    <3> QED
      BY <1>1, <1>2, <2>2, <3>6 DEF ToVisit
  <2> QED
    BY <1>1, <1>2, <1>9, <2>1, <2>2, Topology
    DEF WakeUpInv, ConnectionAwake, Handlers
<1> QED
  BY <1>3, <1>4, <1>6, <1>7, <1>8, <1>10, <1>11, <1>12 DEF WakeUpInv

LEMMA SendInv ==
    ASSUME WakeUpInv, TypeOK', NEW a \in Agents, Send(a)
    PROVE  WakeUpInv'
<1>0. /\ TypeOK /\ a \in Handlers /\ a \notin Conns
      /\ pc[a] = "send" /\ pc'[a] = "recv"
      /\ \A h \in Handlers : h # a => pc'[h] = pc[h]
  BY DEF WakeUpInv, TypeOK, Handlers, Send
<1>1. /\ now' = now /\ received' = received /\ buf' = buf /\ portBusy' = portBusy
      /\ nextPortID' = nextPortID /\ visited' = visited
      /\ \A h \in Handlers : h # a => madeProgress'[h] = madeProgress[h]
  BY <1>0 DEF Send, SendSkip, SendFail, SendOK, engineVars, portVars, connVars, agentVars,
              TypeOK
<1>2. ~PrimariesDone /\ Idle(Conns)
  BY <1>0 DEF WakeUpInv, SecondaryAfterPrimary, PrimariesDone, Idle
<1>3. PcOK'
  BY <1>0 DEF WakeUpInv, PcOK, Handlers
<1>4. SecondaryAfterPrimary'
  BY <1>0, <1>2 DEF SecondaryAfterPrimary, Idle, Handlers
<1>5. \A p \in Ports : ToVisit(p) => ToVisit(p)'
  BY <1>1 DEF ToVisit
<1>6. CASE SendSkip(a)
  <2>1. UNCHANGED <<queue, secondaryQueue, nextTickTime, madeProgress, endBuf, endBusy,
                    MsgsToSend>>
    BY <1>6 DEF SendSkip, engineVars, connVars, agentVars
  <2>2. NoEventInThePast' /\ Routed' /\ FlagsMeanFull'
    BY <1>1, <2>1 DEF WakeUpInv, NoEventInThePast, Routed, FlagsMeanFull
  <2>3. DroppedTicksAreRedundant'
    BY <1>1, <1>2, <2>1 DEF WakeUpInv, DroppedTicksAreRedundant
  <2>4. \A h \in Handlers : Pending(h) => Pending(h)'
    BY <2>1 DEF Pending
  <2>5. ReceiverAwake' /\ SenderAwake'
    BY <1>0, <1>1, <1>6, <2>1, <2>4, Topology
    DEF WakeUpInv, ReceiverAwake, SenderAwake, SendSkip, Handlers
  <2>6. ConnectionAwake'
    BY <1>0, <1>1, <1>5, <2>1, <2>4, Topology DEF WakeUpInv, ConnectionAwake, Handlers
  <2> QED
    BY <1>3, <1>4, <2>2, <2>3, <2>5, <2>6 DEF WakeUpInv
<1>7. CASE SendFail(a)
  <2> DEFINE p == Head(MsgsToSend[a]).src
  <2>0. p \in Ports
    BY <1>7, HeadOfMessages DEF SendFail, WakeUpInv, TypeOK
  <2>1. UNCHANGED <<queue, secondaryQueue, nextTickTime, madeProgress, endBuf, MsgsToSend>>
    BY <1>7 DEF SendFail, engineVars, agentVars
  <2>2. /\ endBusy'[p] = TRUE /\ Len(endBuf[p]) >= BufSize[p]
        /\ \A q \in Ports : q # p => endBusy'[q] = endBusy[q]
    BY <1>7, <2>0 DEF SendFail, WakeUpInv, TypeOK
  <2>3. NoEventInThePast' /\ Routed'
    BY <1>1, <2>1 DEF WakeUpInv, NoEventInThePast, Routed
  <2>4. FlagsMeanFull'
    <3> HIDE DEF p
    <3> QED
      BY <1>1, <2>1, <2>2 DEF WakeUpInv, FlagsMeanFull
  <2>5. DroppedTicksAreRedundant'
    BY <1>1, <1>2, <2>1 DEF WakeUpInv, DroppedTicksAreRedundant
  <2>6. \A h \in Handlers : Pending(h) => Pending(h)'
    BY <2>1 DEF Pending
  <2>7. ReceiverAwake'
    BY <1>0, <1>1, <2>6, Topology DEF WakeUpInv, ReceiverAwake, Handlers
  <2>8. SenderAwake'
    <3>1. endBusy'[Head(MsgsToSend'[a]).src]
      BY <2>1, <2>2
    <3>2. \A b \in Agents : endBusy[Head(MsgsToSend[b]).src] /\ MsgsToSend[b] # << >>
                                => endBusy'[Head(MsgsToSend[b]).src]
      BY <2>2, HeadOfMessages DEF WakeUpInv, TypeOK
    <3> QED
      BY <1>0, <1>1, <2>1, <2>6, <3>1, <3>2 DEF WakeUpInv, SenderAwake, Handlers
  <2>9. ConnectionAwake'
    BY <1>0, <1>1, <1>5, <2>1, <2>6, Topology DEF WakeUpInv, ConnectionAwake, Handlers
  <2> QED
    BY <1>3, <1>4, <2>3, <2>4, <2>5, <2>7, <2>8, <2>9 DEF WakeUpInv
<1>8. CASE SendOK(a)
  <2>m. PICK m : m = Head(MsgsToSend[a])
    OBVIOUS
  <2>n. PICK k : k = ConnOf[m.src]
    OBVIOUS
  <2>0. /\ m \in Messages /\ m.src \in Ports /\ m.dst \in Ports /\ k \in Conns
        /\ MsgsToSend[a] \in Seq(Messages) /\ MsgsToSend[a] # << >>
        /\ m = MsgsToSend[a][1] /\ 1 \in 1..Len(MsgsToSend[a])
    BY <1>8, <2>m, <2>n, HeadOfMessages, Topology, SMTT(30) DEF SendOK, WakeUpInv, TypeOK
  <2>1. ScheduleTicks({k}, {}) /\ {k} \in SUBSET Conns /\ {k} \in SUBSET Handlers
        /\ {} \in SUBSET Handlers /\ {k} \cap Agents = {}
    BY <1>8, <2>m, <2>n, <2>0 DEF SendOK, TickConn, Handlers
  <2>2. /\ endBuf'[m.src] = Append(endBuf[m.src], m)
        /\ \A p \in Ports : p # m.src => endBuf'[p] = endBuf[p]
        /\ MsgsToSend'[a] = Tail(MsgsToSend[a])
        /\ \A b \in Agents : b # a => MsgsToSend'[b] = MsgsToSend[b]
        /\ endBusy' = endBusy
        /\ madeProgress'[a] = TRUE
    BY <1>8, <2>m, <2>0, <1>0 DEF SendOK, TypeOK
  <2>3. k = ConnOf[m.dst]
    BY <2>0, <2>n DEF WakeUpInv, Routed, ValidMsg
  <2>4. /\ \A e \in queue' : e \in queue \/ e.time >= now
        /\ \A e \in secondaryQueue' : e \in secondaryQueue \/ e.time >= now
        /\ queue \subseteq queue' /\ secondaryQueue \subseteq secondaryQueue'
    BY <1>0, <2>1, ScheduleTicksTimes, ScheduleTicksType
  <2>5. NoEventInThePast'
    BY <1>1, <2>4 DEF WakeUpInv, NoEventInThePast
  <2>6. Pending(k)'
    <3>1. DroppedTicksAreRedundant
      BY DEF WakeUpInv
    <3> QED
      BY <1>0, <1>2, <2>1, <3>1, ScheduleTicksWakes
  <2>7. DroppedTicksAreRedundant'
    BY <1>0, <1>1, <1>2, <2>1, ScheduleTicksRecords DEF WakeUpInv
  <2>8. \A h \in Handlers : Pending(h) => Pending(h)'
    BY <2>4 DEF Pending
  <2>9. Routed'
    <3>1. ASSUME NEW b \in Agents, NEW i \in 1..Len(MsgsToSend'[b])
          PROVE  Owner[MsgsToSend'[b][i].src] = b /\ ValidMsg(MsgsToSend'[b][i])
      <4>1. CASE b = a
        <5>0. i \in 1..Len(Tail(MsgsToSend[a]))
          BY <2>2, <3>1, <4>1
        <5>1. i + 1 \in 1..Len(MsgsToSend[a]) /\ MsgsToSend'[a][i] = MsgsToSend[a][i + 1]
          BY <2>0, <2>2, <5>0, TailElements
        <5> QED
          BY <4>1, <5>1 DEF WakeUpInv, Routed
      <4>2. CASE b # a
        BY <2>2, <3>1, <4>2 DEF WakeUpInv, Routed
      <4> QED
        BY <4>1, <4>2
    <3>2. ASSUME NEW p \in Ports, NEW i \in 1..Len(endBuf'[p])
          PROVE  ConnOf[endBuf'[p][i].dst] = ConnOf[p]
      <4>1. CASE p = m.src
        <5>1. endBuf[p] \in Seq(Messages)
          BY <1>0 DEF TypeOK
        <5>2. i \in 1..Len(Append(endBuf[p], m))
          BY <2>2, <3>2, <4>1
        <5>3. \/ i \in 1..Len(endBuf[p]) /\ Append(endBuf[p], m)[i] = endBuf[p][i]
              \/ Append(endBuf[p], m)[i] = m
          BY <2>0, <5>1, <5>2, AppendElements
        <5> QED
          <6>1. endBuf'[p] = Append(endBuf[p], m)
            BY <2>2, <4>1
          <6>2. \A j \in 1..Len(endBuf[p]) : ConnOf[endBuf[p][j].dst] = ConnOf[p]
            BY DEF WakeUpInv, Routed
          <6> QED
            BY <2>3, <2>n, <4>1, <5>3, <6>1, <6>2
      <4>2. CASE p # m.src
        BY <2>2, <3>2, <4>2 DEF WakeUpInv, Routed
      <4> QED
        BY <4>1, <4>2
    <3> QED
      BY <3>1, <3>2 DEF Routed, ValidMsg
  <2>10. FlagsMeanFull'
    <3>1. \A p \in Ports : endBuf[p] \in Seq(Messages)
      BY <1>0 DEF TypeOK
    <3>2. \A p \in Ports : Len(endBuf'[p]) >= Len(endBuf[p]) /\ Len(endBuf[p]) \in Nat
                           /\ Len(endBuf'[p]) \in Nat
      BY <2>0, <2>2, <3>1
    <3>3. \A p \in Ports : BufSize[p] \in Nat
      BY CapacityAssumption
    <3> QED
      BY <1>1, <2>2, <3>2, <3>3 DEF WakeUpInv, FlagsMeanFull
  <2>11. ReceiverAwake'
    BY <1>0, <1>1, <2>8, Topology DEF WakeUpInv, ReceiverAwake, Handlers
  <2>12. SenderAwake'
    BY <1>0, <1>1, <2>2, <2>8 DEF WakeUpInv, SenderAwake, Handlers
  <2>13. ConnectionAwake'
    <3>1. ASSUME NEW p \in Ports, p # m.src, endBuf'[p] # << >>
          PROVE  \/ Pending(ConnOf[p])'
                 \/ pc'[ConnOf[p]] = "scan"
                        /\ (madeProgress'[ConnOf[p]] \/ ToVisit(p)')
                 \/ portBusy'[Head(endBuf'[p]).dst]
      BY <1>0, <1>1, <1>5, <2>2, <2>8, <3>1, Topology
      DEF WakeUpInv, ConnectionAwake, Handlers
    <3> QED
      BY <2>n, <2>6, <3>1 DEF ConnectionAwake
  <2> QED
    BY <1>3, <1>4, <2>5, <2>7, <2>9, <2>10, <2>11, <2>12, <2>13 DEF WakeUpInv
<1> QED
  BY <1>6, <1>7, <1>8 DEF Send

LEMMA RecvInv ==
    ASSUME WakeUpInv, TypeOK', NEW a \in Agents, Recv(a)
    PROVE  WakeUpInv'
<1>0. /\ TypeOK /\ a \in Handlers /\ a \notin Conns
      /\ pc[a] = "recv" /\ pc'[a] = "idle"
      /\ \A h \in Handlers : h # a => pc'[h] = pc[h]
  BY DEF WakeUpInv, TypeOK, Handlers, Recv
<1>1. /\ UNCHANGED <<now, MsgsToSend, endBuf, endBusy, nextPortID, visited>>
      /\ \A h \in Handlers : h # a => madeProgress'[h] = madeProgress[h]
  BY <1>0 DEF Recv, connVars, TypeOK
<1>2. ~PrimariesDone /\ Idle(Conns)
  BY <1>0 DEF WakeUpInv, SecondaryAfterPrimary, PrimariesDone, Idle
<1>g. PICK got : got = Arrived(a)
  OBVIOUS
<1>f. PICK freed : freed = Freed(got)
  OBVIOUS
<1>l. PICK later : later = IF madeProgress[a] \/ got # {} THEN {a} ELSE {}
  OBVIOUS
<1>3. /\ ScheduleTicks(freed, later)
      /\ buf' = [p \in Ports |-> IF p \in got THEN Tail(buf[p]) ELSE buf[p]]
      /\ portBusy' = [p \in Ports |-> portBusy[p] /\ p \notin got]
  BY <1>g, <1>f, <1>l DEF Recv
<1>4. /\ freed \in SUBSET Conns /\ freed \in SUBSET Handlers
      /\ later \in SUBSET Handlers /\ freed \cap Agents = {}
      /\ a \notin freed
  BY <1>0, <1>g, <1>f, <1>l, Topology DEF Freed, Arrived, Handlers
<1>5. /\ \A e \in queue' : e \in queue \/ e.time >= now
      /\ \A e \in secondaryQueue' : e \in secondaryQueue \/ e.time >= now
      /\ queue \subseteq queue' /\ secondaryQueue \subseteq secondaryQueue'
  BY <1>0, <1>3, <1>4, ScheduleTicksTimes, ScheduleTicksType
<1>6. /\ \A h \in later : Pending(h)'
      /\ \A k \in freed : Pending(k)'
  <2>1. DroppedTicksAreRedundant
    BY DEF WakeUpInv
  <2>2. /\ \A h \in later \ freed : Pending(h)'
        /\ \A k \in freed : Pending(k)' \/ PrimariesDone
    BY <1>0, <1>3, <1>4, <2>1, ScheduleTicksWakes
  <2> QED
    BY <1>2, <1>4, <1>l, <2>2
<1>7. \A h \in Handlers : Pending(h) => Pending(h)'
  BY <1>5 DEF Pending
<1>8. PcOK'
  BY <1>0 DEF WakeUpInv, PcOK, Handlers
<1>9. NoEventInThePast'
  BY <1>1, <1>5 DEF WakeUpInv, NoEventInThePast
<1>10. SecondaryAfterPrimary'
  BY <1>0, <1>2 DEF SecondaryAfterPrimary, Idle, Handlers
<1>11. Routed'
  BY <1>1 DEF WakeUpInv, Routed
<1>12. FlagsMeanFull'
  BY <1>1, <1>3 DEF WakeUpInv, FlagsMeanFull
<1>13. DroppedTicksAreRedundant'
  BY <1>0, <1>1, <1>2, <1>3, <1>4, ScheduleTicksRecords DEF WakeUpInv
<1>14. ReceiverAwake'
  <2>1. ASSUME NEW p \in Ports, Owner[p] = a, buf'[p] # << >> PROVE Pending(a)'
    <3>1. p \in got
      BY <1>3, <1>g, <2>1 DEF Arrived
    <3> QED
      BY <1>6, <1>l, <3>1
  <2>2. ASSUME NEW p \in Ports, Owner[p] # a PROVE buf'[p] = buf[p]
    BY <1>3, <1>g, <2>2 DEF Arrived
  <2> QED
    BY <1>0, <1>7, <2>1, <2>2, Topology DEF WakeUpInv, ReceiverAwake, Handlers
<1>15. SenderAwake'
  <2>1. madeProgress[a] => Pending(a)'
    BY <1>6, <1>l
  <2> QED
    BY <1>0, <1>1, <1>7, <2>1 DEF WakeUpInv, SenderAwake, Handlers
<1>16. ConnectionAwake'
  <2>1. \A p \in Ports : ToVisit(p) => ToVisit(p)'
    BY <1>1 DEF ToVisit
  <2>2. ASSUME NEW p \in Ports, endBuf[p] # << >>, portBusy[Head(endBuf[p]).dst]
        PROVE  portBusy'[Head(endBuf[p]).dst] \/ Pending(ConnOf[p])'
    <3>1. PICK d : d = Head(endBuf[p]).dst
      OBVIOUS
    <3>2. d \in Ports /\ ConnOf[d] = ConnOf[p]
      BY <1>0, <2>2, <3>1, HeadOfMessages DEF WakeUpInv, TypeOK, Routed
    <3>3. CASE d \in got
      <4>1. ConnOf[p] \in freed
        BY <1>f, <2>2, <3>1, <3>2, <3>3 DEF Freed
      <4> QED
        BY <1>6, <4>1
    <3>4. CASE d \notin got
      BY <1>3, <2>2, <3>1, <3>2, <3>4
    <3> QED
      BY <3>3, <3>4
  <2> QED
    BY <1>0, <1>1, <1>7, <2>1, <2>2, Topology DEF WakeUpInv, ConnectionAwake, Handlers
<1> QED
  BY <1>8, <1>9, <1>10, <1>11, <1>12, <1>13, <1>14, <1>15, <1>16 DEF WakeUpInv

LEMMA DeliverInv ==
    ASSUME WakeUpInv, TypeOK', NEW k \in Conns, Deliver(k)
    PROVE  WakeUpInv'
<1>p. PICK p : p = Current(k)
  OBVIOUS
<1>m. PICK m : m = Head(endBuf[p])
  OBVIOUS
<1>0. /\ TypeOK /\ k \in Handlers /\ k \notin Agents
      /\ p \in Ports /\ ConnOf[p] = k
  BY <1>p, CurrentPort DEF WakeUpInv, Handlers
<1>1. /\ endBuf[p] \in Seq(Messages) /\ endBuf[p] # << >>
      /\ m \in Messages /\ m.dst \in Ports
  BY <1>p, <1>m, <1>0, HeadOfMessages DEF Deliver, TypeOK
<1>l. PICK later : later = {Owner[m.dst]} \cup TurnedDown(p)
  OBVIOUS
<1>2. /\ ScheduleTicks({}, later)
      /\ pc[k] = "scan" /\ pc' = pc
      /\ Len(buf[m.dst]) < PortCap[m.dst]
      /\ buf' = [buf EXCEPT ![m.dst] = Append(@, m)]
      /\ endBuf' = [endBuf EXCEPT ![p] = Tail(@)]
      /\ endBusy' = [endBusy EXCEPT ![p] = FALSE]
      /\ madeProgress' = [madeProgress EXCEPT ![k] = TRUE]
      /\ UNCHANGED <<now, portBusy, nextPortID, visited, MsgsToSend, received>>
  BY <1>p, <1>m, <1>l DEF Deliver, Visiting, agentVars
<1>3. /\ {} \in SUBSET Conns /\ {} \in SUBSET Handlers /\ {} \cap Agents = {}
      /\ later \in SUBSET Handlers
      /\ Owner[m.dst] \in later /\ (endBusy[p] => Owner[p] \in later)
  BY <1>0, <1>1, <1>l, Topology DEF TurnedDown, Handlers
<1>4. /\ \A e \in queue' : e \in queue \/ e.time > now
      /\ \A e \in queue' : e \in queue \/ e.time >= now
      /\ \A e \in secondaryQueue' : e \in secondaryQueue \/ e.time >= now
      /\ queue \subseteq queue' /\ secondaryQueue \subseteq secondaryQueue'
  BY <1>0, <1>2, <1>3, ScheduleTicksTimes, ScheduleTicksType
<1>5. \A h \in later : Pending(h)'
  BY <1>0, <1>2, <1>3, ScheduleTicksWakes DEF WakeUpInv
<1>6. \A h \in Handlers : Pending(h) => Pending(h)'
  BY <1>4 DEF Pending
<1>7. PrimariesDone /\ PrimariesDone'
  <2>1. PrimariesDone
    BY <1>2 DEF WakeUpInv, SecondaryAfterPrimary, Idle
  <2> QED
    BY <1>2, <1>4, <2>1 DEF PrimariesDone, Idle
<1>8. PcOK' /\ SecondaryAfterPrimary'
  BY <1>2, <1>7 DEF WakeUpInv, PcOK, SecondaryAfterPrimary
<1>9. NoEventInThePast'
  BY <1>2, <1>4 DEF WakeUpInv, NoEventInThePast
<1>10. Routed'
  <2>1. ASSUME NEW q \in Ports, NEW i \in 1..Len(endBuf'[q])
        PROVE  ConnOf[endBuf'[q][i].dst] = ConnOf[q]
    <3>0. \A j \in 1..Len(endBuf[q]) : ConnOf[endBuf[q][j].dst] = ConnOf[q]
      BY DEF WakeUpInv, Routed
    <3>1. CASE q = p
      <4>1. endBuf'[q] = Tail(endBuf[q])
        BY <1>0, <1>2, <3>1 DEF TypeOK
      <4>2. i + 1 \in 1..Len(endBuf[q]) /\ endBuf'[q][i] = endBuf[q][i + 1]
        BY <1>1, <2>1, <3>1, <4>1, TailElements
      <4> QED
        BY <3>0, <4>2
    <3>2. CASE q # p
      BY <1>0, <1>2, <2>1, <3>0, <3>2 DEF TypeOK
    <3> QED
      BY <3>1, <3>2
  <2> QED
    BY <1>2, <2>1 DEF WakeUpInv, Routed
<1>11. FlagsMeanFull'
  <2>1. ASSUME NEW q \in Ports, portBusy'[q]
        PROVE  Len(buf'[q]) >= PortCap[q]
    <3>1. Len(buf[q]) >= PortCap[q] /\ q # m.dst
      <4>1. Len(buf[q]) >= PortCap[q]
        BY <1>2, <2>1 DEF WakeUpInv, FlagsMeanFull
      <4>2. Len(buf[q]) \in Nat /\ PortCap[q] \in Nat
        BY <1>0, CapacityAssumption DEF TypeOK
      <4> QED
        BY <1>2, <4>1, <4>2
    <3> QED
      BY <1>2, <3>1, <1>0 DEF TypeOK
  <2>2. ASSUME NEW q \in Ports, endBusy'[q]
        PROVE  Len(endBuf'[q]) >= BufSize[q]
    <3>1. q # p /\ endBusy[q]
      BY <1>0, <1>2, <2>2 DEF TypeOK
    <3> QED
      BY <1>0, <1>2, <3>1 DEF TypeOK, WakeUpInv, FlagsMeanFull
  <2> QED
    BY <2>1, <2>2 DEF FlagsMeanFull
<1>12. DroppedTicksAreRedundant'
  BY <1>0, <1>2, <1>3, <1>7, ScheduleTicksRecords DEF WakeUpInv
<1>13. ReceiverAwake'
  <2>1. \A q \in Ports : q # m.dst => buf'[q] = buf[q]
    BY <1>0, <1>2 DEF TypeOK
  <2> QED
    BY <1>2, <1>3, <1>5, <1>6, <2>1, Topology DEF WakeUpInv, ReceiverAwake, Handlers
<1>14. SenderAwake'
  <2>1. ASSUME NEW b \in Agents, MsgsToSend[b] # << >>, endBusy[Head(MsgsToSend[b]).src]
        PROVE  Pending(b)' \/ endBusy'[Head(MsgsToSend[b]).src]
    <3>1. PICK q : q = Head(MsgsToSend[b]).src
      OBVIOUS
    <3>2. q \in Ports /\ Owner[q] = b
      BY <1>0, <2>1, <3>1, HeadOfMessages DEF WakeUpInv, TypeOK, Routed
    <3>3. CASE q = p
      BY <1>3, <1>5, <2>1, <3>1, <3>2, <3>3
    <3>4. CASE q # p
      BY <1>0, <1>2, <2>1, <3>1, <3>2, <3>4 DEF TypeOK
    <3> QED
      BY <3>3, <3>4
  <2>2. \A b \in Agents : madeProgress'[b] = madeProgress[b]
    BY <1>0, <1>2 DEF TypeOK, Handlers
  <2> QED
    BY <1>2, <1>6, <2>1, <2>2 DEF WakeUpInv, SenderAwake, Handlers
<1>15. ConnectionAwake'
  <2>1. madeProgress'[k]
    BY <1>0, <1>2 DEF TypeOK
  <2>2. ASSUME NEW q \in Ports, ConnOf[q] # k
        PROVE  /\ endBuf'[q] = endBuf[q]
               /\ madeProgress'[ConnOf[q]] = madeProgress[ConnOf[q]]
    <3>1. q # p /\ ConnOf[q] \in Handlers
      BY <1>0, <2>2, Topology DEF Handlers
    <3> QED
      BY <1>0, <1>2, <2>2, <3>1 DEF TypeOK
  <2>3. \A q \in Ports : ToVisit(q) => ToVisit(q)'
    BY <1>2 DEF ToVisit
  <2>4. ASSUME NEW q \in Ports, ConnOf[q] # k, endBuf'[q] # << >>
        PROVE  \/ Pending(ConnOf[q])'
               \/ pc'[ConnOf[q]] = "scan"
                      /\ (madeProgress'[ConnOf[q]] \/ ToVisit(q)')
               \/ portBusy'[Head(endBuf'[q]).dst]
    BY <1>2, <1>6, <2>2, <2>3, <2>4, Topology DEF WakeUpInv, ConnectionAwake, Handlers
  <2> QED
    BY <1>2, <2>1, <2>4 DEF ConnectionAwake
<1> QED
  BY <1>8, <1>9, <1>10, <1>11, <1>12, <1>13, <1>14, <1>15 DEF WakeUpInv

LEMMA LeavePortInv ==
    ASSUME WakeUpInv, TypeOK', NEW k \in Conns, LeavePort(k)
    PROVE  WakeUpInv'
<1>p. PICK p : p = Current(k)
  OBVIOUS
<1>0. /\ TypeOK /\ p \in Ports /\ ConnOf[p] = k
      /\ visited'[k] = visited[k] + 1 /\ visited[k] < Len(PortList[k])
      /\ \A j \in Conns : j # k => visited'[j] = visited[j]
  BY <1>p, CurrentPort DEF WakeUpInv, LeavePort, NextPort, Visiting, TypeOK
<1>1. UNCHANGED <<now, queue, secondaryQueue, nextTickTime, pc, madeProgress, buf, endBuf,
                  endBusy, nextPortID, MsgsToSend, received>>
  BY DEF LeavePort, engineVars, agentVars
<1>2. PcOK' /\ NoEventInThePast' /\ SecondaryAfterPrimary' /\ Routed'
      /\ DroppedTicksAreRedundant'
  BY <1>1 DEF WakeUpInv, PcOK, NoEventInThePast, SecondaryAfterPrimary, PrimariesDone,
              Idle, Routed, DroppedTicksAreRedundant
<1>3. \A h \in Handlers : Pending(h) => Pending(h)'
  BY <1>1 DEF Pending
<1>4. ReceiverAwake' /\ SenderAwake'
  BY <1>1, <1>3, Topology DEF WakeUpInv, ReceiverAwake, SenderAwake, Handlers
<1>5. /\ \A q \in Ports : portBusy[q] => portBusy'[q]
      /\ \A q \in Ports : portBusy'[q] => portBusy[q] \/ Len(buf[q]) >= PortCap[q]
      /\ endBuf[p] # << >> => portBusy'[Head(endBuf[p]).dst]
  <2>1. CASE endBuf[p] = << >> /\ UNCHANGED portBusy
    BY <2>1
  <2>2. CASE endBuf[p] # << >> /\ Refuse(Head(endBuf[p]).dst)
    <3>1. PICK d : d = Head(endBuf[p]).dst
      OBVIOUS
    <3>2. d \in Ports
      BY <1>0, <2>2, <3>1, HeadOfMessages DEF TypeOK
    <3> QED
      BY <1>0, <2>2, <3>1, <3>2 DEF Refuse, TypeOK
  <2> QED
    BY <1>p, <2>1, <2>2 DEF LeavePort
<1>6. FlagsMeanFull'
  BY <1>1, <1>5 DEF WakeUpInv, FlagsMeanFull
<1>7. ASSUME NEW q \in Ports, ToVisit(q), q # p PROVE ToVisit(q)'
  <2>1. CASE ConnOf[q] = k
    <3> DEFINE L == Len(PortList[k])
    <3>1. PICK j \in visited[k] .. L - 1 :
             PortList[k][((j + nextPortID[k]) % L) + 1] = q
      BY <1>7, <2>1 DEF ToVisit
    <3>2. j # visited[k]
      BY <1>p, <1>7, <3>1 DEF Current
    <3>3. j \in visited'[k] .. L - 1
      BY <1>0, <3>1, <3>2, Topology, SMTT(30) DEF TypeOK
    <3> QED
      BY <1>1, <2>1, <3>1, <3>3 DEF ToVisit
  <2>2. CASE ConnOf[q] # k
    BY <1>0, <1>1, <1>7, <2>2, Topology DEF ToVisit
  <2> QED
    BY <2>1, <2>2
<1>8. ConnectionAwake'
  <2>1. ASSUME NEW q \in Ports, endBuf[q] # << >>
        PROVE  Head(endBuf[q]).dst \in Ports
    BY <1>0, <2>1, HeadOfMessages DEF TypeOK
  <2> QED
    BY <1>1, <1>3, <1>5, <1>7, <2>1, Topology DEF WakeUpInv, ConnectionAwake, Handlers
<1> QED
  BY <1>2, <1>4, <1>6, <1>8 DEF WakeUpInv

LEMMA EndTickInv ==
    ASSUME WakeUpInv, TypeOK', NEW k \in Conns, EndTick(k)
    PROVE  WakeUpInv'
<1>l. PICK later : later = IF madeProgress[k] THEN {k} ELSE {}
  OBVIOUS
<1>0. /\ TypeOK /\ k \in Handlers /\ k \notin Agents
      /\ pc[k] = "scan" /\ pc'[k] = "idle" /\ \A h \in Handlers : h # k => pc'[h] = pc[h]
      /\ visited[k] = Len(PortList[k])
      /\ \A j \in Conns : j # k => nextPortID'[j] = nextPortID[j]
      /\ ScheduleTicks({}, later)
      /\ UNCHANGED <<now, madeProgress, buf, portBusy, endBuf, endBusy, visited, MsgsToSend,
                     received>>
  BY <1>l DEF WakeUpInv, EndTick, TypeOK, portVars, agentVars, Handlers
<1>3. /\ {} \in SUBSET Conns /\ {} \in SUBSET Handlers /\ {} \cap Agents = {}
      /\ later \in SUBSET Handlers
  BY <1>0, <1>l
<1>4. /\ \A e \in queue' : e \in queue \/ e.time > now
      /\ \A e \in queue' : e \in queue \/ e.time >= now
      /\ \A e \in secondaryQueue' : e \in secondaryQueue \/ e.time >= now
      /\ queue \subseteq queue' /\ secondaryQueue \subseteq secondaryQueue'
  BY <1>0, <1>3, ScheduleTicksTimes, ScheduleTicksType
<1>5. madeProgress[k] => Pending(k)'
  <2>1. \A h \in later : Pending(h)'
    BY <1>0, <1>3, ScheduleTicksWakes DEF WakeUpInv
  <2> QED
    BY <1>l, <2>1
<1>6. \A h \in Handlers : Pending(h) => Pending(h)'
  BY <1>4 DEF Pending
<1>7. PrimariesDone /\ PrimariesDone'
  <2>1. PrimariesDone
    BY <1>0 DEF WakeUpInv, SecondaryAfterPrimary, Idle
  <2> QED
    BY <1>0, <1>4, <2>1 DEF PrimariesDone, Idle, Handlers
<1>8. PcOK' /\ SecondaryAfterPrimary'
  BY <1>0, <1>7 DEF WakeUpInv, PcOK, SecondaryAfterPrimary, Handlers
<1>9. NoEventInThePast' /\ Routed' /\ FlagsMeanFull'
  BY <1>0, <1>4 DEF WakeUpInv, NoEventInThePast, Routed, FlagsMeanFull
<1>10. DroppedTicksAreRedundant'
  BY <1>0, <1>3, <1>7, ScheduleTicksRecords DEF WakeUpInv
<1>11. ReceiverAwake' /\ SenderAwake'
  BY <1>0, <1>6, Topology DEF WakeUpInv, ReceiverAwake, SenderAwake, Handlers
<1>12. ConnectionAwake'
  <2>1. ASSUME NEW q \in Ports, ToVisit(q) PROVE ConnOf[q] # k /\ ToVisit(q)'
    <3>1. ConnOf[q] # k
      BY <1>0, <2>1, Topology DEF ToVisit
    <3> QED
      BY <1>0, <2>1, <3>1, Topology DEF ToVisit
  <2> QED
    BY <1>0, <1>5, <1>6, <2>1, Topology DEF WakeUpInv, ConnectionAwake, Handlers
<1> QED
  BY <1>8, <1>9, <1>10, <1>11, <1>12 DEF WakeUpInv

LEMMA NextInv == WakeUpInv /\ [Next]_vars => WakeUpInv'
<1> SUFFICES ASSUME WakeUpInv, [Next]_vars PROVE WakeUpInv'
  OBVIOUS
<1>1. TypeOK'
  BY NextType DEF WakeUpInv
<1>2. CASE UNCHANGED vars
  BY <1>2 DEF vars, engineVars, portVars, connVars, agentVars, WakeUpInv, TypeOK, PcOK,
      NoEventInThePast, SecondaryAfterPrimary, PrimariesDone, Idle, Routed, FlagsMeanFull,
      DroppedTicksAreRedundant, ReceiverAwake, SenderAwake, ConnectionAwake, Pending, ToVisit
<1>3. CASE \E e \in queue : RunPrimary(e)
  BY <1>1, <1>3, RunPrimaryInv
<1>4. CASE \E e \in secondaryQueue : RunSecondary(e)
  BY <1>1, <1>4, RunSecondaryInv
<1>5. CASE \E a \in Agents : Send(a)
  BY <1>1, <1>5, SendInv
<1>6. CASE \E a \in Agents : Recv(a)
  BY <1>1, <1>6, RecvInv
<1>7. CASE \E k \in Conns : Deliver(k)
  BY <1>1, <1>7, DeliverInv
<1>8. CASE \E k \in Conns : LeavePort(k)
  BY <1>1, <1>8, LeavePortInv
<1>9. CASE \E k \in Conns : EndTick(k)
  BY <1>1, <1>9, EndTickInv
<1> QED
  BY <1>2, <1>3, <1>4, <1>5, <1>6, <1>7, <1>8, <1>9
  DEF Next, EngineStep, AgentStep, ConnStep, Return

-----------------------------------------------------------------------------
(* The theorems *)

(* The variables keep their types, whatever the topology and the clocks. *)
THEOREM TypeCorrect == Spec => []TypeOK
  BY InitType, NextType, PTL DEF Spec

(* The wake-up protocol is an inductive invariant. *)
THEOREM WakeUp == Spec => []WakeUpInv
  BY InitInv, NextInv, PTL DEF Spec

(* When Run returns, every message of the workload has reached its          *)
(* destination: a component or a connection never sleeps over work.         *)
THEOREM NothingIsLeftBehind == Spec => []NothingLeftBehind
<1>1. WakeUpInv => NothingLeftBehind
  <2> SUFFICES ASSUME WakeUpInv, RunReturned
               PROVE  /\ \A a \in Agents : MsgsToSend[a] = << >>
                      /\ \A p \in Ports : endBuf[p] = << >> /\ buf[p] = << >>
    BY DEF NothingLeftBehind
  <2>1. \A h \in Handlers : ~Pending(h) /\ pc[h] = "idle"
    BY DEF RunReturned, Idle, Pending
  <2>2. \A p \in Ports : buf[p] = << >>
    BY <2>1, Topology DEF WakeUpInv, ReceiverAwake, Handlers
  <2>3. ASSUME NEW p \in Ports PROVE endBuf[p] = << >>
    <3>1. SUFFICES ASSUME endBuf[p] # << >> PROVE FALSE
      OBVIOUS
    <3>2. PICK d : d = Head(endBuf[p]).dst
      OBVIOUS
    <3>3. d \in Ports
      BY <3>1, <3>2, HeadOfMessages DEF WakeUpInv, TypeOK
    <3>4. portBusy[d]
      BY <2>1, <3>1, <3>2, Topology DEF WakeUpInv, ConnectionAwake, Handlers
    <3>5. Len(buf[d]) >= PortCap[d] /\ PortCap[d] \in Nat \ {0}
      BY <3>3, <3>4, CapacityAssumption DEF WakeUpInv, FlagsMeanFull
    <3>6. Len(buf[d]) = 0
      BY <2>2, <3>3
    <3> QED
      BY <3>5, <3>6
  <2>4. ASSUME NEW a \in Agents PROVE MsgsToSend[a] = << >>
    <3>1. SUFFICES ASSUME MsgsToSend[a] # << >> PROVE FALSE
      OBVIOUS
    <3>2. PICK p : p = Head(MsgsToSend[a]).src
      OBVIOUS
    <3>3. p \in Ports
      BY <3>1, <3>2, HeadOfMessages DEF WakeUpInv, TypeOK
    <3>4. endBusy[p]
      BY <2>1, <3>1, <3>2 DEF WakeUpInv, SenderAwake, Handlers
    <3>5. Len(endBuf[p]) >= BufSize[p] /\ BufSize[p] \in Nat \ {0}
      BY <3>3, <3>4, CapacityAssumption DEF WakeUpInv, FlagsMeanFull
    <3>6. Len(endBuf[p]) = 0
      BY <2>3, <3>3
    <3> QED
      BY <3>5, <3>6
  <2> QED
    BY <2>2, <2>3, <2>4
<1> QED
  BY <1>1, WakeUp, PTL

-----------------------------------------------------------------------------
(* The refinement of OrderedDelivery.  Induction is the least number        *)
(* principle, applied to the set of the numbers that have the property.     *)

(* A set of numbers that is not empty has a least one. *)
LEMMA FirstNat ==
    ASSUME NEW T \in SUBSET Nat, T # {}
    PROVE  \E x \in T : \A y \in T : x <= y
<1>1. IsWellFoundedOn(OpToRel(<, Nat), Nat)
  BY NatLessThanWellFounded
<1>2. PICK x \in T : \A y \in T : ~ (<<y, x>> \in OpToRel(<, Nat))
  BY <1>1, WFMin
<1>3. \A y \in T : ~(y < x)
  BY <1>2 DEF OpToRel
<1> QED
  BY <1>3

(* Induction on 0..N, for the numbers of a set. *)
LEMMA UpTo ==
    ASSUME NEW N \in Nat, NEW G, 0 \in G,
           \A i \in 1..N : i - 1 \in G => i \in G
    PROVE  \A i \in 0..N : i \in G
<1> DEFINE Bad == {i \in 0..N : i \notin G}
<1>1. SUFFICES ASSUME Bad # {} PROVE FALSE
  OBVIOUS
<1>2. Bad \in SUBSET Nat
  OBVIOUS
<1>3. PICK n \in Bad : \A y \in Bad : n <= y
  <2> HIDE DEF Bad
  <2> QED
    BY <1>1, <1>2, FirstNat
<1>4. n \in 0..N /\ n \notin G
  OBVIOUS
<1>5. n \in 1..N /\ n - 1 \in 0..N /\ ~(n <= n - 1)
  BY <1>4
<1>6. n - 1 \in G
  BY <1>3, <1>5
<1> QED
  BY <1>4, <1>5, <1>6

(* A message put at the end of the second of two sequences. *)
LEMMA AppendToConcat ==
    ASSUME NEW S, NEW s \in Seq(S), NEW t \in Seq(S), NEW m \in S
    PROVE  s \o Append(t, m) = Append(s \o t, m)
  OBVIOUS

(* What the filter has kept of the first i messages, given what it had kept *)
(* of the ones before.                                                      *)
KeptAt(s, i, a, b, prev) ==
    IF s[i].src = a /\ s[i].dst = b THEN Append(prev, s[i]) ELSE prev

(* The recursive function in FromTo exists and is what its equations say. *)
LEMMA FromToRecursion ==
    ASSUME NEW s \in Seq(Messages), NEW a, NEW b
    PROVE  /\ FromTo(s, a, b) \in Seq(Messages)
           /\ \E f : /\ FromTo(s, a, b) = f[Len(s)]
                     /\ f[0] = << >>
                     /\ \A i \in 1..Len(s) : f[i] = KeptAt(s, i, a, b, f[i - 1])
                     /\ \A i \in 0..Len(s) : f[i] \in Seq(Messages)
<1> DEFINE Rec(f, n) == f = [i \in 0..n |->
                              IF i = 0 THEN << >>
                              ELSE IF s[i].src = a /\ s[i].dst = b
                                   THEN Append(f[i - 1], s[i])
                              ELSE f[i - 1]]
           G == {n \in Nat : \E f : Rec(f, n)}
<1>1. Len(s) \in Nat
  OBVIOUS
<1>2. 0 \in G
  <2>1. Rec([i \in 0..0 |-> << >>], 0)
    OBVIOUS
  <2> QED
    BY <2>1
<1>3. ASSUME NEW n \in 1..Len(s), n - 1 \in G PROVE n \in G
  <2>1. PICK f : Rec(f, n - 1)
    BY <1>3
  <2>2. n \in Nat /\ n # 0 /\ n - 1 \in 0..n-1
    BY <1>1
  <2> DEFINE g == [i \in 0..n |->
                     IF i < n THEN f[i] ELSE KeptAt(s, n, a, b, f[n - 1])]
  <2>3. /\ \A i \in 0..n-1 : g[i] = f[i]
        /\ g[n] = KeptAt(s, n, a, b, f[n - 1])
    BY <2>2
  <2>4. \A i \in 0..n-1 : f[i] = IF i = 0 THEN << >>
                                 ELSE KeptAt(s, i, a, b, f[i - 1])
    BY <2>1, Zenon DEF KeptAt
  <2>5. ASSUME NEW i \in 0..n
        PROVE  g[i] = IF i = 0 THEN << >> ELSE KeptAt(s, i, a, b, g[i - 1])
    <3> HIDE DEF g
    <3>1. CASE i = 0
      BY <2>2, <2>3, <2>4, <3>1
    <3>2. CASE i # 0 /\ i # n
      <4>1. i \in 0..n-1 /\ i - 1 \in 0..n-1
        BY <2>2, <3>2
      <4> QED
        BY <2>3, <2>4, <3>2, <4>1, Zenon
    <3>3. CASE i = n
      BY <2>2, <2>3, <3>3, Zenon
    <3> QED
      BY <3>1, <3>2, <3>3
  <2>6. Rec(g, n)
    BY <2>5, Zenon DEF KeptAt
  <2> HIDE DEF g
  <2> QED
    BY <2>2, <2>6
<1>4. \E f : Rec(f, Len(s))
  <2>1. Len(s) \in G
    <3> HIDE DEF G
    <3>1. \A i \in 0..Len(s) : i \in G
      BY <1>1, <1>2, <1>3, UpTo
    <3> QED
      BY <1>1, <3>1
  <2> QED
    BY <2>1
<1> DEFINE h == CHOOSE f : Rec(f, Len(s))
<1>5. Rec(h, Len(s))
  BY <1>4, Zenon
<1>6. FromTo(s, a, b) = h[Len(s)]
  BY Zenon DEF FromTo
<1> HIDE DEF h
<1>7. \A i \in 0..Len(s) : h[i] = IF i = 0 THEN << >>
                                   ELSE KeptAt(s, i, a, b, h[i - 1])
  BY <1>5, Zenon DEF KeptAt
<1>8. h[0] = << >> /\ \A i \in 1..Len(s) : h[i] = KeptAt(s, i, a, b, h[i - 1])
  BY <1>1, <1>7
<1>9. \A i \in 0..Len(s) : h[i] \in Seq(Messages)
  <2> DEFINE T == {i \in Nat : h[i] \in Seq(Messages)}
  <2>1. 0 \in T
    <3>1. << >> \in Seq(Messages)
      OBVIOUS
    <3> QED
      BY <1>8, <3>1
  <2>2. ASSUME NEW i \in 1..Len(s), i - 1 \in T PROVE i \in T
    <3>1. i \in Nat /\ s[i] \in Messages /\ h[i - 1] \in Seq(Messages)
      BY <1>1, <2>2
    <3>2. PICK prev \in Seq(Messages) : prev = h[i - 1]
      BY <3>1
    <3>3. KeptAt(s, i, a, b, prev) \in Seq(Messages)
      BY <3>1 DEF KeptAt
    <3> QED
      BY <1>8, <3>1, <3>2, <3>3
  <2>3. \A i \in 0..Len(s) : i \in T
    <3> HIDE DEF T
    <3> QED
      BY <1>1, <2>1, <2>2, UpTo
  <2>4. \A i \in T : h[i] \in Seq(Messages)
    OBVIOUS
  <2> QED
    BY <2>3, <2>4, Zenon
<1>10. Len(s) \in 0..Len(s)
  BY <1>1
<1> QED
  BY <1>6, <1>8, <1>9, <1>10, Zenon

(* The filter returns messages. *)
LEMMA FromToType ==
    ASSUME NEW s \in Seq(Messages), NEW a, NEW b
    PROVE  FromTo(s, a, b) \in Seq(Messages)
  BY FromToRecursion

(* Nothing is kept of nothing. *)
LEMMA FromToEmpty ==
    ASSUME NEW a, NEW b
    PROVE  FromTo(<< >>, a, b) = << >>
<1>0. << >> \in Seq(Messages) /\ Len(<< >>) = 0
  OBVIOUS
<1>1. PICK s \in Seq(Messages) : s = << >> /\ Len(s) = 0
  BY <1>0, Zenon
<1>2. PICK f : FromTo(s, a, b) = f[Len(s)] /\ f[0] = << >>
  BY FromToRecursion
<1> QED
  BY <1>1, <1>2

(* Filtering a sequence with one message more at its end. *)
LEMMA FromToAppend ==
    ASSUME NEW s \in Seq(Messages), NEW m \in Messages, NEW a, NEW b
    PROVE  FromTo(Append(s, m), a, b) =
              IF m.src = a /\ m.dst = b THEN Append(FromTo(s, a, b), m)
                                        ELSE FromTo(s, a, b)
<1>0. /\ Len(s) \in Nat /\ Append(s, m) \in Seq(Messages)
      /\ Len(Append(s, m)) = Len(s) + 1
      /\ Append(s, m)[Len(s) + 1] = m
      /\ \A i \in 1..Len(s) : Append(s, m)[i] = s[i]
  OBVIOUS
<1>1. PICK t \in Seq(Messages) : /\ t = Append(s, m)
                          /\ Len(t) = Len(s) + 1
                          /\ t[Len(s) + 1] = m
                          /\ \A i \in 1..Len(s) : t[i] = s[i]
  BY <1>0, Zenon
<1>2. PICK f : /\ FromTo(s, a, b) = f[Len(s)]
               /\ f[0] = << >>
               /\ \A i \in 1..Len(s) : f[i] = KeptAt(s, i, a, b, f[i - 1])
               /\ \A i \in 0..Len(s) : f[i] \in Seq(Messages)
  BY FromToRecursion
<1>3. PICK g : /\ FromTo(t, a, b) = g[Len(t)]
               /\ g[0] = << >>
               /\ \A i \in 1..Len(t) : g[i] = KeptAt(t, i, a, b, g[i - 1])
  BY FromToRecursion
<1>4. \A i \in 0..Len(s) : f[i] = g[i]
  <2> DEFINE G == {i \in Nat : f[i] = g[i]}
  <2>1. 0 \in G
    BY <1>2, <1>3
  <2>2. ASSUME NEW i \in 1..Len(s), i - 1 \in G PROVE i \in G
    <3>1. i \in Nat /\ i \in 1..Len(t) /\ f[i - 1] = g[i - 1]
      BY <1>0, <1>1, <2>2
    <3>2. f[i] = g[i]
      BY <1>1, <1>2, <1>3, <3>1, Zenon DEF KeptAt
    <3> QED
      BY <3>1, <3>2
  <2>3. \A i \in 0..Len(s) : i \in G
    <3> HIDE DEF G
    <3> QED
      BY <1>0, <2>1, <2>2, UpTo
  <2> QED
    BY <2>3
<1>5. Len(s) \in 0..Len(s) /\ Len(s) + 1 \in 1..Len(t) /\ (Len(s) + 1) - 1 = Len(s)
  BY <1>0, <1>1
<1>6. g[Len(s) + 1] = KeptAt(t, Len(s) + 1, a, b, f[Len(s)])
  BY <1>3, <1>4, <1>5
<1>7. FromTo(t, a, b) = KeptAt(t, Len(s) + 1, a, b, FromTo(s, a, b))
  BY <1>1, <1>2, <1>3, <1>6
<1> QED
  BY <1>1, <1>2, <1>5, <1>7, Zenon DEF KeptAt

(* Filtering a sequence whose first message has been taken. *)
LEMMA FromToTail ==
    ASSUME NEW s \in Seq(Messages), s # << >>, NEW a, NEW b
    PROVE  /\ FromTo(s, a, b) \in Seq(Messages)
           /\ FromTo(Tail(s), a, b) \in Seq(Messages)
           /\ FromTo(s, a, b) =
                 IF Head(s).src = a /\ Head(s).dst = b
                 THEN <<Head(s)>> \o FromTo(Tail(s), a, b)
                 ELSE FromTo(Tail(s), a, b)
<1>a. /\ Tail(s) \in Seq(Messages) /\ Len(s) = Len(Tail(s)) + 1
      /\ s[1] = Head(s) /\ s[1] \in Messages
      /\ \A i \in 1..Len(Tail(s)) : Tail(s)[i] = s[i + 1] /\ Tail(s)[i] \in Messages
  OBVIOUS
<1>0. PICK t \in Seq(Messages) : /\ t = Tail(s) /\ Len(s) = Len(t) + 1
                          /\ s[1] = Head(s) /\ s[1] \in Messages
                          /\ \A i \in 1..Len(t) : t[i] = s[i + 1] /\ t[i] \in Messages
  BY <1>a, Zenon
<1>1. Len(t) \in Nat /\ Len(t) \in 0..Len(t) /\ Len(s) \in 0..Len(s)
  BY <1>0
<1>2. PICK f : /\ FromTo(s, a, b) = f[Len(s)]
               /\ f[0] = << >>
               /\ \A i \in 1..Len(s) : f[i] = KeptAt(s, i, a, b, f[i - 1])
               /\ \A i \in 0..Len(s) : f[i] \in Seq(Messages)
  BY FromToRecursion
<1>3. PICK g : /\ FromTo(t, a, b) = g[Len(t)]
               /\ g[0] = << >>
               /\ \A i \in 1..Len(t) : g[i] = KeptAt(t, i, a, b, g[i - 1])
               /\ \A i \in 0..Len(t) : g[i] \in Seq(Messages)
  BY FromToRecursion
<1>b. <<s[1]>> \in Seq(Messages) /\ << >> \in Seq(Messages)
  BY <1>0
<1>4. PICK pre \in Seq(Messages) :
         pre = IF s[1].src = a /\ s[1].dst = b THEN <<s[1]>> ELSE << >>
  BY <1>b, Zenon
<1>5. \A i \in 0..Len(t) : f[i + 1] = pre \o g[i]
  <2> DEFINE G == {i \in Nat : f[i + 1] = pre \o g[i]}
  <2>1. 0 \in G
    <3>1. 1 \in 1..Len(s) /\ 1 - 1 = 0 /\ 0 + 1 = 1
      BY <1>0, <1>1
    <3>2. f[1] = KeptAt(s, 1, a, b, << >>)
      BY <1>2, <3>1
    <3>3. Append(<< >>, s[1]) = <<s[1]>>
      OBVIOUS
    <3>4. f[1] = pre
      BY <1>4, <3>2, <3>3, Zenon DEF KeptAt
    <3>5. pre \o << >> = pre
      BY <1>4
    <3> QED
      BY <1>3, <3>1, <3>4, <3>5
  <2>2. ASSUME NEW i \in 1..Len(t), i - 1 \in G PROVE i \in G
    <3>1. /\ i \in Nat /\ i + 1 \in 1..Len(s) /\ (i + 1) - 1 = i
          /\ i - 1 \in 0..Len(t) /\ (i - 1) + 1 = i
      BY <1>0, <1>1
    <3>2. f[i] = pre \o g[i - 1]
      BY <2>2, <3>1
    <3>3. f[i + 1] = KeptAt(s, i + 1, a, b, f[i])
      BY <1>2, <3>1
    <3>4. g[i] = KeptAt(t, i, a, b, g[i - 1])
      BY <1>3
    <3>5. t[i] = s[i + 1] /\ t[i] \in Messages /\ g[i - 1] \in Seq(Messages)
      BY <1>0, <1>3, <3>1
    <3>6. pre \o Append(g[i - 1], t[i]) = Append(pre \o g[i - 1], t[i])
      <4>1. \A x \in Seq(Messages), e \in Messages : pre \o Append(x, e) = Append(pre \o x, e)
        BY AppendToConcat
      <4> QED
        BY <3>5, <4>1, Zenon
    <3>7. f[i + 1] = pre \o g[i]
      BY <3>2, <3>3, <3>4, <3>5, <3>6, Zenon DEF KeptAt
    <3> QED
      BY <3>1, <3>7
  <2>3. \A i \in 0..Len(t) : i \in G
    <3> HIDE DEF G
    <3> QED
      BY <1>1, <2>1, <2>2, UpTo
  <2> QED
    BY <2>3
<1>6. f[Len(s)] = pre \o g[Len(t)]
  BY <1>0, <1>1, <1>5
<1>7. f[Len(s)] \in Seq(Messages) /\ g[Len(t)] \in Seq(Messages)
  BY <1>1, <1>2, <1>3
<1>8. << >> \o g[Len(t)] = g[Len(t)]
  BY <1>7
<1> QED
  BY <1>0, <1>2, <1>3, <1>4, <1>6, <1>7, <1>8, Zenon

-----------------------------------------------------------------------------
(* A message waits at the end of its source and then at its destination. *)
Addressed ==
    \A p \in Ports :
        /\ \A i \in 1..Len(endBuf[p]) : endBuf[p][i].src = p
        /\ \A i \in 1..Len(buf[p]) : buf[p][i].dst = p

LEMMA InitAddressed == Init => Addressed
  BY DEF Init, Addressed

(* What a component sends is the youngest message in flight. *)
LEMMA SendFlow ==
    ASSUME TypeOK, NEW a \in Agents, SendOK(a), NEW x \in Ports, NEW y \in Ports
    PROVE  Between(x, y)' = IF x = Head(MsgsToSend[a]).src /\ y = Head(MsgsToSend[a]).dst
                            THEN Append(Between(x, y), Head(MsgsToSend[a]))
                            ELSE Between(x, y)
<1>1. PICK m \in Messages : m = Head(MsgsToSend[a]) /\ m.src \in Ports
  BY HeadOfMessages DEF SendOK, TypeOK
<1>2. /\ buf' = buf
      /\ endBuf' = [endBuf EXCEPT ![m.src] = Append(@, m)]
  BY <1>1 DEF SendOK, portVars
<1>3. endBuf[x] \in Seq(Messages) /\ buf[y] \in Seq(Messages)
  BY DEF TypeOK
<1>4. /\ FromTo(endBuf[x], x, y) \in Seq(Messages)
      /\ FromTo(buf[y], x, y) \in Seq(Messages)
  BY <1>3, FromToType
<1>5. CASE x = m.src
  <2>1. endBuf'[x] = Append(endBuf[x], m)
    BY <1>2, <1>5 DEF TypeOK
  <2>2. FromTo(endBuf'[x], x, y) = IF m.dst = y THEN Append(FromTo(endBuf[x], x, y), m)
                                               ELSE FromTo(endBuf[x], x, y)
    <3>1. PICK s \in Seq(Messages) : s = endBuf[x]
      BY <1>3
    <3>2. FromTo(Append(s, m), x, y) =
             IF m.src = x /\ m.dst = y THEN Append(FromTo(s, x, y), m)
                                       ELSE FromTo(s, x, y)
      BY FromToAppend, SMT
    <3> QED
      BY <1>5, <2>1, <3>1, <3>2, Zenon
  <2>3. FromTo(buf[y], x, y) \o Append(FromTo(endBuf[x], x, y), m)
           = Append(FromTo(buf[y], x, y) \o FromTo(endBuf[x], x, y), m)
    BY <1>4, AppendToConcat
  <2>4. Between(x, y)' = FromTo(buf[y], x, y) \o FromTo(endBuf'[x], x, y)
    BY <1>2 DEF Between
  <2> QED
    BY <1>1, <1>5, <2>2, <2>3, <2>4, Zenon DEF Between
<1>6. CASE x # m.src
  <2>1. endBuf'[x] = endBuf[x]
    BY <1>2, <1>6 DEF TypeOK
  <2>2. Between(x, y)' = Between(x, y)
    BY <1>2, <2>1 DEF Between
  <2> QED
    BY <1>1, <1>6, <2>2
<1> QED
  BY <1>5, <1>6

(* A delivery moves a message in flight past nothing. *)
LEMMA DeliverFlow ==
    ASSUME TypeOK, Addressed, NEW k \in Conns, Deliver(k), NEW x \in Ports, NEW y \in Ports
    PROVE  Between(x, y)' = Between(x, y)
<1>1. PICK p : p = Current(k) /\ p \in Ports
  BY CurrentPort
<1>2. /\ endBuf[p] # << >>
      /\ endBuf' = [endBuf EXCEPT ![p] = Tail(@)]
      /\ buf' = [buf EXCEPT ![Head(endBuf[p]).dst] = Append(@, Head(endBuf[p]))]
  BY <1>1 DEF Deliver
<1>3. PICK m \in Messages : m = Head(endBuf[p]) /\ m.src = p /\ m.dst \in Ports
  <2>1. endBuf[p] \in Seq(Messages)
    BY <1>1 DEF TypeOK
  <2>2. /\ Head(endBuf[p]) \in Messages /\ Head(endBuf[p]).dst \in Ports
        /\ Len(endBuf[p]) \in Nat \ {0} /\ endBuf[p][1] = Head(endBuf[p])
    BY <1>2, <2>1, HeadOfMessages
  <2>3. 1 \in 1..Len(endBuf[p])
    BY <2>2
  <2>4. Head(endBuf[p]).src = p
    BY <1>1, <2>2, <2>3 DEF Addressed
  <2> QED
    BY <2>2, <2>4, Zenon
<1>4. endBuf[x] \in Seq(Messages) /\ buf[y] \in Seq(Messages)
  BY DEF TypeOK
<1>5. PICK e \in Seq(Messages) : e = FromTo(endBuf[x], x, y)
  BY <1>4, FromToType
<1>6. PICK b \in Seq(Messages) : b = FromTo(buf[y], x, y)
  BY <1>4, FromToType
<1>7. CASE x = p
  <2>1. endBuf[x] # << >> /\ endBuf'[x] = Tail(endBuf[x]) /\ m = Head(endBuf[x])
    BY <1>1, <1>2, <1>3, <1>7 DEF TypeOK
  <2>2. /\ FromTo(Tail(endBuf[x]), x, y) \in Seq(Messages)
        /\ e = IF m.src = x /\ m.dst = y
               THEN <<m>> \o FromTo(Tail(endBuf[x]), x, y)
               ELSE FromTo(Tail(endBuf[x]), x, y)
    <3>1. PICK s \in Seq(Messages) : s = endBuf[x]
      BY <1>4
    <3>2. s # << >>
      BY <2>1, <3>1
    <3>3. /\ FromTo(Tail(s), x, y) \in Seq(Messages)
          /\ FromTo(s, x, y) = IF Head(s).src = x /\ Head(s).dst = y
                               THEN <<Head(s)>> \o FromTo(Tail(s), x, y)
                               ELSE FromTo(Tail(s), x, y)
      BY <3>2, FromToTail
    <3> QED
      BY <1>5, <2>1, <3>1, <3>3, Zenon
  <2>3. PICK rest \in Seq(Messages) :
           /\ rest = FromTo(endBuf'[x], x, y)
           /\ e = IF m.dst = y THEN <<m>> \o rest ELSE rest
    BY <1>3, <1>7, <2>1, <2>2, Zenon
  <2>4. CASE m.dst = y
    <3>1. buf'[y] = Append(buf[y], m)
      BY <1>2, <1>3, <2>4 DEF TypeOK
    <3>2. FromTo(buf'[y], x, y) = Append(b, m)
      <4>1. PICK s \in Seq(Messages) : s = buf[y]
        BY <1>4
      <4>2. FromTo(Append(s, m), x, y) =
               IF m.src = x /\ m.dst = y THEN Append(FromTo(s, x, y), m)
                                         ELSE FromTo(s, x, y)
        BY FromToAppend, SMT
      <4> QED
        BY <1>3, <1>6, <1>7, <2>4, <3>1, <4>1, <4>2, Zenon
    <3>3. Append(b, m) \o rest = b \o (<<m>> \o rest)
      OBVIOUS
    <3> QED
      BY <1>5, <1>6, <2>3, <2>4, <3>2, <3>3, Zenon DEF Between
  <2>5. CASE m.dst # y
    <3>1. buf'[y] = buf[y]
      BY <1>2, <1>3, <2>5 DEF TypeOK
    <3> QED
      BY <1>5, <1>6, <2>3, <2>5, <3>1, Zenon DEF Between
  <2> QED
    BY <2>4, <2>5
<1>8. CASE x # p
  <2>1. endBuf'[x] = endBuf[x]
    BY <1>2, <1>8 DEF TypeOK
  <2>2. FromTo(buf'[y], x, y) = FromTo(buf[y], x, y)
    <3>1. CASE m.dst = y
      <4>1. buf'[y] = Append(buf[y], m)
        BY <1>2, <1>3, <3>1 DEF TypeOK
      <4> QED
        BY <1>3, <1>4, <1>8, <4>1, FromToAppend
    <3>2. CASE m.dst # y
      BY <1>2, <1>3, <3>2 DEF TypeOK
    <3> QED
      BY <3>1, <3>2
  <2> QED
    BY <2>1, <2>2, Zenon DEF Between
<1> QED
  BY <1>7, <1>8

(* What a component retrieves is the oldest message in flight. *)
LEMMA RecvFlow ==
    ASSUME TypeOK, Addressed, NEW a \in Agents, Recv(a), NEW x \in Ports, NEW y \in Ports
    PROVE  IF y \in Arrived(a) /\ Head(buf[y]).src = x
           THEN /\ Between(x, y) # << >>
                /\ Head(Between(x, y)) = Head(buf[y])
                /\ Between(x, y)' = Tail(Between(x, y))
           ELSE Between(x, y)' = Between(x, y)
<1>1. /\ endBuf' = endBuf
      /\ buf' = [p \in Ports |-> IF p \in Arrived(a) THEN Tail(buf[p]) ELSE buf[p]]
  BY DEF Recv, connVars
<1>2. endBuf[x] \in Seq(Messages) /\ buf[y] \in Seq(Messages)
  BY DEF TypeOK
<1>3. PICK e \in Seq(Messages) : e = FromTo(endBuf[x], x, y)
  BY <1>2, FromToType
<1>4. CASE y \in Arrived(a)
  <2>1. buf[y] # << >> /\ buf'[y] = Tail(buf[y])
    BY <1>1, <1>4 DEF Arrived
  <2>2. PICK m \in Messages : m = Head(buf[y]) /\ m.dst = y
    BY <1>2, <2>1, HeadOfMessages DEF Addressed
  <2>3. /\ FromTo(Tail(buf[y]), x, y) \in Seq(Messages)
        /\ FromTo(buf[y], x, y) = IF m.src = x /\ m.dst = y
               THEN <<m>> \o FromTo(Tail(buf[y]), x, y)
               ELSE FromTo(Tail(buf[y]), x, y)
    BY <1>2, <2>1, <2>2, FromToTail
  <2>4. PICK rest \in Seq(Messages) :
           /\ rest = FromTo(buf'[y], x, y)
           /\ FromTo(buf[y], x, y) = IF m.src = x THEN <<m>> \o rest ELSE rest
    BY <2>1, <2>2, <2>3, Zenon
  <2>5. /\ (<<m>> \o rest) \o e # << >>
        /\ Head((<<m>> \o rest) \o e) = m
        /\ Tail((<<m>> \o rest) \o e) = rest \o e
    OBVIOUS
  <2> QED
    BY <1>1, <1>3, <1>4, <2>2, <2>4, <2>5, Zenon DEF Between
<1>5. CASE y \notin Arrived(a)
  BY <1>1, <1>5 DEF Between
<1> QED
  BY <1>4, <1>5

(* The steps that neither accept, deliver nor retrieve a message. *)
LEMMA OtherSteps ==
    ASSUME [Next]_vars
    PROVE  \/ UNCHANGED <<endBuf, buf, MsgsToSend, received>>
           \/ \E a \in Agents : SendOK(a)
           \/ \E a \in Agents : Recv(a)
           \/ \E k \in Conns : Deliver(k)
<1> DEFINE Same == UNCHANGED <<endBuf, buf, MsgsToSend, received>>
<1>1. CASE \E e \in queue : RunPrimary(e)
  BY <1>1 DEF RunPrimary, portVars, connVars, agentVars
<1>2. CASE \E e \in secondaryQueue : RunSecondary(e)
  BY <1>2 DEF RunSecondary, portVars, agentVars
<1>3. ASSUME NEW a \in Agents, Send(a) PROVE Same \/ SendOK(a)
  BY <1>3 DEF Send, SendSkip, SendFail, portVars, connVars, agentVars
<1>4. CASE \E k \in Conns : LeavePort(k) \/ EndTick(k)
  BY <1>4 DEF LeavePort, EndTick, portVars, agentVars
<1>5. CASE UNCHANGED vars
  BY <1>5 DEF vars, portVars, connVars, agentVars
<1> QED
  BY <1>1, <1>2, <1>3, <1>4, <1>5 DEF Next, EngineStep, AgentStep, ConnStep, Return

LEMMA NextAddressed == WakeUpInv /\ Addressed /\ [Next]_vars => Addressed'
<1> SUFFICES ASSUME WakeUpInv, Addressed, [Next]_vars PROVE Addressed'
  OBVIOUS
<1>0. TypeOK
  BY DEF WakeUpInv
<1>1. CASE UNCHANGED <<endBuf, buf>>
  BY <1>1 DEF Addressed
<1>2. ASSUME NEW a \in Agents, SendOK(a) PROVE Addressed'
  <2>1. PICK m \in Messages : m = Head(MsgsToSend[a]) /\ m.src \in Ports
    BY <1>0, <1>2, HeadOfMessages DEF SendOK, TypeOK
  <2>2. buf' = buf /\ endBuf' = [endBuf EXCEPT ![m.src] = Append(@, m)]
    BY <1>2, <2>1 DEF SendOK, portVars
  <2>3. ASSUME NEW p \in Ports, NEW i \in 1..Len(endBuf'[p])
        PROVE  endBuf'[p][i].src = p
    <3>1. CASE p = m.src
      <4>1. endBuf'[p] = Append(endBuf[p], m) /\ endBuf[p] \in Seq(Messages)
        BY <1>0, <2>2, <3>1 DEF TypeOK
      <4>2. \/ i \in 1..Len(endBuf[p]) /\ endBuf'[p][i] = endBuf[p][i]
            \/ endBuf'[p][i] = m
        BY <2>3, <4>1, AppendElements
      <4> QED
        BY <3>1, <4>2 DEF Addressed
    <3>2. CASE p # m.src
      <4>1. endBuf'[p] = endBuf[p]
        BY <1>0, <2>2, <3>2 DEF TypeOK
      <4> QED
        BY <2>3, <4>1 DEF Addressed
    <3> QED
      BY <3>1, <3>2
  <2> QED
    BY <2>2, <2>3 DEF Addressed
<1>3. ASSUME NEW a \in Agents, Recv(a) PROVE Addressed'
  <2>1. endBuf' = endBuf
    BY <1>3 DEF Recv, connVars
  <2>2. ASSUME NEW p \in Ports, NEW i \in 1..Len(buf'[p])
        PROVE  buf'[p][i].dst = p
    <3>1. CASE p \in Arrived(a)
      <4>1. buf'[p] = Tail(buf[p]) /\ buf[p] # << >> /\ buf[p] \in Seq(Messages)
        BY <1>0, <1>3, <3>1 DEF Recv, Arrived, TypeOK
      <4>2. i + 1 \in 1..Len(buf[p]) /\ buf'[p][i] = buf[p][i + 1]
        BY <2>2, <4>1, TailElements
      <4> QED
        BY <4>2 DEF Addressed
    <3>2. CASE p \notin Arrived(a)
      <4>1. buf'[p] = buf[p]
        BY <1>3, <3>2 DEF Recv
      <4> QED
        BY <2>2, <4>1 DEF Addressed
    <3> QED
      BY <3>1, <3>2
  <2> QED
    BY <2>1, <2>2 DEF Addressed
<1>4. ASSUME NEW k \in Conns, Deliver(k) PROVE Addressed'
  <2>1. PICK p : p = Current(k) /\ p \in Ports
    BY <1>0, CurrentPort
  <2>2. /\ endBuf[p] # << >> /\ endBuf[p] \in Seq(Messages)
        /\ endBuf' = [endBuf EXCEPT ![p] = Tail(@)]
        /\ buf' = [buf EXCEPT ![Head(endBuf[p]).dst] = Append(@, Head(endBuf[p]))]
    BY <1>0, <1>4, <2>1 DEF Deliver, TypeOK
  <2>3. PICK m \in Messages : m = Head(endBuf[p]) /\ m.dst \in Ports
    BY <2>2, HeadOfMessages
  <2>4. ASSUME NEW q \in Ports, NEW i \in 1..Len(endBuf'[q])
        PROVE  endBuf'[q][i].src = q
    <3>1. CASE q = p
      <4>1. endBuf'[q] = Tail(endBuf[q])
        BY <1>0, <2>2, <3>1 DEF TypeOK
      <4>2. i + 1 \in 1..Len(endBuf[q]) /\ endBuf'[q][i] = endBuf[q][i + 1]
        BY <2>2, <2>4, <3>1, <4>1, TailElements
      <4> QED
        BY <4>2 DEF Addressed
    <3>2. CASE q # p
      <4>1. endBuf'[q] = endBuf[q]
        BY <1>0, <2>2, <3>2 DEF TypeOK
      <4> QED
        BY <2>4, <4>1 DEF Addressed
    <3> QED
      BY <3>1, <3>2
  <2>5. ASSUME NEW q \in Ports, NEW i \in 1..Len(buf'[q])
        PROVE  buf'[q][i].dst = q
    <3>1. CASE q = m.dst
      <4>1. buf'[q] = Append(buf[q], m) /\ buf[q] \in Seq(Messages)
        BY <1>0, <2>2, <2>3, <3>1 DEF TypeOK
      <4>2. \/ i \in 1..Len(buf[q]) /\ buf'[q][i] = buf[q][i]
            \/ buf'[q][i] = m
        BY <2>5, <4>1, AppendElements
      <4> QED
        BY <3>1, <4>2 DEF Addressed
    <3>2. CASE q # m.dst
      <4>1. buf'[q] = buf[q]
        BY <1>0, <2>2, <2>3, <3>2 DEF TypeOK
      <4> QED
        BY <2>5, <4>1 DEF Addressed
    <3> QED
      BY <3>1, <3>2
  <2> QED
    BY <2>4, <2>5 DEF Addressed
<1> QED
  BY <1>1, <1>2, <1>3, <1>4, OtherSteps

(* Initially nothing is in flight. *)
LEMMA RefineInit == Init => OD!Init
<1> SUFFICES ASSUME Init PROVE OD!Init
  OBVIOUS
<1>1. ASSUME NEW x \in Ports, NEW y \in Ports PROVE Between(x, y) = << >>
  <2>1. buf[y] = << >> /\ endBuf[x] = << >>
    BY DEF Init
  <2>2. << >> \o << >> = << >>
    OBVIOUS
  <2> QED
    BY <2>1, <2>2, FromToEmpty DEF Between
<1>2. InFlight = [c \in Ports \X Ports |-> << >>]
  BY <1>1 DEF InFlight
<1> QED
  BY <1>2 DEF Init, OD!Init

(* Every step accepts a message, hands messages over or is not seen. *)
LEMMA RefineNext ==
    ASSUME TypeOK, Addressed, [Next]_vars
    PROVE  [OD!Next]_OD!vars
<1>1. CASE UNCHANGED <<endBuf, buf, MsgsToSend, received>>
  <2>1. InFlight' = InFlight
    BY <1>1 DEF InFlight, Between
  <2> QED
    BY <1>1, <2>1 DEF OD!vars
<1>2. ASSUME NEW a \in Agents, SendOK(a) PROVE OD!Accept(a)
  <2>1. PICK m \in Messages : m = Head(MsgsToSend[a]) /\ m.src \in Ports /\ m.dst \in Ports
    BY <1>2, HeadOfMessages DEF SendOK, TypeOK
  <2>2. \A x, y \in Ports : Between(x, y)' =
            IF x = m.src /\ y = m.dst THEN Append(Between(x, y), m) ELSE Between(x, y)
    BY <1>2, <2>1, SendFlow
  <2>3. InFlight' = [InFlight EXCEPT ![<<m.src, m.dst>>] = Append(@, m)]
    <3>1. InFlight' = [c \in Ports \X Ports |-> Between(c[1], c[2])']
      BY DEF InFlight
    <3>2. ASSUME NEW c \in Ports \X Ports
          PROVE  Between(c[1], c[2])' =
                    IF c = <<m.src, m.dst>> THEN Append(InFlight[c], m) ELSE InFlight[c]
      <4>1. PICK x \in Ports, y \in Ports : c = <<x, y>> /\ c[1] = x /\ c[2] = y
        OBVIOUS
      <4>2. (c = <<m.src, m.dst>>) <=> (x = m.src /\ y = m.dst)
        BY <4>1
      <4>3. InFlight[c] = Between(x, y)
        BY <4>1 DEF InFlight
      <4> QED
        BY <2>2, <4>1, <4>2, <4>3, Zenon
    <3>3. [InFlight EXCEPT ![<<m.src, m.dst>>] = Append(@, m)] =
            [c \in Ports \X Ports |->
               IF c = <<m.src, m.dst>> THEN Append(InFlight[c], m) ELSE InFlight[c]]
      <4>1. DOMAIN InFlight = Ports \X Ports
        BY DEF InFlight
      <4> QED
        BY <4>1, Zenon
    <3> QED
      BY <3>1, <3>2, <3>3, Zenon
  <2> QED
    BY <1>2, <2>1, <2>3 DEF SendOK, OD!Accept
<1>3. ASSUME NEW k \in Conns, Deliver(k) PROVE UNCHANGED OD!vars
  <2>1. InFlight' = InFlight
    BY <1>3, DeliverFlow DEF InFlight
  <2> QED
    BY <1>3, <2>1 DEF Deliver, agentVars, OD!vars
<1>4. ASSUME NEW a \in Agents, Recv(a) PROVE OD!TakeSome \/ UNCHANGED OD!vars
  <2> DEFINE got == Arrived(a)
             from == [p \in got |-> Head(buf[p]).src]
  <2>1. \A x, y \in Ports :
           IF y \in got /\ Head(buf[y]).src = x
           THEN /\ Between(x, y) # << >>
                /\ Head(Between(x, y)) = Head(buf[y])
                /\ Between(x, y)' = Tail(Between(x, y))
           ELSE Between(x, y)' = Between(x, y)
    BY <1>4, RecvFlow
  <2>2. /\ received' = [p \in Ports |->
              IF p \in got THEN Append(received[p], Head(buf[p])) ELSE received[p]]
        /\ MsgsToSend' = MsgsToSend
    BY <1>4 DEF Recv
  <2>3. got \subseteq OD!PortsOf(a)
    BY DEF Arrived, OD!PortsOf
  <2>4. \A p \in got : p \in Ports /\ Head(buf[p]).src \in Ports
    BY HeadOfMessages DEF Arrived, TypeOK
  <2> HIDE DEF got
  <2>5. CASE got = {}
    <3>1. InFlight' = InFlight
      BY <2>1, <2>5 DEF InFlight
    <3>2. received' = received
      BY <2>2, <2>5 DEF TypeOK
    <3> QED
      BY <2>2, <3>1, <3>2 DEF OD!vars
  <2>6. CASE got # {}
    <3>1. from \in [got -> Ports]
      BY <2>4
    <3>2. \A p \in got : /\ InFlight[<<from[p], p>>] # << >>
                         /\ Head(InFlight[<<from[p], p>>]) = Head(buf[p])
      BY <2>1, <2>4 DEF InFlight
    <3>3. InFlight' = [c \in Ports \X Ports |->
            IF c[2] \in got /\ from[c[2]] = c[1]
            THEN Tail(InFlight[c]) ELSE InFlight[c]]
      BY <2>1 DEF InFlight
    <3>4. received' = [p \in Ports |->
            IF p \in got THEN Append(received[p], Head(InFlight[<<from[p], p>>]))
                         ELSE received[p]]
      BY <2>2, <3>2
    <3>5. OD!Take(got, from)
      <4> HIDE DEF from
      <4> QED
        BY <2>2, <3>2, <3>3, <3>4, Zenon DEF OD!Take
    <3> HIDE DEF from
    <3>6. got \in (SUBSET OD!PortsOf(a)) \ {{}}
      BY <2>3, <2>6
    <3> QED
      BY <3>1, <3>5, <3>6, Zenon DEF OD!TakeSome
  <2> QED
    BY <2>5, <2>6
<1> QED
  BY <1>1, <1>2, <1>3, <1>4, OtherSteps DEF OD!Next

(* The ports and connections deliver what they promise: between two ports,  *)
(* each message once, unaltered and in the order of the sends (Send of the  *)
(* direct connection, forwardMany, Recv and Retrieve of the port).          *)
THEOREM DeliveryInOrder == Spec => DeliversInOrder
<1>1. Init => Addressed
  BY InitAddressed
<1>2. Spec => [](TypeOK /\ Addressed)
  BY <1>1, InitInv, NextInv, NextAddressed, TypeCorrect, PTL DEF Spec
<1>3. TypeOK /\ Addressed /\ [Next]_vars => [OD!Next]_OD!vars
  BY RefineNext
<1> QED
  BY <1>2, <1>3, RefineInit, PTL DEF Spec, DeliversInOrder, OD!Spec

=============================================================================
