------------------------- MODULE ParallelEngineProofs -------------------------
(***************************************************************************)
(* ParallelEngine, for every number of queues, events and times: each      *)
(* queue has one owner, the event loop implements EventEngine, and a       *)
(* secondary event waits for the primary events of its time.               *)
(***************************************************************************)
EXTENDS ParallelEngine, FiniteSetTheorems, WellFoundedInduction, TLAPS

Phases == {"setup", "check", "determine", "drain", "visit", "wait", "returned"}

Typed ==
    /\ now \in 0..MaxTime
    /\ queues \in [BOOLEAN -> [1..NumQueues -> SUBSET Events]]
    /\ queueChan \in [BOOLEAN -> Seq(1..NumQueues)]
    /\ runningSecondaryEvents \in BOOLEAN
    /\ pc \in Phases
    /\ cur \in 1..NumQueues
    /\ workers \subseteq Events
    /\ want \in [Ids -> Events \cup {NoEvent}]
    /\ held \in [Ids -> 0..NumQueues]
    /\ scheduled \in 0..MaxEvents

(* Goroutines run during a round only, and all on events of one kind. *)
Rounds ==
    /\ pc = "setup" => now = 0
    /\ pc \notin {"visit", "wait"} => workers = {}
    /\ pc = "determine" => InQueues(FALSE) \cup InQueues(TRUE) # {}
    /\ \A w \in workers : w.secondary = runningSecondaryEvents

(* An event waits in a queue of its kind, for a time that has not passed.  *)
Queued ==
    \A k \in BOOLEAN, q \in 1..NumQueues : \A e \in queues[k][q] :
        e.secondary = k /\ e.time >= now /\ e.id <= scheduled

(* The events that goroutines are about to schedule. *)
Wanted ==
    \A i \in Ids :
        /\ want[i] = NoEvent => held[i] = 0
        /\ want[i] # NoEvent =>
              /\ \E w \in workers : w.id = i
              /\ want[i].time >= now
              /\ want[i].id <= scheduled
              /\ runningSecondaryEvents /\ want[i].time = now => want[i].late

(* No event is in two places: in two queues, in a queue and with a handler, *)
(* or in one of these and about to be scheduled.                            *)
InOnePlace ==
    /\ \A j, k \in BOOLEAN, p, q \in 1..NumQueues :
          \A d \in queues[j][p], e \in queues[k][q] :
              d.id = e.id => j = k /\ p = q /\ d = e
    /\ \A v, w \in workers : v.id = w.id => v = w
    /\ \A w \in workers : w.id <= scheduled
    /\ \A k \in BOOLEAN, q \in 1..NumQueues : \A e \in queues[k][q], w \in workers :
          e.id # w.id
    /\ \A i \in Ids : want[i] # NoEvent =>
          /\ \A w \in workers : want[i].id # w.id
          /\ \A k \in BOOLEAN, q \in 1..NumQueues : \A e \in queues[k][q] :
                want[i].id # e.id
          /\ \A j \in Ids : want[j] # NoEvent /\ want[j].id = want[i].id => i = j

(* OneOwner, with a goroutine named by the number of its event. *)
Distinct(s) == \A m, n \in DOMAIN s : s[m] = s[n] => m = n
Elems(s) == {s[n] : n \in DOMAIN s}
Holds(i, k, q) == held[i] = q /\ want[i] # NoEvent /\ want[i].secondary = k

Owned(k) ==
    /\ Distinct(queueChan[k])
    /\ pc = "drain" /\ k = runningSecondaryEvents
          => Len(queueChan[k]) = NumQueues - cur + 1
    /\ \A q \in 1..NumQueues :
          /\ \A i, j \in Ids : Holds(i, k, q) /\ Holds(j, k, q) => i = j
          /\ q \in Elems(queueChan[k]) => q \notin HeldByRun(k)
          /\ \A i \in Ids : Holds(i, k, q) => /\ q \notin Elems(queueChan[k])
                                              /\ q \notin HeldByRun(k)
          /\ \/ q \in Elems(queueChan[k])
             \/ q \in HeldByRun(k)
             \/ \E i \in Ids : Holds(i, k, q)

(* While secondary events run, a primary event of their time is late: one of *)
(* them has scheduled it.                                                    *)
PrimariesLater ==
    runningSecondaryEvents /\ pc \in {"drain", "visit", "wait"} =>
        \A x \in InQueues(FALSE) : x.time > now \/ (x.time = now /\ x.late)

LoopInv ==
    /\ Typed /\ Rounds /\ Queued /\ Wanted /\ InOnePlace /\ PrimariesLater
    /\ \A k \in BOOLEAN : Owned(k)

-----------------------------------------------------------------------------
(* Channels as sequences *)

(* Taking a queue out of a channel. *)
LEMMA TakenOut ==
    ASSUME NEW S, NEW s \in Seq(S), s # << >>, Distinct(s)
    PROVE  /\ Head(s) \in Elems(s) /\ Head(s) \in S
           /\ Tail(s) \in Seq(S) /\ Len(Tail(s)) = Len(s) - 1 /\ Distinct(Tail(s))
           /\ Elems(Tail(s)) = Elems(s) \ {Head(s)}
<1>1. /\ Tail(s) \in Seq(S) /\ Len(Tail(s)) = Len(s) - 1 /\ Len(s) \in Nat \ {0}
      /\ \A n \in 1..(Len(s) - 1) : Tail(s)[n] = s[n + 1]
      /\ DOMAIN s = 1..Len(s) /\ DOMAIN Tail(s) = 1..(Len(s) - 1)
      /\ Head(s) = s[1] /\ s[1] \in S
  OBVIOUS
<1>2. Distinct(Tail(s))
  BY <1>1 DEF Distinct
<1>3. Elems(Tail(s)) \subseteq Elems(s) \ {Head(s)}
  BY <1>1 DEF Elems, Distinct
<1>4. ASSUME NEW q \in Elems(s) \ {Head(s)} PROVE q \in Elems(Tail(s))
  <2>1. PICK n \in DOMAIN s : q = s[n]
    BY DEF Elems
  <2>2. n # 1 /\ n - 1 \in DOMAIN Tail(s) /\ Tail(s)[n - 1] = s[n]
    BY <1>1, <2>1
  <2> QED
    BY <2>1, <2>2 DEF Elems
<1>5. Head(s) \in Elems(s)
  BY <1>1 DEF Elems
<1> QED
  BY <1>1, <1>2, <1>3, <1>4, <1>5

(* Putting a queue into a channel that does not hold it. *)
LEMMA PutIn ==
    ASSUME NEW s \in Seq(1..NumQueues), NEW q \in 1..NumQueues, Distinct(s), q \notin Elems(s)
    PROVE  /\ Append(s, q) \in Seq(1..NumQueues) /\ Distinct(Append(s, q))
           /\ Elems(Append(s, q)) = Elems(s) \cup {q}
<1>1. /\ Append(s, q) \in Seq(1..NumQueues) /\ Len(s) \in Nat
      /\ \A n \in 1..Len(s) : Append(s, q)[n] = s[n]
      /\ Append(s, q)[Len(s) + 1] = q
      /\ DOMAIN s = 1..Len(s) /\ DOMAIN Append(s, q) = 1..(Len(s) + 1)
  OBVIOUS
<1>2. \A n \in 1..Len(s) : s[n] # q
  BY <1>1 DEF Elems
<1>3. Distinct(Append(s, q))
  <2> SUFFICES ASSUME NEW m \in 1..(Len(s) + 1), NEW n \in 1..(Len(s) + 1),
                      Append(s, q)[m] = Append(s, q)[n]
               PROVE  m = n
    BY <1>1 DEF Distinct
  <2>1. CASE m \in 1..Len(s) /\ n \in 1..Len(s)
    BY <1>1, <2>1 DEF Distinct
  <2>2. CASE m = Len(s) + 1 \/ n = Len(s) + 1
    BY <1>1, <1>2, <2>2
  <2> QED
    BY <1>1, <2>1, <2>2
<1>4. Elems(Append(s, q)) \subseteq Elems(s) \cup {q}
  BY <1>1 DEF Elems
<1>5. Elems(s) \cup {q} \subseteq Elems(Append(s, q))
  <2>1. Elems(s) \subseteq Elems(Append(s, q))
    BY <1>1 DEF Elems
  <2>2. q \in Elems(Append(s, q))
    BY <1>1 DEF Elems
  <2> QED
    BY <2>1, <2>2
<1> QED
  BY <1>1, <1>3, <1>4, <1>5

(* What a channel holds. *)
LEMMA ElemsIn ==
    ASSUME NEW S, NEW s \in Seq(S)
    PROVE  Elems(s) \subseteq S
<1>1. \A n \in DOMAIN s : s[n] \in S
  OBVIOUS
<1> QED
  BY <1>1 DEF Elems

(* A channel that holds every queue once is full. *)
LEMMA FullChannel ==
    ASSUME NEW n \in Nat, NEW s \in Seq(1..n), Distinct(s), Elems(s) = 1..n
    PROVE  Len(s) = n
<1>1. Len(s) \in Nat /\ DOMAIN s = 1..Len(s) /\ s \in [1..Len(s) -> 1..n]
  OBVIOUS
<1>2. s \in Bijection(1..Len(s), 1..n)
  BY <1>1 DEF Distinct, Elems, Bijection, Injection, Surjection, IsInjective, Range
<1>3. ExistsBijection(1..Len(s), 1..n)
  BY <1>2 DEF ExistsBijection
<1>4. Cardinality(1..n) = Len(s)
  BY <1>1, <1>3, FS_CountingElements
<1>5. Cardinality(1..n) = n
  <2>1. Cardinality(1..n) = IF 1 > n THEN 0 ELSE n - 1 + 1
    BY FS_Interval
  <2> QED
    BY <2>1
<1> QED
  BY <1>4, <1>5

(* An event is not the mark for none. *)
LEMMA EventIsSome == NoEvent \notin Events
  BY DEF NoEvent, Events

-----------------------------------------------------------------------------
(* The inductive invariant says what OneOwner says. *)
LEMMA OwnedIsOneOwner ==
    ASSUME LoopInv
    PROVE  OneOwner
<1> SUFFICES ASSUME NEW k \in BOOLEAN
             PROVE
               /\ \A m, n \in DOMAIN queueChan[k] : queueChan[k][m] = queueChan[k][n] => m = n
               /\ \A v, w \in workers :
                     /\ held[v.id] # 0 /\ held[v.id] = held[w.id]
                     /\ want[v.id].secondary = want[w.id].secondary
                     => v = w
               /\ pc = "drain" /\ k = runningSecondaryEvents
                     => Len(queueChan[k]) = NumQueues - cur + 1
               /\ HeldByRun(k) \cap HeldByWorkers(k) = {}
               /\ InChan(k) \cap (HeldByRun(k) \cup HeldByWorkers(k)) = {}
               /\ InChan(k) \cup HeldByRun(k) \cup HeldByWorkers(k) = 1..NumQueues
  BY DEF OneOwner
<1>1. Typed /\ Wanted /\ InOnePlace /\ \A h \in BOOLEAN : Owned(h)
  BY DEF LoopInv
<1>2. \A w \in workers : /\ w.id \in Ids
                         /\ held[w.id] # 0 => /\ held[w.id] \in 1..NumQueues
                                              /\ want[w.id] # NoEvent
                                              /\ want[w.id].secondary \in BOOLEAN
  BY <1>1, ParallelAssumption, SMTT(30) DEF Typed, Wanted, Events
<1>3. ASSUME NEW v \in workers, NEW w \in workers,
             held[v.id] # 0, held[v.id] = held[w.id],
             want[v.id].secondary = want[w.id].secondary
      PROVE  v = w
  <2> DEFINE h == want[v.id].secondary
             q == held[v.id]
  <2>1. Holds(v.id, h, q) /\ Holds(w.id, h, q) /\ h \in BOOLEAN /\ q \in 1..NumQueues
    BY <1>2, <1>3 DEF Holds
  <2>2. v.id = w.id
    BY <1>1, <1>2, <2>1 DEF Owned
  <2> QED
    BY <1>1, <2>2 DEF InOnePlace
<1>4. \A q : q \in HeldByWorkers(k) <=> q \in 1..NumQueues /\ \E i \in Ids : Holds(i, k, q)
  <2>1. ASSUME NEW q \in HeldByWorkers(k)
        PROVE  q \in 1..NumQueues /\ \E i \in Ids : Holds(i, k, q)
    <3>1. PICK w \in workers : held[w.id] # 0 /\ want[w.id].secondary = k /\ q = held[w.id]
      BY DEF HeldByWorkers
    <3> QED
      BY <1>2, <3>1 DEF Holds
  <2>2. ASSUME NEW q \in 1..NumQueues, NEW i \in Ids, Holds(i, k, q)
        PROVE  q \in HeldByWorkers(k)
    <3>1. PICK w \in workers : w.id = i
      BY <1>1, <2>2 DEF Wanted, Holds
    <3> QED
      BY <2>2, <3>1, ParallelAssumption DEF HeldByWorkers, Holds
  <2> QED
    BY <2>1, <2>2
<1>5. InChan(k) = Elems(queueChan[k])
  BY DEF InChan, Elems
<1>6. InChan(k) \subseteq 1..NumQueues /\ HeldByRun(k) \subseteq 1..NumQueues
  <2>1. InChan(k) \subseteq 1..NumQueues
    <3>1. queueChan[k] \in Seq(1..NumQueues)
      BY <1>1 DEF Typed
    <3> QED
      BY <1>5, <3>1, ElemsIn
  <2>2. cur..NumQueues \subseteq 1..NumQueues
    BY <1>1, ParallelAssumption DEF Typed
  <2> QED
    BY <2>1, <2>2 DEF HeldByRun
<1>7. HeldByRun(k) \cap HeldByWorkers(k) = {}
  BY <1>1, <1>4 DEF Owned
<1>8. InChan(k) \cap (HeldByRun(k) \cup HeldByWorkers(k)) = {}
  BY <1>1, <1>4, <1>5, <1>6 DEF Owned
<1>9. InChan(k) \cup HeldByRun(k) \cup HeldByWorkers(k) = 1..NumQueues
  BY <1>1, <1>4, <1>5, <1>6 DEF Owned
<1> QED
  BY <1>1, <1>3, <1>7, <1>8, <1>9 DEF Owned, Distinct

-----------------------------------------------------------------------------
(* The earliest events *)

(* A set of times has a first one. *)
LEMMA FirstTime ==
    ASSUME NEW T \in SUBSET Nat, T # {}
    PROVE  \E x \in T : \A y \in T : x <= y
<1>1. IsWellFoundedOn(OpToRel(<, Nat), Nat)
  BY NatLessThanWellFounded
<1>2. PICK x \in T : \A y \in T : ~ (<<y, x>> \in OpToRel(<, Nat))
  BY <1>1, WFMin
<1>3. \A y \in T : ~(y < x)
  BY <1>2 DEF OpToRel
<1> QED
  BY <1>3

(* The events in the queues of a kind. *)
LEMMA InQueuesMeans ==
    ASSUME NEW k \in BOOLEAN, Typed
    PROVE  /\ \A e : e \in InQueues(k) <=> \E q \in 1..NumQueues : e \in queues[k][q]
           /\ \A e \in InQueues(k) : e \in Events /\ e.time \in 0..MaxTime
<1>1. \A e : e \in InQueues(k) <=> \E q \in 1..NumQueues : e \in queues[k][q]
  BY DEF InQueues
<1>2. \A q \in 1..NumQueues : queues[k][q] \subseteq Events
  BY DEF Typed
<1>3. \A e \in InQueues(k) : e \in Events
  BY <1>1, <1>2
<1>4. \A e \in Events : e.time \in 0..MaxTime
  BY DEF Events
<1> QED
  BY <1>1, <1>3, <1>4

(* What EarliestTime finds. *)
LEMMA EarliestMeans ==
    ASSUME NEW k \in BOOLEAN, Typed
    PROVE  /\ InQueues(k) = {} => EarliestTime(k) = MaxTime + 1
           /\ InQueues(k) # {} =>
                 /\ EarliestTime(k) \in 0..MaxTime
                 /\ \E e \in InQueues(k) : e.time = EarliestTime(k)
                 /\ \A e \in InQueues(k) : EarliestTime(k) <= e.time
<1>1. InQueues(k) = {} => EarliestTime(k) = MaxTime + 1
  BY DEF EarliestTime, Never
<1>2. ASSUME InQueues(k) # {}
      PROVE  /\ EarliestTime(k) \in 0..MaxTime
             /\ \E e \in InQueues(k) : e.time = EarliestTime(k)
             /\ \A e \in InQueues(k) : EarliestTime(k) <= e.time
  <2> DEFINE T == {e.time : e \in InQueues(k)}
             first == CHOOSE e \in InQueues(k) : e \in Front(InQueues(k))
  <2>1. T \in SUBSET Nat /\ T # {}
    BY <1>2, InQueuesMeans, ParallelAssumption
  <2>2. PICK t \in T : \A u \in T : t <= u
    BY <2>1, FirstTime
  <2>3. PICK e \in InQueues(k) : e.time = t
    BY <2>2
  <2>4. e \in Front(InQueues(k))
    BY <2>2, <2>3 DEF Front
  <2>5. first \in InQueues(k) /\ first \in Front(InQueues(k))
    BY <2>3, <2>4
  <2>6. EarliestTime(k) = first.time
    BY <1>2 DEF EarliestTime
  <2> HIDE DEF first
  <2> QED
    BY <2>5, <2>6, InQueuesMeans DEF Front
<1> QED
  BY <1>1, <1>2

-----------------------------------------------------------------------------
(* What Run holds *)

(* Run holds queues of the kind it runs, and only in its two loops. *)
LEMMA RunHolds ==
    ASSUME NEW k \in BOOLEAN
    PROVE  /\ k # runningSecondaryEvents \/ pc \notin {"drain", "visit"} => HeldByRun(k) = {}
           /\ k = runningSecondaryEvents /\ pc = "visit" => HeldByRun(k) = cur..NumQueues
           /\ k = runningSecondaryEvents /\ pc = "drain" =>
                 HeldByRun(k) = {q \in 1..NumQueues : q \notin Elems(queueChan[k])}
<1>1. InChan(k) = Elems(queueChan[k])
  BY DEF InChan, Elems
<1> QED
  BY <1>1 DEF HeldByRun

(* The same of the next state. *)
LEMMA RunHoldsNext ==
    ASSUME NEW k \in BOOLEAN
    PROVE  /\ k # runningSecondaryEvents' \/ pc' \notin {"drain", "visit"} => HeldByRun(k)' = {}
           /\ k = runningSecondaryEvents' /\ pc' = "visit" => HeldByRun(k)' = cur'..NumQueues
           /\ k = runningSecondaryEvents' /\ pc' = "drain" =>
                 HeldByRun(k)' = {q \in 1..NumQueues : q \notin Elems(queueChan'[k])}
<1>1. InChan(k)' = Elems(queueChan'[k])
  BY DEF InChan, Elems
<1> QED
  BY <1>1 DEF HeldByRun

(* A step that moves no queue keeps their owners. *)
LEMMA OwnedFrame ==
    ASSUME NEW k \in BOOLEAN, Owned(k), queueChan' = queueChan,
           \A i \in Ids, q \in 1..NumQueues : Holds(i, k, q)' <=> Holds(i, k, q),
           HeldByRun(k)' = HeldByRun(k),
           pc' = "drain" /\ k = runningSecondaryEvents'
              => Len(queueChan[k]) = NumQueues - cur' + 1
    PROVE  Owned(k)'
  BY DEF Owned

-----------------------------------------------------------------------------
(* The steps of Run *)

LEMMA LoopInit == Init => LoopInv
<1> SUFFICES ASSUME Init PROVE LoopInv
  OBVIOUS
<1> USE ParallelAssumption
<1>1. \A k \in BOOLEAN : /\ queueChan[k] = [q \in 1..NumQueues |-> q]
                         /\ queueChan[k] \in Seq(1..NumQueues)
                         /\ DOMAIN queueChan[k] = 1..NumQueues
  BY DEF Init
<1>2. Typed
  <2>1. queueChan \in [BOOLEAN -> Seq(1..NumQueues)]
    BY <1>1 DEF Init
  <2>2. queues \in [BOOLEAN -> [1..NumQueues -> SUBSET Events]]
    BY DEF Init
  <2>3. want \in [Ids -> Events \cup {NoEvent}] /\ held \in [Ids -> 0..NumQueues]
    BY DEF Init
  <2>4. now \in 0..MaxTime /\ scheduled \in 0..MaxEvents /\ cur \in 1..NumQueues
    <3>1. now = 0 /\ scheduled = 0 /\ cur = 1
      BY DEF Init
    <3> QED
      BY <3>1
  <2>5. runningSecondaryEvents \in BOOLEAN /\ pc \in Phases /\ workers \subseteq Events
    BY DEF Init, Phases
  <2> QED
    BY <2>1, <2>2, <2>3, <2>4, <2>5 DEF Typed
<1>3. Rounds /\ PrimariesLater
  BY DEF Init, Rounds, PrimariesLater
<1>4. Queued /\ Wanted /\ InOnePlace
  BY DEF Init, Queued, Wanted, InOnePlace
<1>5. ASSUME NEW k \in BOOLEAN PROVE Owned(k)
  <2>1. /\ DOMAIN queueChan[k] = 1..NumQueues
        /\ \A q \in 1..NumQueues : queueChan[k][q] = q
    BY <1>1
  <2>2. Distinct(queueChan[k]) /\ Elems(queueChan[k]) = 1..NumQueues
    BY <2>1 DEF Distinct, Elems
  <2>3. HeldByRun(k) = {} /\ pc = "setup"
    BY RunHolds DEF Init
  <2>4. \A i \in Ids, q \in 1..NumQueues : ~Holds(i, k, q)
    BY DEF Init, Holds
  <2> QED
    BY <2>2, <2>3, <2>4 DEF Owned
<1> QED
  BY <1>2, <1>3, <1>4, <1>5 DEF LoopInv

(* Run calls, checks or waits: only pc changes, outside the two loops. *)
LEMMA PcMoves ==
    ASSUME LoopInv, CallRun \/ HasMoreEvents \/ WaitForWorkers
    PROVE  LoopInv'
<1>1. /\ UNCHANGED <<now, queues, queueChan, runningSecondaryEvents, cur, workers,
                     want, held, scheduled>>
      /\ pc \in {"setup", "check", "wait"} /\ pc' \in {"check", "determine", "returned"}
      /\ workers = {}
      /\ pc' = "determine" => InQueues(FALSE) \cup InQueues(TRUE) # {}
  BY DEF CallRun, HasMoreEvents, WaitForWorkers, AllDone, LoopInv, Rounds
<1>2. Typed'
  BY <1>1 DEF LoopInv, Typed, Phases
<1>3. Rounds' /\ PrimariesLater'
  BY <1>1 DEF LoopInv, Rounds, PrimariesLater, InQueues
<1>4. Queued' /\ Wanted' /\ InOnePlace'
  BY <1>1 DEF LoopInv, Queued, Wanted, InOnePlace
<1>5. ASSUME NEW k \in BOOLEAN PROVE Owned(k)'
  <2>1. HeldByRun(k) = {} /\ HeldByRun(k)' = {}
    BY <1>1, RunHolds, RunHoldsNext
  <2>2. \A i \in Ids, q \in 1..NumQueues : Holds(i, k, q)' <=> Holds(i, k, q)
    BY <1>1 DEF Holds
  <2> QED
    BY <1>1, <2>1, <2>2, OwnedFrame DEF LoopInv
<1> QED
  BY <1>2, <1>3, <1>4, <1>5 DEF LoopInv

(* With no goroutine at work and Run in neither loop, the channels are full. *)
LEMMA ChannelsFull ==
    ASSUME LoopInv, workers = {}, pc \notin {"drain", "visit"}, NEW k \in BOOLEAN
    PROVE  Elems(queueChan[k]) = 1..NumQueues /\ Len(queueChan[k]) = NumQueues
<1>1. queueChan[k] \in Seq(1..NumQueues) /\ Distinct(queueChan[k])
  BY DEF LoopInv, Typed, Owned
<1>2. \A i \in Ids, q \in 1..NumQueues : ~Holds(i, k, q)
  BY DEF LoopInv, Wanted, Holds
<1>3. Elems(queueChan[k]) \subseteq 1..NumQueues
  BY <1>1, ElemsIn
<1>4. 1..NumQueues \subseteq Elems(queueChan[k])
  BY <1>2, RunHolds DEF LoopInv, Owned
<1> QED
  BY <1>1, <1>3, <1>4, FullChannel, ParallelAssumption

(* The events that wait, of either kind. *)
Waiting == InQueues(FALSE) \cup InQueues(TRUE)

(* The time of the round and the kind of its events. *)
LEMMA RoundIsEarliest ==
    ASSUME LoopInv, DetermineWhatToRun
    PROVE  /\ now' \in 0..MaxTime /\ now' >= now
           /\ \A e \in Waiting : now' <= e.time
           /\ \E e \in Waiting : now' = e.time
           /\ runningSecondaryEvents' \in BOOLEAN
           /\ runningSecondaryEvents' => \A x \in InQueues(FALSE) : x.time > now'
<1>1. Typed /\ Waiting # {}
  BY DEF LoopInv, Rounds, DetermineWhatToRun, Waiting
<1>2. /\ InQueues(FALSE) = {} => EarliestTime(FALSE) = MaxTime + 1
      /\ InQueues(FALSE) # {} =>
            /\ EarliestTime(FALSE) \in 0..MaxTime
            /\ \E e \in InQueues(FALSE) : e.time = EarliestTime(FALSE)
            /\ \A e \in InQueues(FALSE) : EarliestTime(FALSE) <= e.time
  BY <1>1, EarliestMeans
<1>3. /\ InQueues(TRUE) = {} => EarliestTime(TRUE) = MaxTime + 1
      /\ InQueues(TRUE) # {} =>
            /\ EarliestTime(TRUE) \in 0..MaxTime
            /\ \E e \in InQueues(TRUE) : e.time = EarliestTime(TRUE)
            /\ \A e \in InQueues(TRUE) : EarliestTime(TRUE) <= e.time
  BY <1>1, EarliestMeans
<1>4. \A e \in Waiting : e.time \in 0..MaxTime /\ e.time >= now
  <2>1. ASSUME NEW k \in BOOLEAN, NEW e \in InQueues(k)
        PROVE  e.time \in 0..MaxTime /\ e.time >= now
    BY <1>1, InQueuesMeans DEF LoopInv, Queued
  <2> QED
    BY <2>1 DEF Waiting
<1>5. PICK A, B, p, s : /\ A = InQueues(FALSE) /\ B = InQueues(TRUE)
                        /\ p = EarliestTime(FALSE) /\ s = EarliestTime(TRUE)
  OBVIOUS
<1>6. A \cup B = Waiting /\ MaxTime \in Nat /\ now \in Nat
  BY <1>1, <1>5, ParallelAssumption DEF Waiting, Typed
<1>7. \A e \in A \cup B : e.time \in 0..MaxTime /\ e.time >= now
  BY <1>4, <1>6
<1>8. /\ A = {} => p = MaxTime + 1
      /\ A # {} => /\ p \in 0..MaxTime /\ \E e \in A : e.time = p
                   /\ \A e \in A : p <= e.time
  BY <1>2, <1>5
<1>9. /\ B = {} => s = MaxTime + 1
      /\ B # {} => /\ s \in 0..MaxTime /\ \E e \in B : e.time = s
                   /\ \A e \in B : s <= e.time
  BY <1>3, <1>5
<1>10. p \in Nat /\ s \in Nat /\ p <= MaxTime + 1 /\ s <= MaxTime + 1
  <2>1. p \in Nat /\ p <= MaxTime + 1
    BY <1>6, <1>8
  <2>2. s \in Nat /\ s <= MaxTime + 1
    BY <1>6, <1>9
  <2> QED
    BY <2>1, <2>2
<1>11. A \cup B # {}
  BY <1>1, <1>6
<1>12. CASE s < p
  <2>1. B # {}
    BY <1>6, <1>9, <1>10, <1>12
  <2>2. \A e \in A : e.time > s
    BY <1>7, <1>8, <1>10, <1>12
  <2>3. \A e \in A \cup B : s <= e.time
    BY <1>7, <1>9, <1>10, <2>1, <2>2
  <2>4. SecondaryNext = TRUE
    BY <1>5, <1>10, <1>12 DEF SecondaryNext
  <2>5. now' = s /\ runningSecondaryEvents' = TRUE
    BY <1>5, <2>4 DEF DetermineWhatToRun
  <2>6. s \in 0..MaxTime /\ \E e \in A \cup B : s = e.time
    BY <1>9, <2>1
  <2> QED
    BY <1>5, <1>6, <1>7, <2>2, <2>3, <2>5, <2>6
<1>13. CASE ~(s < p)
  <2>1. A # {}
    BY <1>6, <1>8, <1>9, <1>10, <1>11, <1>13
  <2>2. \A e \in A \cup B : p <= e.time
    BY <1>7, <1>8, <1>9, <1>10, <1>13, <2>1
  <2>3. SecondaryNext = FALSE
    <3>1. SecondaryNext = (s < p)
      BY <1>5, Zenon DEF SecondaryNext
    <3>2. (s < p) = FALSE
      BY <1>10, <1>13
    <3> QED
      BY <3>1, <3>2, Zenon
  <2>4. now' = p /\ runningSecondaryEvents' = FALSE
    BY <1>5, <2>3 DEF DetermineWhatToRun
  <2>5. p \in 0..MaxTime /\ \E e \in A \cup B : p = e.time
    BY <1>8, <2>1
  <2> QED
    BY <1>6, <1>7, <2>2, <2>4, <2>5
<1> QED
  BY <1>12, <1>13

(* A round begins: time moves, and Run is about to take the queues. *)
LEMMA DetermineStep ==
    ASSUME LoopInv, DetermineWhatToRun
    PROVE  LoopInv'
<1>1. /\ UNCHANGED <<queues, queueChan, workers, want, held, scheduled>>
      /\ pc = "determine" /\ pc' = "drain" /\ cur' = 1 /\ workers = {}
  BY DEF DetermineWhatToRun, LoopInv, Rounds
<1>2. /\ now' \in 0..MaxTime
      /\ \A e \in Waiting : now' <= e.time
      /\ runningSecondaryEvents' \in BOOLEAN
      /\ runningSecondaryEvents' => \A x \in InQueues(FALSE) : x.time > now'
  BY RoundIsEarliest
<1>3. \A i \in Ids : want[i] = NoEvent /\ held[i] = 0
  BY <1>1 DEF LoopInv, Wanted
<1>4. Typed'
  BY <1>1, <1>2, ParallelAssumption DEF LoopInv, Typed, Phases
<1>5. Rounds'
  BY <1>1 DEF Rounds
<1>6. PrimariesLater'
  <2>1. InQueues(FALSE)' = InQueues(FALSE)
    BY <1>1 DEF InQueues
  <2> QED
    BY <1>2, <2>1 DEF PrimariesLater
<1>7. Queued'
  <2>1. ASSUME NEW k \in BOOLEAN, NEW q \in 1..NumQueues, NEW e \in queues[k][q]
        PROVE  e.time \in Nat /\ now' <= e.time
    <3>1. e \in InQueues(k) /\ Typed
      BY DEF InQueues, LoopInv
    <3>2. e \in Waiting
      BY <3>1 DEF Waiting
    <3> QED
      BY <1>2, <3>1, <3>2, InQueuesMeans, ParallelAssumption
  <2> QED
    BY <1>1, <1>2, <2>1 DEF LoopInv, Queued
<1>8. Wanted' /\ InOnePlace'
  BY <1>1, <1>3 DEF LoopInv, Wanted, InOnePlace
<1>9. ASSUME NEW k \in BOOLEAN PROVE Owned(k)'
  <2>1. Elems(queueChan[k]) = 1..NumQueues /\ Len(queueChan[k]) = NumQueues
    BY <1>1, ChannelsFull
  <2>2. HeldByRun(k)' = {}
    BY <1>1, <2>1, RunHoldsNext
  <2>3. \A i \in Ids, q \in 1..NumQueues : ~Holds(i, k, q)'
    BY <1>1, <1>3 DEF Holds
  <2> QED
    BY <1>1, <2>1, <2>2, <2>3, ParallelAssumption DEF LoopInv, Owned
<1> QED
  BY <1>4, <1>5, <1>6, <1>7, <1>8, <1>9 DEF LoopInv

(* Run takes the next queue out of the channel, and after the last visits them. *)
LEMMA EmptyStep ==
    ASSUME LoopInv, EmptyQueueChan
    PROVE  LoopInv'
<1> DEFINE S == runningSecondaryEvents
<1>1. /\ UNCHANGED <<now, queues, runningSecondaryEvents, workers, want, held, scheduled>>
      /\ pc = "drain" /\ workers = {} /\ queueChan[S] # << >>
      /\ queueChan' = [queueChan EXCEPT ![S] = Tail(queueChan[S])]
      /\ IF cur = NumQueues THEN pc' = "visit" /\ cur' = 1
                            ELSE cur' = cur + 1 /\ pc' = pc
  BY DEF EmptyQueueChan, LoopInv, Rounds
<1>2. /\ S \in BOOLEAN /\ queueChan \in [BOOLEAN -> Seq(1..NumQueues)]
      /\ queueChan[S] \in Seq(1..NumQueues) /\ cur \in 1..NumQueues
      /\ Distinct(queueChan[S]) /\ Len(queueChan[S]) = NumQueues - cur + 1
  BY <1>1 DEF LoopInv, Typed, Owned
<1>3. /\ Tail(queueChan[S]) \in Seq(1..NumQueues)
      /\ Len(Tail(queueChan[S])) = Len(queueChan[S]) - 1 /\ Distinct(Tail(queueChan[S]))
  BY <1>1, <1>2, TakenOut
<1>4. \A i \in Ids : want[i] = NoEvent /\ held[i] = 0
  BY <1>1 DEF LoopInv, Wanted
<1>5. cur' \in 1..NumQueues /\ pc' \in {"drain", "visit"}
  BY <1>1, <1>2, ParallelAssumption
<1>6. queueChan' \in [BOOLEAN -> Seq(1..NumQueues)]
  BY <1>1, <1>2, <1>3
<1>7. Typed'
  BY <1>1, <1>5, <1>6 DEF LoopInv, Typed, Phases
<1>8. Rounds' /\ PrimariesLater'
  BY <1>1, <1>5 DEF LoopInv, Rounds, PrimariesLater, InQueues
<1>9. Queued' /\ Wanted' /\ InOnePlace'
  BY <1>1, <1>4 DEF LoopInv, Queued, Wanted, InOnePlace
<1>10. ASSUME NEW k \in BOOLEAN PROVE Owned(k)'
  <2>1. \A i \in Ids, q \in 1..NumQueues : ~Holds(i, k, q)'
    BY <1>1, <1>4 DEF Holds
  <2>2. CASE k # S
    <3>1. queueChan'[k] = queueChan[k]
      BY <1>1, <1>2, <2>2
    <3>2. HeldByRun(k) = {} /\ HeldByRun(k)' = {}
      BY <1>1, <2>2, RunHolds, RunHoldsNext
    <3>3. \A i \in Ids, q \in 1..NumQueues : ~Holds(i, k, q)
      BY <1>4 DEF Holds
    <3> QED
      BY <1>1, <2>1, <2>2, <3>1, <3>2, <3>3 DEF LoopInv, Owned
  <2>3. CASE k = S
    <3>1. queueChan'[k] = Tail(queueChan[k])
      BY <1>1, <1>2, <2>3
    <3>2. CASE cur = NumQueues
      <4>1. Len(queueChan'[k]) = 0 /\ queueChan'[k] \in Seq(1..NumQueues)
        BY <1>2, <1>3, <2>3, <3>1, <3>2
      <4>2. Elems(queueChan'[k]) = {}
        BY <4>1 DEF Elems
      <4>3. HeldByRun(k)' = 1..NumQueues /\ pc' = "visit"
        BY <1>1, <2>3, <3>2, RunHoldsNext
      <4> QED
        BY <1>3, <2>1, <2>3, <3>1, <4>2, <4>3 DEF Owned
    <3>3. CASE cur # NumQueues
      <4>1. HeldByRun(k)' = {q \in 1..NumQueues : q \notin Elems(queueChan'[k])}
        BY <1>1, <2>3, <3>3, RunHoldsNext
      <4>2. Len(queueChan'[k]) = NumQueues - cur' + 1
        BY <1>1, <1>2, <1>3, <2>3, <3>1, <3>3, ParallelAssumption
      <4> QED
        BY <1>3, <2>1, <2>3, <3>1, <4>1, <4>2 DEF Owned
    <3> QED
      BY <3>2, <3>3
  <2> QED
    BY <2>2, <2>3
<1> QED
  BY <1>7, <1>8, <1>9, <1>10 DEF LoopInv

(* The event that StartWorker gives to a goroutine. *)
Started(e) ==
    /\ e \in Visited /\ e.time = now
    /\ queues' = [queues EXCEPT ![runningSecondaryEvents][cur] = @ \ {e}]
    /\ workers' = workers \cup {e}

(* An event of the round goes from its queue to a goroutine of its own. *)
LEMMA StartStep ==
    ASSUME LoopInv, StartWorker
    PROVE  LoopInv'
<1> DEFINE S == runningSecondaryEvents
<1>1. /\ UNCHANGED <<now, queueChan, runningSecondaryEvents, pc, cur, want, held, scheduled>>
      /\ pc = "visit"
  BY DEF StartWorker
<1>2. PICK e : Started(e)
  BY DEF StartWorker, Started, Front
<1>3. /\ S \in BOOLEAN /\ cur \in 1..NumQueues
      /\ queues \in [BOOLEAN -> [1..NumQueues -> SUBSET Events]]
      /\ e \in queues[S][cur] /\ e \in Events /\ e.id \in Ids
  <2>1. /\ S \in BOOLEAN /\ cur \in 1..NumQueues
        /\ queues \in [BOOLEAN -> [1..NumQueues -> SUBSET Events]]
    BY DEF LoopInv, Typed
  <2>2. e \in queues[S][cur] /\ e \in Events
    BY <1>2, <2>1 DEF Started, Visited
  <2> QED
    BY <2>1, <2>2 DEF Events
<1>4. /\ queues' \in [BOOLEAN -> [1..NumQueues -> SUBSET Events]]
      /\ \A k \in BOOLEAN, q \in 1..NumQueues :
            queues'[k][q] = IF k = S /\ q = cur THEN queues[k][q] \ {e} ELSE queues[k][q]
  BY <1>2, <1>3 DEF Started
<1>5. \A k \in BOOLEAN, q \in 1..NumQueues : queues'[k][q] \subseteq queues[k][q]
  BY <1>4
<1>6. workers' = workers \cup {e}
  BY <1>2 DEF Started
<1>7. Typed'
  BY <1>1, <1>3, <1>4, <1>6 DEF LoopInv, Typed
<1>8. e.secondary = S /\ e.id <= scheduled
  BY <1>3 DEF LoopInv, Queued
<1>9. Rounds'
  BY <1>1, <1>6, <1>8 DEF LoopInv, Rounds
<1>10. PrimariesLater'
  <2>1. InQueues(FALSE)' \subseteq InQueues(FALSE)
    BY <1>5 DEF InQueues
  <2> QED
    BY <1>1, <2>1 DEF LoopInv, PrimariesLater
<1>11. Queued'
  BY <1>1, <1>5 DEF LoopInv, Queued
<1>12. Wanted'
  BY <1>1, <1>6 DEF LoopInv, Wanted
<1>13. InOnePlace'
  <2>1. InOnePlace
    BY DEF LoopInv
  <2>2. \A w \in workers : e.id # w.id
    BY <1>3, <2>1 DEF InOnePlace
  <2>3. ASSUME NEW k \in BOOLEAN, NEW q \in 1..NumQueues, NEW d \in queues'[k][q]
        PROVE  d.id # e.id
    <3>1. d \in queues[k][q]
      BY <1>5
    <3>2. d.id = e.id => k = S /\ q = cur /\ d = e
      BY <1>3, <2>1, <3>1 DEF InOnePlace
    <3>3. e \notin queues'[S][cur]
      BY <1>3, <1>4
    <3> QED
      BY <3>2, <3>3
  <2>4. \A i \in Ids : want[i] # NoEvent => want[i].id # e.id
    BY <1>3, <2>1 DEF InOnePlace
  <2>5. \A v, w \in workers' : v.id = w.id => v = w
    BY <1>6, <2>1, <2>2 DEF InOnePlace
  <2>6. \A w \in workers' : w.id <= scheduled'
    BY <1>1, <1>6, <1>8, <2>1 DEF InOnePlace
  <2>7. \A k \in BOOLEAN, q \in 1..NumQueues : \A d \in queues'[k][q], w \in workers' :
           d.id # w.id
    BY <1>5, <1>6, <2>1, <2>3 DEF InOnePlace
  <2>8. \A j, k \in BOOLEAN, p, q \in 1..NumQueues :
           \A c \in queues'[j][p], d \in queues'[k][q] :
               c.id = d.id => j = k /\ p = q /\ c = d
    BY <1>5, <2>1 DEF InOnePlace
  <2>9. \A i \in Ids : want'[i] # NoEvent =>
           /\ \A w \in workers' : want'[i].id # w.id
           /\ \A k \in BOOLEAN, q \in 1..NumQueues : \A d \in queues'[k][q] :
                 want'[i].id # d.id
           /\ \A j \in Ids : want'[j] # NoEvent /\ want'[j].id = want'[i].id => i = j
    BY <1>1, <1>5, <1>6, <2>1, <2>4 DEF InOnePlace
  <2> QED
    BY <2>5, <2>6, <2>7, <2>8, <2>9 DEF InOnePlace
<1>14. ASSUME NEW k \in BOOLEAN PROVE Owned(k)'
  <2>1. HeldByRun(k)' = HeldByRun(k)
    BY <1>1, RunHolds, RunHoldsNext
  <2>2. \A i \in Ids, q \in 1..NumQueues : Holds(i, k, q)' <=> Holds(i, k, q)
    BY <1>1 DEF Holds
  <2> QED
    BY <1>1, <2>1, <2>2, OwnedFrame DEF LoopInv
<1> QED
  BY <1>7, <1>9, <1>10, <1>11, <1>12, <1>13, <1>14 DEF LoopInv

(* Run puts the queue back and goes to the next, or waits for the goroutines. *)
LEMMA LeaveStep ==
    ASSUME LoopInv, LeaveQueue
    PROVE  LoopInv'
<1> DEFINE S == runningSecondaryEvents
<1>1. /\ UNCHANGED <<now, queues, runningSecondaryEvents, workers, want, held, scheduled>>
      /\ pc = "visit"
      /\ queueChan' = [queueChan EXCEPT ![S] = Append(queueChan[S], cur)]
      /\ IF cur = NumQueues THEN pc' = "wait" /\ cur' = cur
                            ELSE cur' = cur + 1 /\ pc' = pc
  BY DEF LeaveQueue, PutBack
<1>2. /\ S \in BOOLEAN /\ queueChan \in [BOOLEAN -> Seq(1..NumQueues)]
      /\ queueChan[S] \in Seq(1..NumQueues) /\ cur \in 1..NumQueues
      /\ Distinct(queueChan[S])
  BY DEF LoopInv, Typed, Owned
<1>3. HeldByRun(S) = cur..NumQueues
  BY <1>1, <1>2, RunHolds
<1>4. cur \notin Elems(queueChan[S])
  BY <1>2, <1>3, ParallelAssumption DEF LoopInv, Owned
<1>5. /\ Append(queueChan[S], cur) \in Seq(1..NumQueues)
      /\ Distinct(Append(queueChan[S], cur))
      /\ Elems(Append(queueChan[S], cur)) = Elems(queueChan[S]) \cup {cur}
  <2>1. PICK ch, c : ch = queueChan[S] /\ c = cur
    OBVIOUS
  <2>2. ch \in Seq(1..NumQueues) /\ c \in 1..NumQueues /\ Distinct(ch) /\ c \notin Elems(ch)
    BY <1>2, <1>4, <2>1
  <2>3. /\ Append(ch, c) \in Seq(1..NumQueues) /\ Distinct(Append(ch, c))
        /\ Elems(Append(ch, c)) = Elems(ch) \cup {c}
    BY <2>2, PutIn
  <2> QED
    BY <2>1, <2>3
<1>6. cur' \in 1..NumQueues /\ pc' \in {"visit", "wait"}
  BY <1>1, <1>2, ParallelAssumption
<1>7. queueChan' \in [BOOLEAN -> Seq(1..NumQueues)]
  BY <1>1, <1>2, <1>5
<1>8. Typed'
  BY <1>1, <1>6, <1>7 DEF LoopInv, Typed, Phases
<1>9. Rounds' /\ PrimariesLater'
  BY <1>1, <1>6 DEF LoopInv, Rounds, PrimariesLater, InQueues
<1>10. Queued' /\ Wanted' /\ InOnePlace'
  BY <1>1 DEF LoopInv, Queued, Wanted, InOnePlace
<1>11. ASSUME NEW k \in BOOLEAN PROVE Owned(k)'
  <2>1. \A i \in Ids, q \in 1..NumQueues : Holds(i, k, q)' <=> Holds(i, k, q)
    BY <1>1 DEF Holds
  <2>2. CASE k # S
    <3>1. queueChan'[k] = queueChan[k]
      BY <1>1, <1>2, <2>2
    <3>2. HeldByRun(k) = {} /\ HeldByRun(k)' = {}
      BY <1>1, <2>2, RunHolds, RunHoldsNext
    <3> QED
      BY <1>1, <1>6, <2>1, <3>1, <3>2 DEF LoopInv, Owned
  <2>3. CASE k = S
    <3>1. queueChan'[k] = Append(queueChan[k], cur)
      BY <1>1, <1>2, <2>3
    <3>2. /\ Distinct(queueChan'[k])
          /\ Elems(queueChan'[k]) = Elems(queueChan[k]) \cup {cur}
      BY <1>5, <2>3, <3>1
    <3>3. HeldByRun(k) = cur..NumQueues /\ cur \in HeldByRun(k)
      BY <1>2, <1>3, <2>3, ParallelAssumption
    <3>4. HeldByRun(k)' = HeldByRun(k) \ {cur}
      <4>1. CASE cur = NumQueues
        <5>1. HeldByRun(k)' = {}
          BY <1>1, <4>1, RunHoldsNext
        <5>2. cur..NumQueues = {cur}
          BY <1>2, <4>1, ParallelAssumption
        <5> QED
          BY <3>3, <5>1, <5>2
      <4>2. CASE cur # NumQueues
        <5>1. HeldByRun(k)' = (cur + 1)..NumQueues
          BY <1>1, <2>3, <4>2, RunHoldsNext
        <5> QED
          BY <1>2, <3>3, <5>1, ParallelAssumption
      <4> QED
        BY <4>1, <4>2
    <3> QED
      BY <1>6, <2>1, <3>2, <3>3, <3>4 DEF LoopInv, Owned
  <2> QED
    BY <2>2, <2>3
<1> QED
  BY <1>8, <1>9, <1>10, <1>11 DEF LoopInv

-----------------------------------------------------------------------------
(* The steps of the program and of the goroutines *)

(* A fresh event of kind k enters the queue q. *)
LEMMA Enters ==
    ASSUME LoopInv, NEW k \in BOOLEAN, NEW q \in 1..NumQueues, NEW e \in Events,
           queues' = [queues EXCEPT ![k][q] = @ \cup {e}],
           now' = now, scheduled' \in Nat, scheduled' >= scheduled,
           e.secondary = k, e.time >= now, e.id <= scheduled',
           \A h \in BOOLEAN, p \in 1..NumQueues : \A d \in queues[h][p] : d.id # e.id
    PROVE  /\ queues' \in [BOOLEAN -> [1..NumQueues -> SUBSET Events]]
           /\ \A h \in BOOLEAN, p \in 1..NumQueues :
                 queues'[h][p] = IF h = k /\ p = q THEN queues[h][p] \cup {e} ELSE queues[h][p]
           /\ \A h \in BOOLEAN, p \in 1..NumQueues : \A d \in queues'[h][p] :
                 d \in queues[h][p] \/ d = e
           /\ Queued'
           /\ \A h, j \in BOOLEAN, o, p \in 1..NumQueues :
                 \A c \in queues'[h][o], d \in queues'[j][p] :
                     c.id = d.id => h = j /\ o = p /\ c = d
<1>1. queues \in [BOOLEAN -> [1..NumQueues -> SUBSET Events]] /\ scheduled \in Nat
  BY ParallelAssumption DEF LoopInv, Typed
<1>2. /\ queues' \in [BOOLEAN -> [1..NumQueues -> SUBSET Events]]
      /\ \A h \in BOOLEAN, p \in 1..NumQueues :
            queues'[h][p] = IF h = k /\ p = q THEN queues[h][p] \cup {e} ELSE queues[h][p]
  BY <1>1, ZenonT(30)
<1>3. ASSUME NEW h \in BOOLEAN, NEW p \in 1..NumQueues, NEW d \in queues'[h][p]
      PROVE  d \in queues[h][p] \/ (h = k /\ p = q /\ d = e)
  BY <1>2
<1>4. Queued'
  <2> SUFFICES ASSUME NEW h \in BOOLEAN, NEW p \in 1..NumQueues, NEW d \in queues'[h][p]
               PROVE  d.secondary = h /\ d.time >= now' /\ d.id <= scheduled'
    BY DEF Queued
  <2>1. CASE d \in queues[h][p]
    <3>1. d \in Events /\ d.id \in Nat
      BY <1>1, <2>1, ParallelAssumption DEF Events, Ids
    <3> QED
      BY <1>1, <2>1, <3>1 DEF LoopInv, Queued
  <2>2. CASE h = k /\ p = q /\ d = e
    BY <2>2
  <2> QED
    BY <1>3, <2>1, <2>2
<1>5. ASSUME NEW h \in BOOLEAN, NEW j \in BOOLEAN, NEW o \in 1..NumQueues,
             NEW p \in 1..NumQueues, NEW c \in queues'[h][o], NEW d \in queues'[j][p],
             c.id = d.id
      PROVE  h = j /\ o = p /\ c = d
  <2>1. CASE c \in queues[h][o] /\ d \in queues[j][p]
    BY <1>5, <2>1 DEF LoopInv, InOnePlace
  <2>2. CASE ~(c \in queues[h][o] /\ d \in queues[j][p])
    BY <1>3, <1>5, <2>2
  <2> QED
    BY <2>1, <2>2
<1>6. \A h \in BOOLEAN, p \in 1..NumQueues : \A d \in queues'[h][p] :
          d \in queues[h][p] \/ d = e
  BY <1>3, Zenon
<1>7. \A h, j \in BOOLEAN, o, p \in 1..NumQueues :
          \A c \in queues'[h][o], d \in queues'[j][p] :
              c.id = d.id => h = j /\ o = p /\ c = d
  BY <1>5, Zenon
<1> QED
  BY <1>2, <1>4, <1>6, <1>7, Zenon

(* The program schedules an event before it calls Run. *)
LEMMA ScheduleBeforeStep ==
    ASSUME LoopInv, NEW t \in 0..MaxTime, NEW k \in BOOLEAN, ScheduleBefore(t, k)
    PROVE  LoopInv'
<1>1. /\ UNCHANGED <<now, runningSecondaryEvents, pc, cur, workers, want, held>>
      /\ pc = "setup" /\ scheduled < MaxEvents /\ scheduled' = scheduled + 1
      /\ workers = {} /\ now = 0
  BY DEF ScheduleBefore, LoopInv, Rounds
<1>2. PICK e, q, ch : /\ e = [id |-> scheduled + 1, time |-> t, secondary |-> k, late |-> FALSE]
                      /\ ch = queueChan[k] /\ q = Head(ch)
                      /\ queues' = [queues EXCEPT ![k][q] = @ \cup {e}]
                      /\ queueChan' = [queueChan EXCEPT ![k] = Append(Tail(ch), q)]
  BY DEF ScheduleBefore
<1>3. scheduled \in Nat /\ MaxEvents \in Nat /\ NumQueues \in Nat \ {0} /\ MaxTime \in Nat
  BY ParallelAssumption DEF LoopInv, Typed
<1>4. /\ e \in Events /\ e.id = scheduled + 1 /\ e.time = t /\ e.secondary = k
  BY <1>1, <1>2, <1>3 DEF Events, Ids
<1>5. /\ ch \in Seq(1..NumQueues) /\ Distinct(ch)
      /\ Elems(ch) = 1..NumQueues /\ Len(ch) = NumQueues
  <2>1. Elems(queueChan[k]) = 1..NumQueues /\ Len(queueChan[k]) = NumQueues
    BY <1>1, ChannelsFull
  <2>2. queueChan[k] \in Seq(1..NumQueues) /\ Distinct(queueChan[k])
    BY DEF LoopInv, Typed, Owned
  <2> QED
    BY <1>2, <2>1, <2>2
<1>6. ch # << >>
  BY <1>3, <1>5
<1>7. /\ q \in 1..NumQueues /\ q \in Elems(ch) /\ Tail(ch) \in Seq(1..NumQueues)
      /\ Distinct(Tail(ch)) /\ Elems(Tail(ch)) = Elems(ch) \ {q}
  BY <1>2, <1>5, <1>6, TakenOut
<1>8. PICK rest \in Seq(1..NumQueues) : rest = Tail(ch)
  BY <1>7
<1>9. /\ Append(rest, q) \in Seq(1..NumQueues) /\ Distinct(Append(rest, q))
      /\ Elems(Append(rest, q)) = Elems(rest) \cup {q}
  <2>1. Distinct(rest) /\ q \notin Elems(rest) /\ q \in 1..NumQueues
    BY <1>7, <1>8
  <2> QED
    BY <2>1, PutIn
<1>10. /\ queueChan \in [BOOLEAN -> Seq(1..NumQueues)]
       /\ queueChan' = [queueChan EXCEPT ![k] = Append(rest, q)]
  BY <1>2, <1>8 DEF LoopInv, Typed
<1>11. queueChan' \in [BOOLEAN -> Seq(1..NumQueues)]
  BY <1>9, <1>10
<1>12. \A h \in BOOLEAN, p \in 1..NumQueues : \A d \in queues[h][p] :
          d.id # e.id /\ d.id \in Nat /\ d.id <= scheduled
  <2>1. \A h \in BOOLEAN, p \in 1..NumQueues : \A d \in queues[h][p] : d \in Events
    BY DEF LoopInv, Typed
  <2>2. \A d \in Events : d.id \in Nat
    BY <1>3 DEF Events, Ids
  <2> QED
    BY <1>3, <1>4, <2>1, <2>2 DEF LoopInv, Queued
<1>13. /\ queues' \in [BOOLEAN -> [1..NumQueues -> SUBSET Events]]
       /\ Queued'
       /\ \A h, j \in BOOLEAN, o, p \in 1..NumQueues :
             \A c \in queues'[h][o], d \in queues'[j][p] :
                 c.id = d.id => h = j /\ o = p /\ c = d
  <2>1. /\ now' = now /\ scheduled' \in Nat /\ scheduled' >= scheduled
        /\ e.time >= now /\ e.id <= scheduled'
    BY <1>1, <1>3, <1>4
  <2>2. q \in 1..NumQueues /\ e \in Events /\ e.secondary = k
    BY <1>4, <1>7
  <2>3. queues' = [queues EXCEPT ![k][q] = @ \cup {e}]
    BY <1>2
  <2>4. \A h \in BOOLEAN, p \in 1..NumQueues : \A d \in queues[h][p] : d.id # e.id
    BY <1>12
  <2> QED
    BY <2>1, <2>2, <2>3, <2>4, Enters
<1>14. \A i \in Ids : want[i] = NoEvent /\ held[i] = 0
  BY <1>1 DEF LoopInv, Wanted
<1>15. Typed'
  BY <1>1, <1>3, <1>11, <1>13 DEF LoopInv, Typed
<1>16. Rounds' /\ PrimariesLater'
  BY <1>1 DEF LoopInv, Rounds, PrimariesLater
<1>17. Wanted' /\ InOnePlace'
  BY <1>1, <1>13, <1>14 DEF Wanted, InOnePlace
<1>18. ASSUME NEW h \in BOOLEAN PROVE Owned(h)'
  <2>1. HeldByRun(h) = {} /\ HeldByRun(h)' = {}
    BY <1>1, RunHolds, RunHoldsNext
  <2>2. \A i \in Ids, p \in 1..NumQueues : ~Holds(i, h, p)'
    BY <1>1, <1>14 DEF Holds
  <2>3. Distinct(queueChan'[h]) /\ Elems(queueChan'[h]) = 1..NumQueues
    <3>1. CASE h = k
      <4>1. queueChan'[h] = Append(rest, q)
        BY <1>10, <3>1
      <4> QED
        BY <1>5, <1>7, <1>8, <1>9, <4>1
    <3>2. CASE h # k
      <4>1. queueChan'[h] = queueChan[h]
        BY <1>10, <3>2
      <4> QED
        BY <1>1, <4>1, ChannelsFull DEF LoopInv, Owned
    <3> QED
      BY <3>1, <3>2
  <2> QED
    BY <1>1, <2>1, <2>2, <2>3 DEF Owned
<1> QED
  BY <1>13, <1>15, <1>16, <1>17, <1>18 DEF LoopInv

(* What every step of a goroutine may use: it is in a round. *)
LEMMA InARound ==
    ASSUME LoopInv, NEW w \in workers
    PROVE  /\ pc \in {"visit", "wait"} /\ w \in Events /\ w.id \in Ids
           /\ w.secondary = runningSecondaryEvents /\ w.id <= scheduled
           /\ want[w.id] \in Events \cup {NoEvent} /\ held[w.id] \in 0..NumQueues
<1>1. pc \in {"visit", "wait"} /\ w \in Events
  BY DEF LoopInv, Rounds, Typed
<1>2. w.id \in Ids
  BY <1>1 DEF Events
<1> QED
  BY <1>1, <1>2 DEF LoopInv, Rounds, Typed, InOnePlace

(* A handler makes up its mind to schedule an event. *)
LEMMA ScheduleCallStep ==
    ASSUME LoopInv, NEW w \in workers, NEW t \in 0..MaxTime, NEW k \in BOOLEAN,
           ScheduleCall(w, t, k)
    PROVE  LoopInv'
<1>1. /\ UNCHANGED <<now, queues, queueChan, runningSecondaryEvents, pc, cur, workers, held>>
      /\ want[w.id] = NoEvent /\ scheduled < MaxEvents /\ t >= now
      /\ scheduled' = scheduled + 1
  BY DEF ScheduleCall
<1>2. PICK e : /\ e = [id |-> scheduled + 1, time |-> t, secondary |-> k,
                       late |-> w.secondary /\ t = now]
               /\ want' = [want EXCEPT ![w.id] = e]
  BY DEF ScheduleCall
<1>3. /\ scheduled \in Nat /\ MaxEvents \in Nat /\ NumQueues \in Nat \ {0} /\ MaxTime \in Nat
      /\ want \in [Ids -> Events \cup {NoEvent}] /\ held \in [Ids -> 0..NumQueues]
  BY ParallelAssumption DEF LoopInv, Typed
<1>4. pc \in {"visit", "wait"} /\ w.id \in Ids /\ w.secondary = runningSecondaryEvents
      /\ w.secondary \in BOOLEAN
  BY InARound DEF LoopInv, Typed
<1>5. /\ e \in Events /\ e.id = scheduled + 1 /\ e.time = t /\ e.secondary = k
      /\ w.secondary /\ t = now => e.late
  <2>1. (w.secondary /\ t = now) \in BOOLEAN
    BY Zenon
  <2> QED
    BY <1>1, <1>2, <1>3, <1>4, <2>1 DEF Events, Ids
<1>6. e # NoEvent
  BY <1>5, EventIsSome
<1>7. /\ want' \in [Ids -> Events \cup {NoEvent}]
      /\ \A i \in Ids : want'[i] = IF i = w.id THEN e ELSE want[i]
  BY <1>2, <1>3, <1>4, <1>5
<1>8. held[w.id] = 0
  BY <1>1, <1>4 DEF LoopInv, Wanted
<1>9. Typed'
  BY <1>1, <1>3, <1>7 DEF LoopInv, Typed
<1>10. Rounds'
  BY <1>1, <1>4 DEF LoopInv, Rounds
<1>11. PrimariesLater'
  BY <1>1 DEF LoopInv, PrimariesLater, InQueues
<1>12. /\ \A h \in BOOLEAN, p \in 1..NumQueues : \A d \in queues[h][p] :
             d.id \in Nat /\ d.id <= scheduled
       /\ \A v \in workers : v.id \in Nat /\ v.id <= scheduled
       /\ \A i \in Ids : want[i] # NoEvent => want[i].id \in Nat /\ want[i].id <= scheduled
  <2>1. \A d \in Events : d.id \in Nat
    BY <1>3 DEF Events, Ids
  <2>2. \A h \in BOOLEAN, p \in 1..NumQueues : \A d \in queues[h][p] :
             d \in Events /\ d.id <= scheduled
    BY DEF LoopInv, Typed, Queued
  <2>3. \A v \in workers : v \in Events /\ v.id <= scheduled
    BY DEF LoopInv, Typed, InOnePlace
  <2>4. \A i \in Ids : want[i] # NoEvent => want[i] \in Events /\ want[i].id <= scheduled
    BY <1>3 DEF LoopInv, Wanted
  <2> QED
    BY <2>1, <2>2, <2>3, <2>4
<1>13. Queued'
  BY <1>1, <1>3, <1>12 DEF LoopInv, Queued
<1>14. Wanted'
  <2> SUFFICES ASSUME NEW i \in Ids
               PROVE  /\ want'[i] = NoEvent => held'[i] = 0
                      /\ want'[i] # NoEvent =>
                            /\ \E v \in workers' : v.id = i
                            /\ want'[i].time >= now'
                            /\ want'[i].id <= scheduled'
                            /\ runningSecondaryEvents' /\ want'[i].time = now' => want'[i].late
    BY DEF Wanted
  <2>1. CASE i = w.id
    BY <1>1, <1>3, <1>4, <1>5, <1>6, <1>7, <2>1
  <2>2. CASE i # w.id
    <3>1. want'[i] = want[i]
      BY <1>7, <2>2
    <3> QED
      BY <1>1, <1>3, <1>12, <3>1 DEF LoopInv, Wanted
  <2> QED
    BY <2>1, <2>2
<1>15. InOnePlace'
  <2>1. InOnePlace
    BY DEF LoopInv
  <2>2. \A v \in workers' : v.id <= scheduled'
    BY <1>1, <1>3, <1>12
  <2>3. ASSUME NEW i \in Ids, want'[i] # NoEvent
        PROVE  /\ \A v \in workers' : want'[i].id # v.id
               /\ \A h \in BOOLEAN, p \in 1..NumQueues : \A d \in queues'[h][p] :
                     want'[i].id # d.id
               /\ \A j \in Ids : want'[j] # NoEvent /\ want'[j].id = want'[i].id => i = j
    <3>1. CASE i = w.id
      <4>1. want'[i].id = scheduled + 1
        BY <1>5, <1>7, <3>1
      <4>2. \A j \in Ids : want'[j] # NoEvent /\ j # i => want'[j].id <= scheduled /\ want'[j].id \in Nat
        BY <1>7, <1>12, <3>1
      <4> QED
        BY <1>1, <1>3, <1>12, <4>1, <4>2
    <3>2. CASE i # w.id
      <4>1. want'[i] = want[i] /\ want[i].id <= scheduled /\ want[i].id \in Nat
        BY <1>7, <1>12, <2>3, <3>2
      <4>2. \A j \in Ids : want'[j].id = want'[i].id => j # w.id
        BY <1>3, <1>5, <1>7, <4>1
      <4> QED
        BY <1>1, <1>7, <2>1, <2>3, <4>1, <4>2 DEF InOnePlace
    <3> QED
      BY <3>1, <3>2
  <2> QED
    BY <1>1, <2>1, <2>2, <2>3 DEF InOnePlace
<1>16. ASSUME NEW h \in BOOLEAN PROVE Owned(h)'
  <2>1. HeldByRun(h)' = HeldByRun(h)
    BY <1>1, <1>4, RunHolds, RunHoldsNext
  <2>2. \A i \in Ids, p \in 1..NumQueues : Holds(i, h, p)' <=> Holds(i, h, p)
    BY <1>1, <1>3, <1>7, <1>8 DEF Holds
  <2> QED
    BY <1>1, <1>4, <2>1, <2>2, OwnedFrame DEF LoopInv
<1> QED
  BY <1>9, <1>10, <1>11, <1>13, <1>14, <1>15, <1>16 DEF LoopInv

(* A handler returns. *)
LEMMA WorkerDoneStep ==
    ASSUME LoopInv, NEW w \in workers, WorkerDone(w)
    PROVE  LoopInv'
<1>1. /\ UNCHANGED <<now, queues, queueChan, runningSecondaryEvents, pc, cur, want, held,
                     scheduled>>
      /\ want[w.id] = NoEvent /\ workers' = workers \ {w}
  BY DEF WorkerDone
<1>2. pc \in {"visit", "wait"}
  BY InARound
<1>3. Typed'
  BY <1>1 DEF LoopInv, Typed
<1>4. Rounds' /\ PrimariesLater' /\ Queued'
  BY <1>1, <1>2 DEF LoopInv, Rounds, PrimariesLater, InQueues, Queued
<1>5. Wanted'
  <2>1. \A i \in Ids : want[i] # NoEvent => \E v \in workers' : v.id = i
    BY <1>1 DEF LoopInv, Wanted
  <2> QED
    BY <1>1, <2>1 DEF LoopInv, Wanted
<1>6. InOnePlace'
  BY <1>1 DEF LoopInv, InOnePlace
<1>7. ASSUME NEW h \in BOOLEAN PROVE Owned(h)'
  <2>1. HeldByRun(h)' = HeldByRun(h)
    BY <1>1, <1>2, RunHolds, RunHoldsNext
  <2>2. \A i \in Ids, p \in 1..NumQueues : Holds(i, h, p)' <=> Holds(i, h, p)
    BY <1>1 DEF Holds
  <2> QED
    BY <1>1, <1>2, <2>1, <2>2, OwnedFrame DEF LoopInv
<1> QED
  BY <1>3, <1>4, <1>5, <1>6, <1>7 DEF LoopInv

(* A goroutine takes a queue of the kind it needs. *)
LEMMA TakeStep ==
    ASSUME LoopInv, NEW w \in workers, TakeQueue(w)
    PROVE  LoopInv'
<1>1. PICK k, i, ch, q :
         /\ k = want[w.id].secondary /\ i = w.id /\ ch = queueChan[k] /\ q = Head(ch)
         /\ held' = [held EXCEPT ![i] = q]
         /\ queueChan' = [queueChan EXCEPT ![k] = Tail(ch)]
  BY DEF TakeQueue
<1>2. /\ UNCHANGED <<now, queues, runningSecondaryEvents, pc, cur, workers, want, scheduled>>
      /\ want[i] # NoEvent /\ held[i] = 0 /\ ch # << >>
  BY <1>1 DEF TakeQueue
<1>3. /\ pc \in {"visit", "wait"} /\ i \in Ids /\ k \in BOOLEAN /\ want[i].secondary = k
      /\ ch \in Seq(1..NumQueues) /\ Distinct(ch)
  <2>1. pc \in {"visit", "wait"} /\ i \in Ids /\ want[i] \in Events
    BY <1>1, <1>2, InARound
  <2>2. k \in BOOLEAN /\ want[i].secondary = k
    BY <1>1, <2>1 DEF Events
  <2>3. ch \in Seq(1..NumQueues) /\ Distinct(ch)
    BY <1>1, <2>2 DEF LoopInv, Typed, Owned
  <2> QED
    BY <2>1, <2>2, <2>3
<1>4. /\ q \in Elems(ch) /\ q \in 1..NumQueues /\ Tail(ch) \in Seq(1..NumQueues)
      /\ Distinct(Tail(ch)) /\ Elems(Tail(ch)) = Elems(ch) \ {q}
  BY <1>1, <1>2, <1>3, TakenOut
<1>5. /\ queueChan' \in [BOOLEAN -> Seq(1..NumQueues)] /\ queueChan'[k] = Tail(ch)
      /\ \A h \in BOOLEAN : h # k => queueChan'[h] = queueChan[h]
  <2>1. queueChan \in [BOOLEAN -> Seq(1..NumQueues)]
    BY DEF LoopInv, Typed
  <2> QED
    BY <1>1, <1>3, <1>4, <2>1
<1>6. /\ held' \in [Ids -> 0..NumQueues]
      /\ \A j \in Ids : held'[j] = IF j = i THEN q ELSE held[j]
  <2>1. held \in [Ids -> 0..NumQueues] /\ q \in 0..NumQueues
    BY <1>4 DEF LoopInv, Typed
  <2> QED
    BY <1>1, <1>3, <2>1
<1>7. Typed'
  BY <1>2, <1>5, <1>6 DEF LoopInv, Typed
<1>8. Rounds' /\ PrimariesLater'
  BY <1>2 DEF LoopInv, Rounds, PrimariesLater, InQueues
<1>9. Queued' /\ InOnePlace'
  BY <1>2 DEF LoopInv, Queued, InOnePlace
<1>10. Wanted'
  BY <1>2, <1>6 DEF LoopInv, Wanted
<1>11. ASSUME NEW h \in BOOLEAN PROVE Owned(h)'
  <2>1. HeldByRun(h)' = HeldByRun(h) /\ pc' # "drain"
    BY <1>2, <1>3, RunHolds, RunHoldsNext
  <2>2. Owned(h)
    BY DEF LoopInv
  <2>3. CASE h # k
    <3>1. \A j \in Ids, p \in 1..NumQueues : Holds(j, h, p)' <=> Holds(j, h, p)
      BY <1>2, <1>3, <1>6, <2>3 DEF Holds
    <3>2. queueChan'[h] = queueChan[h]
      BY <1>5, <2>3
    <3> QED
      BY <2>1, <2>2, <3>1, <3>2 DEF Owned
  <2>4. CASE h = k
    <3>1. \A j \in Ids, p \in 1..NumQueues :
             Holds(j, h, p)' <=> Holds(j, h, p) \/ (j = i /\ p = q)
      BY <1>2, <1>3, <1>6, <2>4 DEF Holds
    <3>2. Distinct(queueChan'[h]) /\ Elems(queueChan'[h]) = Elems(queueChan[h]) \ {q}
          /\ q \in Elems(queueChan[h])
      BY <1>1, <1>4, <1>5, <2>4
    <3>3. /\ q \notin HeldByRun(h)
          /\ \A j \in Ids : ~Holds(j, h, q)
      BY <1>4, <2>2, <3>2 DEF Owned
    <3> QED
      BY <1>3, <2>1, <2>2, <3>1, <3>2, <3>3 DEF Owned
  <2> QED
    BY <2>3, <2>4
<1> QED
  BY <1>7, <1>8, <1>9, <1>10, <1>11 DEF LoopInv

(* A goroutine pushes its event and puts the queue back. *)
LEMMA PushStep ==
    ASSUME LoopInv, NEW w \in workers, PushEvent(w)
    PROVE  LoopInv'
<1>0. /\ pc \in {"visit", "wait"} /\ w.id \in Ids /\ held[w.id] \in 1..NumQueues
      /\ want[w.id] # NoEvent /\ want[w.id] \in Events /\ want[w.id].secondary \in BOOLEAN
  <2>1. /\ pc \in {"visit", "wait"} /\ w.id \in Ids /\ held[w.id] # 0
        /\ want[w.id] \in Events \cup {NoEvent} /\ held[w.id] \in 0..NumQueues
    BY InARound DEF PushEvent
  <2>2. want[w.id] # NoEvent
    BY <2>1 DEF LoopInv, Wanted
  <2>3. held[w.id] \in 1..NumQueues
    BY <2>1, ParallelAssumption
  <2>4. want[w.id].secondary \in BOOLEAN
    BY <2>1, <2>2 DEF Events
  <2> QED
    BY <2>1, <2>2, <2>3, <2>4
<1>a. PICK i \in Ids, e \in Events, k \in BOOLEAN, q \in 1..NumQueues :
         /\ i = w.id /\ e = want[i] /\ k = e.secondary /\ q = held[i]
         /\ queues' = [queues EXCEPT ![k][q] = @ \cup {e}]
         /\ queueChan' = [queueChan EXCEPT ![k] = Append(queueChan[k], q)]
         /\ want' = [want EXCEPT ![i] = NoEvent]
         /\ held' = [held EXCEPT ![i] = 0]
  BY <1>0 DEF PushEvent, PutBack
<1>b. PICK ch : ch = queueChan[k]
  OBVIOUS
<1>1. /\ i = w.id /\ e = want[i] /\ k = e.secondary /\ q = held[i] /\ ch = queueChan[k]
      /\ queues' = [queues EXCEPT ![k][q] = @ \cup {e}]
      /\ queueChan' = [queueChan EXCEPT ![k] = Append(ch, q)]
      /\ want' = [want EXCEPT ![i] = NoEvent]
      /\ held' = [held EXCEPT ![i] = 0]
  BY <1>a, <1>b
<1>2. UNCHANGED <<now, runningSecondaryEvents, pc, cur, workers, scheduled>>
  BY DEF PushEvent
<1>3. pc \in {"visit", "wait"} /\ want[i] # NoEvent
  BY <1>0, <1>1
<1>4. Holds(i, k, q) /\ ch \in Seq(1..NumQueues) /\ Distinct(ch) /\ q \notin Elems(ch)
  <2>1. Holds(i, k, q)
    BY <1>1, <1>3 DEF Holds
  <2> QED
    BY <1>1, <1>3, <2>1 DEF LoopInv, Typed, Owned
<1>5. /\ Append(ch, q) \in Seq(1..NumQueues) /\ Distinct(Append(ch, q))
      /\ Elems(Append(ch, q)) = Elems(ch) \cup {q}
  <2>1. ch \in Seq(1..NumQueues) /\ q \in 1..NumQueues /\ Distinct(ch) /\ q \notin Elems(ch)
    BY <1>3, <1>4
  <2> QED
    BY <2>1, PutIn
<1>6. /\ queueChan' \in [BOOLEAN -> Seq(1..NumQueues)] /\ queueChan'[k] = Append(ch, q)
      /\ \A h \in BOOLEAN : h # k => queueChan'[h] = queueChan[h]
  <2>1. queueChan \in [BOOLEAN -> Seq(1..NumQueues)]
    BY DEF LoopInv, Typed
  <2> QED
    BY <1>1, <1>3, <1>5, <2>1
<1>7. /\ held' \in [Ids -> 0..NumQueues] /\ want' \in [Ids -> Events \cup {NoEvent}]
      /\ \A j \in Ids : held'[j] = (IF j = i THEN 0 ELSE held[j])
                        /\ want'[j] = IF j = i THEN NoEvent ELSE want[j]
  <2>1. held \in [Ids -> 0..NumQueues] /\ want \in [Ids -> Events \cup {NoEvent}]
    BY DEF LoopInv, Typed
  <2>2. 0 \in 0..NumQueues
    BY ParallelAssumption
  <2> QED
    BY <1>1, <1>3, <2>1, <2>2
<1>8. /\ e.time >= now /\ e.id <= scheduled
      /\ runningSecondaryEvents /\ e.time = now => e.late
      /\ \A v \in workers : e.id # v.id
      /\ \A h \in BOOLEAN, p \in 1..NumQueues : \A d \in queues[h][p] : e.id # d.id
      /\ \A j \in Ids : want[j] # NoEvent /\ want[j].id = e.id => i = j
  BY <1>1, <1>3 DEF LoopInv, Wanted, InOnePlace
<1>9. /\ queues' \in [BOOLEAN -> [1..NumQueues -> SUBSET Events]]
      /\ \A h \in BOOLEAN, p \in 1..NumQueues :
            \A d \in queues'[h][p] : d \in queues[h][p] \/ d = e
      /\ Queued'
      /\ \A h, j \in BOOLEAN, o, p \in 1..NumQueues :
            \A c \in queues'[h][o], d \in queues'[j][p] :
                c.id = d.id => h = j /\ o = p /\ c = d
  <2>1. scheduled \in Nat
    BY ParallelAssumption DEF LoopInv, Typed
  <2>2. /\ now' = now /\ scheduled' \in Nat /\ scheduled' >= scheduled
        /\ e.time >= now /\ e.id <= scheduled'
    BY <1>2, <1>8, <2>1
  <2>3. queues' = [queues EXCEPT ![k][q] = @ \cup {e}]
    BY <1>1
  <2>4. \A h \in BOOLEAN, p \in 1..NumQueues : \A d \in queues[h][p] : d.id # e.id
    BY <1>8
  <2>5. q \in 1..NumQueues /\ e \in Events /\ e.secondary = k
    BY <1>1
  <2>6. queues' \in [BOOLEAN -> [1..NumQueues -> SUBSET Events]] /\ Queued'
    BY <2>2, <2>3, <2>4, <2>5, Enters
  <2>7. \A h \in BOOLEAN, p \in 1..NumQueues :
            \A d \in queues'[h][p] : d \in queues[h][p] \/ d = e
    BY <2>2, <2>3, <2>4, <2>5, Enters
  <2>8. \A h, j \in BOOLEAN, o, p \in 1..NumQueues :
            \A c \in queues'[h][o], d \in queues'[j][p] :
                c.id = d.id => h = j /\ o = p /\ c = d
    BY <2>2, <2>3, <2>4, <2>5, Enters
  <2> QED
    BY <2>6, <2>7, <2>8
<1>10. Typed'
  BY <1>2, <1>6, <1>7, <1>9 DEF LoopInv, Typed
<1>11. Rounds'
  BY <1>2, <1>3 DEF LoopInv, Rounds
<1>12. PrimariesLater'
  <2> SUFFICES ASSUME runningSecondaryEvents, NEW x \in InQueues(FALSE)'
               PROVE  x.time > now \/ (x.time = now /\ x.late)
    BY <1>2 DEF PrimariesLater
  <2>1. PICK p \in 1..NumQueues : x \in queues'[FALSE][p]
    BY DEF InQueues
  <2>2. CASE x \in queues[FALSE][p]
    <3>1. x \in InQueues(FALSE)
      BY <2>2 DEF InQueues
    <3> QED
      BY <1>3, <3>1 DEF LoopInv, PrimariesLater
  <2>3. CASE x = e
    <3>1. e.time = now => e.late
      BY <1>8
    <3>2. e.time \in Nat /\ now \in Nat
      BY <1>3, ParallelAssumption DEF LoopInv, Typed, Events
    <3> QED
      BY <1>8, <2>3, <3>1, <3>2
  <2> QED
    BY <1>9, <2>1, <2>2, <2>3
<1>13. Wanted'
  BY <1>2, <1>7 DEF LoopInv, Wanted
<1>14. InOnePlace'
  <2>1. InOnePlace
    BY DEF LoopInv
  <2>2. \A h \in BOOLEAN, p \in 1..NumQueues : \A d \in queues'[h][p] :
           d \in queues[h][p] \/ d = e
    BY <1>9
  <2>3. \A h \in BOOLEAN, p \in 1..NumQueues : \A d \in queues'[h][p], v \in workers' :
           d.id # v.id
    BY <1>2, <1>8, <2>1, <2>2 DEF InOnePlace
  <2>4. ASSUME NEW j \in Ids, want'[j] # NoEvent
        PROVE  /\ \A v \in workers' : want'[j].id # v.id
               /\ \A h \in BOOLEAN, p \in 1..NumQueues : \A d \in queues'[h][p] :
                     want'[j].id # d.id
               /\ \A g \in Ids : want'[g] # NoEvent /\ want'[g].id = want'[j].id => j = g
    <3>1. j # i /\ want'[j] = want[j] /\ want[j].id # e.id
      BY <1>7, <1>8, <2>4
    <3>2. \A h \in BOOLEAN, p \in 1..NumQueues : \A d \in queues'[h][p] :
             want'[j].id # d.id
      BY <2>1, <2>2, <2>4, <3>1 DEF InOnePlace
    <3>3. \A g \in Ids : want'[g] # NoEvent => want'[g] = want[g]
      BY <1>7
    <3> QED
      BY <1>2, <2>1, <2>4, <3>1, <3>2, <3>3 DEF InOnePlace
  <2> QED
    BY <1>2, <1>9, <2>1, <2>3, <2>4 DEF InOnePlace
<1>15. ASSUME NEW h \in BOOLEAN PROVE Owned(h)'
  <2>1. HeldByRun(h)' = HeldByRun(h) /\ pc' # "drain"
    BY <1>2, <1>3, RunHolds, RunHoldsNext
  <2>2. Owned(h)
    BY DEF LoopInv
  <2>3. CASE h # k
    <3>1. \A j \in Ids, p \in 1..NumQueues : Holds(j, h, p)' <=> Holds(j, h, p)
      BY <1>1, <1>2, <1>3, <1>7, <2>3 DEF Holds
    <3>2. queueChan'[h] = queueChan[h]
      BY <1>6, <2>3
    <3> QED
      BY <2>1, <2>2, <3>1, <3>2 DEF Owned
  <2>4. CASE h = k
    <3>1. \A j \in Ids, p \in 1..NumQueues : Holds(j, h, p)' <=> Holds(j, h, p) /\ j # i
      BY <1>2, <1>7 DEF Holds
    <3>2. Distinct(queueChan'[h]) /\ Elems(queueChan'[h]) = Elems(queueChan[h]) \cup {q}
      BY <1>1, <1>5, <1>6, <2>4
    <3>3. Holds(i, h, q) /\ \A p \in 1..NumQueues : Holds(i, h, p) => p = q
      BY <1>4, <2>4 DEF Holds
    <3>4. q \notin HeldByRun(h) /\ \A j \in Ids : Holds(j, h, q) => j = i
      BY <1>3, <2>2, <3>3 DEF Owned
    <3> QED
      BY <1>3, <2>1, <2>2, <3>1, <3>2, <3>3, <3>4 DEF Owned
  <2> QED
    BY <2>3, <2>4
<1> QED
  BY <1>9, <1>10, <1>11, <1>12, <1>13, <1>14, <1>15 DEF LoopInv

-----------------------------------------------------------------------------
(* Every step of the engine keeps LoopInv. *)
LEMMA LoopNext == LoopInv /\ [Next]_vars => LoopInv'
<1> SUFFICES ASSUME LoopInv, [Next]_vars PROVE LoopInv'
  OBVIOUS
<1>1. CASE RunStep
  BY <1>1, PcMoves, DetermineStep, EmptyStep, StartStep, LeaveStep DEF RunStep
<1>2. CASE ScheduleStep
  BY <1>2, ScheduleBeforeStep, ScheduleCallStep DEF ScheduleStep
<1>3. ASSUME NEW w \in workers, WorkerStep(w) PROVE LoopInv'
  BY <1>3, TakeStep, PushStep, WorkerDoneStep DEF WorkerStep
<1>4. CASE UNCHANGED vars
  <2>0. Typed'
    BY <1>4 DEF vars, LoopInv, Typed
  <2>1. Rounds' /\ PrimariesLater'
    BY <1>4 DEF vars, LoopInv, Rounds, PrimariesLater, InQueues
  <2>2. Queued' /\ Wanted' /\ InOnePlace'
    BY <1>4 DEF vars, LoopInv, Queued, Wanted, InOnePlace
  <2>3. ASSUME NEW k \in BOOLEAN PROVE Owned(k)'
    <3>1. HeldByRun(k)' = HeldByRun(k)
      BY <1>4 DEF vars, HeldByRun, InChan
    <3>2. \A i \in Ids, q \in 1..NumQueues : Holds(i, k, q)' <=> Holds(i, k, q)
      BY <1>4 DEF vars, Holds
    <3> QED
      BY <1>4, <3>1, <3>2 DEF vars, LoopInv, Owned
  <2> QED
    BY <2>0, <2>1, <2>2, <2>3 DEF LoopInv
<1> QED
  BY <1>1, <1>2, <1>3, <1>4 DEF Next

LEMMA LoopAlways == Spec => []LoopInv
  BY LoopInit, LoopNext, PTL DEF Spec

(* Whoever works on a queue, the goroutine in Run or one that schedules an  *)
(* event, has taken it out of its channel and works on it alone, and no     *)
(* queue gets lost: for any number of queues, events and goroutines.        *)
THEOREM QueuesHaveOneOwner == Spec => []OneOwner
<1>1. LoopInv => OneOwner
  BY OwnedIsOneOwner
<1> QED
  BY <1>1, LoopAlways, PTL

(* When Run starts a goroutine on a secondary event, every primary event    *)
(* that waits is later, or was scheduled by a secondary event of that time. *)
THEOREM ParallelSecondaryAfterPrimary == Spec => SecondaryAfterEarlierPrimary
<1> DEFINE After == \A e \in workers' \ workers : e.secondary =>
              \A x \in InQueues(FALSE) : x.time > e.time \/ (x.time = e.time /\ x.late)
<1>1. ASSUME LoopInv, [Next]_vars PROVE [After]_vars
  <2> USE <1>1
  <2>1. CASE StartWorker
    <3>1. PICK e : e \in Visited /\ e.time = now /\ workers' = workers \cup {e}
      BY <2>1 DEF StartWorker, Front
    <3>2. e.secondary = runningSecondaryEvents
      BY <3>1 DEF LoopInv, Typed, Queued, Visited
    <3>3. e.secondary =>
             \A x \in InQueues(FALSE) : x.time > e.time \/ (x.time = e.time /\ x.late)
      BY <2>1, <3>1, <3>2 DEF StartWorker, LoopInv, PrimariesLater
    <3> QED
      BY <3>1, <3>3
  <2>2. CASE CallRun \/ HasMoreEvents \/ DetermineWhatToRun \/ EmptyQueueChan
             \/ LeaveQueue \/ WaitForWorkers \/ UNCHANGED vars
    <3>1. workers' = workers
      BY <2>2 DEF CallRun, HasMoreEvents, DetermineWhatToRun, EmptyQueueChan,
         LeaveQueue, WaitForWorkers, vars
    <3> QED
      BY <3>1
  <2>3. CASE ScheduleStep
    <3>1. workers' = workers
      BY <2>3 DEF ScheduleStep, ScheduleBefore, ScheduleCall
    <3> QED
      BY <3>1
  <2>4. CASE \E w \in workers : WorkerStep(w)
    <3>1. workers' \subseteq workers
      BY <2>4 DEF WorkerStep, TakeQueue, PushEvent, WorkerDone
    <3> QED
      BY <3>1
  <2> QED
    BY <2>1, <2>2, <2>3, <2>4 DEF Next, RunStep
<1> QED
  BY LoopAlways, <1>1, PTL DEF Spec, SecondaryAfterEarlierPrimary

-----------------------------------------------------------------------------
(* Refinement *)

(* The events that wait once one has entered a queue. *)
LEMMA WaitingGrows ==
    ASSUME LoopInv, NEW k \in BOOLEAN, NEW q \in 1..NumQueues, NEW e,
           queues' = [queues EXCEPT ![k][q] = @ \cup {e}]
    PROVE  Waiting' = Waiting \cup {e}
<1>1. queues \in [BOOLEAN -> [1..NumQueues -> SUBSET Events]]
  BY DEF LoopInv, Typed
<1>2. \A h \in BOOLEAN, p \in 1..NumQueues :
         queues'[h][p] = IF h = k /\ p = q THEN queues[h][p] \cup {e} ELSE queues[h][p]
  BY <1>1
<1>3. \A d : d \in Waiting <=> \E h \in BOOLEAN, p \in 1..NumQueues : d \in queues[h][p]
  BY DEF Waiting, InQueues
<1>4. \A d : d \in Waiting' <=> \E h \in BOOLEAN, p \in 1..NumQueues : d \in queues'[h][p]
  BY DEF Waiting, InQueues
<1>5. Waiting \subseteq Waiting'
  BY <1>2, <1>3, <1>4
<1>6. e \in Waiting'
  BY <1>2, <1>4
<1>7. Waiting' \subseteq Waiting \cup {e}
  BY <1>2, <1>3, <1>4
<1> QED
  BY <1>5, <1>6, <1>7

(* The events that wait once one has gone to a goroutine: no other queue *)
(* has it.                                                               *)
LEMMA WaitingShrinks ==
    ASSUME LoopInv, NEW e, Started(e)
    PROVE  Waiting' = Waiting \ {e} /\ e \in Waiting
<1> DEFINE S == runningSecondaryEvents
<1>1. /\ queues \in [BOOLEAN -> [1..NumQueues -> SUBSET Events]]
      /\ S \in BOOLEAN /\ cur \in 1..NumQueues /\ e \in queues[S][cur]
  BY DEF LoopInv, Typed, Started, Visited
<1>2. \A h \in BOOLEAN, p \in 1..NumQueues :
         queues'[h][p] = IF h = S /\ p = cur THEN queues[h][p] \ {e} ELSE queues[h][p]
  BY <1>1 DEF Started
<1>3. \A d : d \in Waiting <=> \E h \in BOOLEAN, p \in 1..NumQueues : d \in queues[h][p]
  BY DEF Waiting, InQueues
<1>4. \A d : d \in Waiting' <=> \E h \in BOOLEAN, p \in 1..NumQueues : d \in queues'[h][p]
  BY DEF Waiting, InQueues
<1>5. Waiting \ {e} \subseteq Waiting'
  BY <1>2, <1>3, <1>4
<1>6. e \notin Waiting'
  <2>1. \A h \in BOOLEAN, p \in 1..NumQueues : e \in queues[h][p] => h = S /\ p = cur
    BY <1>1 DEF LoopInv, InOnePlace
  <2> QED
    BY <1>2, <1>4, <2>1
<1>7. Waiting' \subseteq Waiting
  BY <1>2, <1>3, <1>4
<1>8. e \in Waiting
  BY <1>1, <1>3
<1> QED
  BY <1>5, <1>6, <1>7, <1>8

(* A new event waits nowhere and is with no goroutine. *)
LEMMA FreshEvent ==
    ASSUME LoopInv, NEW e,
           \A k \in BOOLEAN, q \in 1..NumQueues : \A d \in queues[k][q] : d.id # e.id,
           \A w \in workers : w.id # e.id
    PROVE  e \notin Waiting \cup workers
  BY DEF Waiting, InQueues

(* What is known of the events that wait. *)
LEMMA WaitingEvents ==
    ASSUME LoopInv
    PROVE  /\ \A k \in BOOLEAN, q \in 1..NumQueues : \A d \in queues[k][q] :
                 d.id \in Nat /\ d.id <= scheduled
           /\ \A x \in Waiting : x.time \in Nat /\ now \in Nat /\ now <= x.time
<1>1. \A d \in Events : d.id \in Nat /\ d.time \in Nat
  BY ParallelAssumption DEF Events, Ids
<1>2. \A k \in BOOLEAN, q \in 1..NumQueues : \A d \in queues[k][q] :
         d \in Events /\ d.id <= scheduled /\ d.time >= now
  BY DEF LoopInv, Typed, Queued
<1>3. now \in Nat
  BY ParallelAssumption DEF LoopInv, Typed
<1>4. \A x \in Waiting : \E k \in BOOLEAN, q \in 1..NumQueues : x \in queues[k][q]
  BY DEF Waiting, InQueues
<1> QED
  BY <1>1, <1>2, <1>3, <1>4

(* The steps that the abstract engine does not see. *)
LEMMA Unseen ==
    ASSUME UNCHANGED <<now, queues, workers>>,
           pc' = "setup" <=> pc = "setup", pc' = "returned" <=> pc = "returned"
    PROVE  UNCHANGED Engine!engineVars
  BY DEF Engine!engineVars, InQueues

(* Refinement: each step of the event loop and of its goroutines is a step  *)
(* of the abstract engine or leaves it alone, so no event is lost, handled  *)
(* twice, early or late, however many goroutines run at once.               *)
THEOREM ParallelIsEngine == Spec => IsEngine
<1>1. Init => Engine!Init
  BY DEF Init, Engine!Init, InQueues
<1>2. ASSUME LoopInv, LoopInv', [Next]_vars PROVE [Engine!Next]_(Engine!engineVars)
  <2> USE <1>2
  <2>1. ASSUME NEW t \in 0..MaxTime, NEW k \in BOOLEAN, ScheduleBefore(t, k)
        PROVE  Engine!ScheduleEvent
    <3>1. /\ pc = "setup" /\ pc' = "setup" /\ UNCHANGED <<now, workers>> /\ now = 0
          /\ workers = {} /\ scheduled < MaxEvents
      BY <2>1 DEF ScheduleBefore, LoopInv, Rounds
    <3>2. PICK e, q : /\ e = [id |-> scheduled + 1, time |-> t, secondary |-> k, late |-> FALSE]
                      /\ q = Head(queueChan[k])
                      /\ queues' = [queues EXCEPT ![k][q] = @ \cup {e}]
      BY <2>1 DEF ScheduleBefore
    <3>3. scheduled \in Nat /\ MaxEvents \in Nat /\ NumQueues \in Nat \ {0} /\ MaxTime \in Nat
      BY ParallelAssumption DEF LoopInv, Typed
    <3>4. e \in Events /\ e.id = scheduled + 1 /\ e.time = t
      BY <3>1, <3>2, <3>3 DEF Events, Ids
    <3>5. q \in 1..NumQueues
      <4>1. queueChan[k] \in Seq(1..NumQueues) /\ Len(queueChan[k]) = NumQueues
        BY <3>1, ChannelsFull DEF LoopInv, Typed
      <4> QED
        BY <3>2, <3>3, <4>1
    <3>6. Waiting' = Waiting \cup {e}
      BY <3>2, <3>5, WaitingGrows
    <3>7. \A h \in BOOLEAN, p \in 1..NumQueues : \A d \in queues[h][p] : d.id # e.id
      BY <3>3, <3>4, WaitingEvents
    <3>8. e \notin Waiting \cup workers
      BY <3>1, <3>7, FreshEvent
    <3>9. e.time >= now
      BY <3>1, <3>3, <3>4
    <3> QED
      BY <3>1, <3>4, <3>6, <3>8, <3>9 DEF Engine!ScheduleEvent, Waiting
  <2>2. ASSUME NEW w \in workers, PushEvent(w)
        PROVE  Engine!ScheduleEvent
    <3>1. PICK i, e, k, q :
             /\ i = w.id /\ e = want[i] /\ k = e.secondary /\ q = held[i]
             /\ queues' = [queues EXCEPT ![k][q] = @ \cup {e}]
      BY <2>2 DEF PushEvent
    <3>2. UNCHANGED <<now, workers, pc>> /\ q # 0 /\ workers # {}
      BY <2>2, <3>1 DEF PushEvent
    <3>3. /\ i \in Ids /\ want[i] # NoEvent /\ e \in Events
          /\ k \in BOOLEAN /\ q \in 1..NumQueues
      <4>1. i \in Ids /\ want[i] \in Events \cup {NoEvent} /\ held[i] \in 0..NumQueues
        BY <3>1, InARound
      <4>2. want[i] # NoEvent
        BY <3>1, <3>2, <4>1 DEF LoopInv, Wanted
      <4>3. q \in 1..NumQueues
        BY <3>1, <3>2, <4>1, ParallelAssumption
      <4>4. e \in Events
        BY <3>1, <4>1, <4>2
      <4>5. k \in BOOLEAN
        BY <3>1, <4>4 DEF Events
      <4> QED
        BY <4>1, <4>2, <4>3, <4>4, <4>5
    <3>4. Waiting' = Waiting \cup {e}
      BY <3>1, <3>3, WaitingGrows
    <3>5. /\ e.time >= now
          /\ \A v \in workers : e.id # v.id
          /\ \A h \in BOOLEAN, p \in 1..NumQueues : \A d \in queues[h][p] : d.id # e.id
      <4>1. Wanted /\ InOnePlace
        BY DEF LoopInv
      <4>2. e.time >= now
        BY <3>1, <3>3, <4>1 DEF Wanted
      <4>3. /\ \A v \in workers : want[i].id # v.id
            /\ \A h \in BOOLEAN, p \in 1..NumQueues : \A d \in queues[h][p] :
                  want[i].id # d.id
        BY <3>3, <4>1, Zenon DEF InOnePlace
      <4> QED
        BY <3>1, <4>2, <4>3
    <3>6. e \notin Waiting \cup workers
      BY <3>5, FreshEvent
    <3> QED
      BY <3>2, <3>3, <3>4, <3>5, <3>6 DEF Engine!ScheduleEvent, Waiting
  <2>3. CASE CallRun
    BY <2>3 DEF CallRun, Engine!CallRun, Engine!Next, InQueues
  <2>4. CASE HasMoreEvents
    <3>1. pc = "check" /\ workers = {} /\ UNCHANGED <<now, queues, workers>>
      BY <2>4 DEF HasMoreEvents, LoopInv, Rounds
    <3>2. CASE Waiting = {}
      <4>1. pc' = "returned" /\ Waiting' = {}
        BY <2>4, <3>1, <3>2 DEF HasMoreEvents, Waiting, InQueues
      <4>2. Engine!ReturnRun
        BY <3>1, <3>2, <4>1 DEF Engine!ReturnRun, Waiting
      <4> QED
        BY <4>2 DEF Engine!Next
    <3>3. CASE Waiting # {}
      <4>1. pc' = "determine"
        BY <2>4, <3>3 DEF HasMoreEvents, Waiting
      <4> QED
        BY <3>1, <4>1, Unseen
    <3> QED
      BY <3>2, <3>3
  <2>5. CASE DetermineWhatToRun
    <3>1. /\ pc = "determine" /\ pc' = "drain" /\ workers = {}
          /\ UNCHANGED <<queues, workers>>
      BY <2>5 DEF DetermineWhatToRun, LoopInv, Rounds
    <3>2. PICK e \in Waiting : now' = e.time
      BY <2>5, RoundIsEarliest
    <3>3. \A x \in Waiting : e.time <= x.time
      BY <2>5, <3>2, RoundIsEarliest
    <3>4. Waiting' = Waiting
      BY <3>1 DEF Waiting, InQueues
    <3>5. Engine!Advance
      BY <3>1, <3>2, <3>3, <3>4 DEF Engine!Advance, Waiting
    <3> QED
      BY <3>5 DEF Engine!Next
  <2>6. CASE StartWorker
    <3>1. PICK e : Started(e)
      BY <2>6 DEF StartWorker, Started, Front
    <3>2. pc = "visit" /\ pc' = pc /\ now' = now /\ now \in Nat
      BY <2>6, ParallelAssumption DEF StartWorker, LoopInv, Typed
    <3>3. Waiting' = Waiting \ {e} /\ e \in Waiting
      BY <3>1, WaitingShrinks
    <3>4. e.time = now /\ workers' = workers \cup {e}
      BY <3>1 DEF Started
    <3>5. \A x \in Waiting : now <= x.time
      BY WaitingEvents
    <3>6. \A x \in workers : x.secondary = e.secondary
      BY <3>1, <3>4 DEF LoopInv, Rounds, Queued, Typed, Started, Visited
    <3>7. Engine!StartEvent
      BY <3>2, <3>3, <3>4, <3>5, <3>6 DEF Engine!StartEvent, Waiting
    <3> QED
      BY <3>7 DEF Engine!Next
  <2>7. ASSUME NEW w \in workers, WorkerDone(w)
        PROVE  Engine!FinishEvent
    BY <2>7 DEF WorkerDone, Engine!FinishEvent, InQueues
  <2>8. CASE EmptyQueueChan
    BY <2>8, Unseen DEF EmptyQueueChan
  <2>9. CASE LeaveQueue
    BY <2>9, Unseen DEF LeaveQueue
  <2>10. CASE WaitForWorkers
    BY <2>10, Unseen DEF WaitForWorkers
  <2>11. CASE UNCHANGED vars
    BY <2>11, Unseen DEF vars
  <2>12. CASE \E w \in workers : TakeQueue(w)
    BY <2>12, Unseen DEF TakeQueue
  <2>13. CASE \E w \in workers, t \in 0..MaxTime, k \in BOOLEAN : ScheduleCall(w, t, k)
    BY <2>13, Unseen DEF ScheduleCall
  <2>14. CASE RunStep
    BY <2>3, <2>4, <2>5, <2>6, <2>8, <2>9, <2>10, <2>14 DEF RunStep, Engine!Next
  <2>15. CASE ScheduleStep
    BY <2>1, <2>13, <2>15 DEF ScheduleStep, Engine!Next
  <2>16. CASE \E w \in workers : WorkerStep(w)
    BY <2>2, <2>7, <2>12, <2>16 DEF WorkerStep, Engine!Next
  <2> QED
    BY <2>11, <2>14, <2>15, <2>16 DEF Next
<1> QED
  BY LoopAlways, <1>1, <1>2, PTL DEF Spec, IsEngine, Engine!Spec

=============================================================================
