---------------------------- MODULE WriteBackCache ----------------------------
(***************************************************************************)
(* The write-back cache (mem/cache/writeback) between its requester and    *)
(* the memory below it.  Tick runs the stages of the cache one after the   *)
(* other in a fixed order, so it is one step, the composition of the       *)
(* stages; a stage is a function from the state of the cache to its next   *)
(* state.  The requester, the memory and the sender of control requests    *)
(* act between ticks.                                                      *)
(***************************************************************************)
EXTENDS Naturals, Integers, Sequences, FiniteSets, SequencesExt, Pipelining

CONSTANTS
    Lines,              \* cache lines of the address space
    Offsets,            \* bytes of a line
    NumSets, Ways,
    SetOf,              \* the set of each line
    NumReqPerCycle,
    BankLatency,        \* numStage of the bank pipeline
    NumMSHREntry,
    WriteBufferCapacity, MaxInflightFetch, MaxInflightEviction,
    ConnCapacity,       \* messages a connection buffers per port
    Scripts,            \* sequences of requests the requester may make
    Controls            \* sequences of control requests that may be made

ASSUME CacheAssumption ==
    /\ SetOf \in [Lines -> 1..NumSets]
    /\ NumReqPerCycle \in {1, 2}
    /\ {Ways, BankLatency, NumMSHREntry, WriteBufferCapacity, MaxInflightFetch,
        MaxInflightEviction, ConnCapacity} \subseteq Nat \ {0}

VARIABLES
    script,     \* the requests, made in this order
    control,    \* the control requests still to be made
    cache,      \* the state of Cache, of its stages and of its ports
    mem,        \* the memory below
    awake,      \* a tick of the cache is scheduled
    sent,       \* how many requests were made
    answered,   \* the requests that were answered
    seen,       \* seen[r]: the requests answered when r was made
    got         \* got[r]: the data in the answer to the read r

vars == <<script, control, cache, mem, awake, sent, answered, seen, got>>

Slots == 1..(NumSets * Ways)
SlotsOf(line) == {s \in Slots : (s - 1) \div Ways + 1 = SetOf[line]}

None == 0

(* A transaction is named by its request, or by the slot that it flushes. *)
FlushTrans(s) == Len(script) + s
Transactions == 1..(Len(script) + NumSets * Ways)

Line(t) == script[t].line
IsRead(t) == script[t].op = "read"
Written(t) == IF IsRead(t) THEN {} ELSE script[t].offs
IsWritingFullLine(t) == Written(t) = Offsets

\* laneWidth: one lane would leave none for the transactions going up
PipelineWidth == IF NumReqPerCycle = 1 THEN 2 ELSE NumReqPerCycle

Room(buffer) == Len(buffer) < NumReqPerCycle
SenderRoom(buffer) == Len(buffer) < 4 * NumReqPerCycle
PortRoom(buffer) == Len(buffer) < 2 * NumReqPerCycle

Positions(q, Test(_)) == {i \in DOMAIN q : Test(q[i])}
FirstOf(positions) == CHOOSE i \in positions : \A j \in positions : i <= j

Elements(q) == {q[i] : i \in DOMAIN q}

(* The state after Stage; TLC evaluates c once. *)
After(c, Stage(_)) == CHOOSE d \in {Stage(x) : x \in {c}} : TRUE

Panic(c, why) == [c EXCEPT !.panic = why]

-----------------------------------------------------------------------------
(* topSender, bottomSender *)

TopSender(c) ==
    IF c.topSender = << >> \/ Len(c.toTop) >= ConnCapacity THEN c
    ELSE [c EXCEPT !.topSender = Tail(@),
                   !.toTop = Append(@, Head(c.topSender)), !.progress = TRUE]

BottomSender(c) ==
    IF c.bottomSender = << >> \/ Len(c.toBottom) >= ConnCapacity THEN c
    ELSE [c EXCEPT !.bottomSender = Tail(@),
                   !.toBottom = Append(@, Head(c.bottomSender)), !.progress = TRUE]

-----------------------------------------------------------------------------
(* mshrStage: the requests of a fetched line are answered one by one.  A    *)
(* request that is no longer in flight was discarded.                       *)

Zeros == [o \in Offsets |-> 0]

Response(t, data) == [to |-> t, data |-> IF IsRead(t) THEN data ELSE Zeros]

TakeMSHREntry(c) ==
    IF c.processingMSHREntry = None /\ c.mshrStageBuffer # << >>
    THEN [c EXCEPT !.processingMSHREntry = Head(c.mshrStageBuffer),
                   !.mshrStageBuffer = Tail(@)]
    ELSE c

ProcessOneReq(c) ==
    LET e == c.processingMSHREntry
        t == Head(c.requests[e])
    IN  IF e = None \/ ~SenderRoom(c.topSender) THEN c
        ELSE [c EXCEPT
                !.inFlight = @ \ {t},
                !.topSender = IF t \in c.inFlight
                              THEN Append(@, Response(t, c.entryData[e])) ELSE @,
                !.requests[e] = Tail(@),
                !.processingMSHREntry = IF Len(c.requests[e]) = 1 THEN None ELSE @,
                !.progress = TRUE]

MSHRStage(c) == After(After(c, TakeMSHREntry), ProcessOneReq)

-----------------------------------------------------------------------------
(* bankStage *)

Evictions == {"bankEvict", "bankEvictAndFetch", "bankEvictAndWrite"}

Overwrite(old, t) == [o \in Offsets |-> IF o \in Written(t) THEN t ELSE old[o]]

FinalizeReadHit(c, t) ==
    LET s == c.trans[t].block
    IN  [c EXCEPT
           !.topSender = Append(@, Response(t, c.storage[s])),
           !.inFlight = @ \ {t},
           !.inflightTransCount = @ - 1,
           !.downwardInflightTransCount = @ - 1,
           !.blocks[s].readCount = @ - 1]

\* Mutant: the block stays locked.
FinalizeWriteHitMutant(c, t) ==
    [c EXCEPT !.storage[c.trans[t].block] = Overwrite(@, t),
              !.blocks[c.trans[t].block].dirty = TRUE,
              !.topSender = Append(@, Response(t, Zeros)),
              !.inFlight = @ \ {t}, !.inflightTransCount = @ - 1]

(* The dirty mask that an eviction by the same transaction carries is the   *)
(* slice of the block, which writeData changes in place.                    *)
FinalizeWriteHit(c, t) ==
    LET s == c.trans[t].block
    IN  [c EXCEPT
           !.storage[s] = Overwrite(@, t),
           !.blocks[s].valid = TRUE,
           !.blocks[s].locked = FALSE,
           !.blocks[s].dirty = TRUE,
           !.blocks[s].mask = @ \cup Written(t),
           !.trans[t].evictingMask = @ \cup Written(t),
           !.topSender = Append(@, Response(t, c.storage[s])),
           !.inFlight = @ \ {t},
           !.inflightTransCount = @ - 1,
           !.downwardInflightTransCount = @ - 1]

FinalizeBankWriteFetched(c, t) ==
    LET s == c.trans[t].block
        new == [c EXCEPT !.mshrStageBuffer = Append(@, t),
                         !.storage[s] = c.entryData[t],
                         !.inflightTransCount = @ - 1]
    IN  IF t \in c.orphans THEN new     \* Directory.Reset made new blocks
        ELSE [new EXCEPT !.blocks[s].locked = FALSE, !.blocks[s].valid = TRUE]

AfterEviction(action) ==
    CASE action = "bankEvict" -> "writeBufferFlush"
      [] action = "bankEvictAndFetch" -> "writeBufferEvictAndFetch"
      [] action = "bankEvictAndWrite" -> "writeBufferEvictAndWrite"

\* Mutant: the line stays in evictingList.
FinalizeBankEvictionMutant(c, t) ==
    [c EXCEPT
       !.trans[t].evictingData = c.storage[c.trans[t].victim],
       !.trans[t].action = AfterEviction(@),
       !.writeBufferBuffer = Append(@, t),
       !.inflightTransCount = @ - 1,
       !.downwardInflightTransCount = @ - 1]

FinalizeBankEviction(c, t) ==
    [c EXCEPT
       !.trans[t].evictingData = c.storage[c.trans[t].victim],
       !.trans[t].action = AfterEviction(@),
       !.evictingList = @ \ {c.trans[t].evictingAddr},
       !.writeBufferBuffer = Append(@, t),
       !.inflightTransCount = @ - 1,
       !.downwardInflightTransCount = @ - 1]

CanFinalize(c, t) ==
    LET action == c.trans[t].action
    IN  IF action \in {"bankReadHit", "bankWriteHit"} THEN SenderRoom(c.topSender)
        ELSE IF action = "bankWriteFetched" THEN Room(c.mshrStageBuffer)
        ELSE Room(c.writeBufferBuffer)

FinalizeTrans(c) ==
    LET ready == Positions(c.postPipelineBuf, LAMBDA t : CanFinalize(c, t))
        t == c.postPipelineBuf[FirstOf(ready)]
        action == c.trans[t].action
        done == [c EXCEPT !.postPipelineBuf = RemoveAt(@, FirstOf(ready)),
                          !.progress = TRUE]
    IN  IF ready = {} THEN c
        ELSE IF action \in {"bankReadHit", "bankWriteHit"} /\ t \notin c.inFlight
             THEN Panic(done, "transaction not found")
        ELSE CASE action = "bankReadHit" -> FinalizeReadHit(done, t)
               [] action = "bankWriteHit" -> FinalizeWriteHit(done, t)
               [] action = "bankWriteFetched" -> FinalizeBankWriteFetched(done, t)
               [] action \in Evictions -> FinalizeBankEviction(done, t)

BankPipeline(c) ==
    LET room == PipelineWidth - Len(c.postPipelineBuf)
        moved == PipeTick(c.pipeline, room)
    IN  [c EXCEPT !.postPipelineBuf = @ \o PipeOut(c.pipeline, room),
                  !.pipeline = moved,
                  !.progress = @ \/ moved # c.pipeline]

EnterPipeline(c, t) ==
    [c EXCEPT !.pipeline = Accept(@, t), !.inflightTransCount = @ + 1,
              !.progress = TRUE]

(* "Always reserve one lane for up-going transactions" *)
LaneReserved(c) == c.downwardInflightTransCount < PipelineWidth - 1

PullFromBuf(c) ==
    LET up == c.writeBufferToBank
        down == c.dirToBank
        t == Head(down)
        popped == [c EXCEPT !.dirToBank = Tail(@)]
    IN  IF ~CanAccept(c.pipeline) THEN c
        ELSE IF up # << >>
             THEN EnterPipeline([c EXCEPT !.writeBufferToBank = Tail(@)], Head(up))
        ELSE IF ~Room(c.writeBufferBuffer) \/ ~LaneReserved(c) \/ down = << >> THEN c
        ELSE IF c.trans[t].action = "writeBufferFetch"
             THEN [popped EXCEPT !.writeBufferBuffer = Append(@, t), !.progress = TRUE]
        ELSE [EnterPipeline(popped, t) EXCEPT
                !.downwardInflightTransCount =
                    IF c.trans[t].action \in Evictions THEN @ + 1 ELSE @]

-----------------------------------------------------------------------------
(* writeBufferStage *)

WriteBufferFull(c) ==
    Len(c.pendingEvictions) + Len(c.inflightEviction) >= WriteBufferCapacity

WriteOut(c) ==
    IF \/ c.pendingEvictions = << >>
       \/ Len(c.inflightEviction) >= MaxInflightEviction
       \/ ~SenderRoom(c.bottomSender)
    THEN c
    ELSE LET t == Head(c.pendingEvictions)
         IN  [c EXCEPT !.bottomSender = Append(@, [op |-> "write", trans |-> t]),
                       !.pendingEvictions = Tail(@),
                       !.inflightEviction = Append(@, t),
                       !.progress = TRUE]

\* Mutant: the attached writes are not combined.
CombinedMutant(data, requests) == data

(* combineData: the writes attached to the entry go over the fetched data,  *)
(* in order.                                                                *)
Combined(data, requests) ==
    [o \in Offsets |->
        LET writers == Positions(requests, LAMBDA t : o \in Written(t))
        IN  IF writers = {} THEN data[o]
            ELSE requests[CHOOSE i \in writers : \A j \in writers : j <= i]]

SendToBank(c, t, data) ==
    LET s == c.trans[t].block
        written == UNION {Written(r) : r \in Elements(c.requests[t])}
        new == [c EXCEPT
                  !.entryData[t] = Combined(data, c.requests[t]),
                  !.trans[t].action = "bankWriteFetched",
                  !.mshr = @ \ {t},
                  !.writeBufferToBank = Append(@, t),
                  !.progress = TRUE]
    IN  IF t \notin c.mshr THEN Panic(c, "trying to remove an non-exist entry")
        ELSE [new EXCEPT !.blocks[s].mask = written,
                         !.blocks[s].dirty = @ \/ written # {}]

ProcessReturnRsp(c) ==
    LET rsp == Head(c.bottomPort)
        t == rsp.to
        retrieved == [c EXCEPT !.bottomPort = Tail(@), !.progress = TRUE]
    IN  IF c.bottomPort = << >> THEN c
        ELSE IF rsp.op = "read"
        THEN IF t \notin c.inflightFetch THEN Panic(c, "inflight read not found")
             ELSE IF ~Room(c.writeBufferToBank) THEN c
             ELSE SendToBank([retrieved EXCEPT !.inflightFetch = @ \ {t}], t, rsp.data)
        ELSE IF t \notin Elements(c.inflightEviction)
        THEN Panic(c, "write request not found")
        ELSE [retrieved EXCEPT !.inflightEviction = SelectSeq(@, LAMBDA e : e # t)]

\* Mutant: evictions that are not sent yet are not searched.
LocalEvictionsMutant(c, line) ==
    SelectSeq(c.inflightEviction, LAMBDA e : c.trans[e].evictingAddr = line)

(* findDataLocally: the evictions that hold the line, in flight ones first. *)
LocalEvictions(c, line) ==
    SelectSeq(c.inflightEviction \o c.pendingEvictions,
              LAMBDA e : c.trans[e].evictingAddr = line)

(* The data found is the slice of the eviction, and combineData changes it   *)
(* in place: the eviction carries the combined data from then on.  The first *)
(* eviction found is taken; fromTwo is the history of the lines of which     *)
(* there was another.                                                        *)
FetchLocally(c, t, local) ==
    IF ~Room(c.writeBufferToBank) THEN c
    ELSE LET e == Head(local)
             new == SendToBank(c, t, c.trans[e].evictingData)
         IN  [new EXCEPT !.trans[e].evictingData = new.entryData[t],
                         !.writeBufferBuffer = Tail(@),
                         !.fromTwo = IF Len(local) > 1 THEN @ \cup {Line(t)} ELSE @]

FetchFromBottom(c, t) ==
    IF Cardinality(c.inflightFetch) >= MaxInflightFetch \/ ~SenderRoom(c.bottomSender)
    THEN c
    ELSE [c EXCEPT !.bottomSender = Append(@, [op |-> "read", trans |-> t]),
                   !.inflightFetch = @ \cup {t},
                   !.writeBufferBuffer = Tail(@),
                   !.progress = TRUE]

ProcessFetch(c, t) ==
    LET local == LocalEvictions(c, Line(t))
    IN  IF local # << >> THEN FetchLocally(c, t, local) ELSE FetchFromBottom(c, t)

ProcessEvictAndWrite(c, t) ==
    IF WriteBufferFull(c) \/ ~Room(c.writeBufferToBank) THEN c
    ELSE [c EXCEPT !.trans[t].action = "bankWriteHit",
                   !.writeBufferToBank = Append(@, t),
                   !.pendingEvictions = Append(@, t),
                   !.writeBufferBuffer = Tail(@),
                   !.progress = TRUE]

(* The fetch of the same transaction follows in the next tick. *)
ProcessFetchAndEvict(c, t) ==
    IF WriteBufferFull(c) THEN c
    ELSE [c EXCEPT !.trans[t].action = "writeBufferFetch",
                   !.pendingEvictions = Append(@, t),
                   !.progress = TRUE]

ProcessFlush(c, t) ==
    IF WriteBufferFull(c) THEN c
    ELSE [c EXCEPT !.pendingEvictions = Append(@, t),
                   !.writeBufferBuffer = Tail(@),
                   !.progress = TRUE]

ProcessNewTransaction(c) ==
    LET t == Head(c.writeBufferBuffer)
        action == c.trans[t].action
    IN  IF c.writeBufferBuffer = << >> THEN c
        ELSE CASE action = "writeBufferFetch" -> ProcessFetch(c, t)
               [] action = "writeBufferEvictAndWrite" -> ProcessEvictAndWrite(c, t)
               [] action = "writeBufferEvictAndFetch" -> ProcessFetchAndEvict(c, t)
               [] action = "writeBufferFlush" -> ProcessFlush(c, t)

-----------------------------------------------------------------------------
(* directoryStage, with no pipeline stage of its own (dirLatency 0) *)

AcceptNewTransaction(c) ==
    IF c.dirStageBuffer = << >> \/ ~Room(c.dirBuf) THEN c
    ELSE [c EXCEPT !.dirBuf = Append(@, Head(c.dirStageBuffer)),
                   !.dirStageBuffer = Tail(@),
                   !.progress = TRUE]

(* Directory.Lookup *)
Hits(c, line) == {s \in SlotsOf(line) : c.blocks[s].valid /\ c.blocks[s].tag = line}

(* LRUVictimFinder: an invalid block, else one that is not locked, else the *)
(* least recently used one.                                                 *)
FindVictim(c, line) ==
    LET queue == c.lru[SetOf[line]]
        empty == Positions(queue, LAMBDA s : ~c.blocks[s].valid /\ ~c.blocks[s].locked)
        free == Positions(queue, LAMBDA s : ~c.blocks[s].locked)
    IN  IF empty # {} THEN queue[FirstOf(empty)]
        ELSE IF free # {} THEN queue[FirstOf(free)] ELSE queue[1]

(* Directory.Visit *)
Visit(c, line, s) ==
    [c EXCEPT !.lru[SetOf[line]] = Append(SelectSeq(@, LAMBDA x : x # s), s)]

ToBank(c, t, s, action) ==
    [Visit(c, Line(t), s) EXCEPT
       !.trans[t].action = action,
       !.trans[t].block = s,
       !.dirBuf = Tail(@),
       !.dirToBank = Append(@, t),
       !.progress = TRUE]

AttachToMSHR(c, t, e) ==
    [c EXCEPT !.requests[e] = Append(@, t), !.dirBuf = Tail(@), !.progress = TRUE]

ReadFromBank(c, t, s) ==
    [ToBank(c, t, s, "bankReadHit") EXCEPT !.blocks[s].readCount = @ + 1]

WriteToBank(c, t, s) ==
    [ToBank(c, t, s, "bankWriteHit") EXCEPT
       !.blocks[s].locked = TRUE, !.blocks[s].tag = Line(t), !.blocks[s].valid = TRUE]

(* MSHR.Add; an entry is named by the transaction that made it. *)
AddMSHREntry(c, t) ==
    IF \E e \in c.mshr : Line(e) = Line(t) THEN Panic(c, "entry already in mshr")
    ELSE IF Cardinality(c.mshr) >= NumMSHREntry THEN Panic(c, "MSHR is full")
    ELSE [c EXCEPT !.mshr = @ \cup {t}, !.requests[t] = <<t>>]

Evict(c, t, s) ==
    LET new == [ToBank(c, t, s, IF IsWritingFullLine(t) THEN "bankEvictAndWrite"
                                ELSE "bankEvictAndFetch") EXCEPT
                  !.trans[t].victim = s,
                  !.trans[t].evictingAddr = c.blocks[s].tag,
                  !.trans[t].evictingMask = c.blocks[s].mask,
                  !.blocks[s].tag = Line(t),
                  !.blocks[s].locked = TRUE,
                  !.blocks[s].dirty = FALSE,
                  !.evictingList = @ \cup {c.blocks[s].tag}]
    IN  IF IsWritingFullLine(t) THEN new ELSE AddMSHREntry(new, t)

Fetch(c, t, s) ==
    AddMSHREntry([ToBank(c, t, s, "writeBufferFetch") EXCEPT
                    !.blocks[s].locked = TRUE,
                    !.blocks[s].tag = Line(t),
                    !.blocks[s].valid = TRUE], t)

HandleHit(c, t, s) ==
    IF c.blocks[s].locked \/ ~Room(c.dirToBank) THEN c
    ELSE IF IsRead(t) THEN ReadFromBank(c, t, s)
    ELSE IF c.blocks[s].readCount > 0 THEN c
    ELSE WriteToBank(c, t, s)

NeedEviction(block) == block.valid /\ block.dirty

HandleMiss(c, t) ==
    LET s == FindVictim(c, Line(t))
        block == c.blocks[s]
    IN  IF \/ Cardinality(c.mshr) >= NumMSHREntry /\ ~IsWritingFullLine(t)
           \/ block.locked
           \/ block.readCount > 0
           \/ ~Room(c.dirToBank)
        THEN c
        ELSE IF NeedEviction(block) THEN Evict(c, t, s)
        ELSE IF IsWritingFullLine(t) THEN WriteToBank(c, t, s)
        ELSE Fetch(c, t, s)

ProcessTransaction(c) ==
    LET t == Head(c.dirBuf)
        entries == {e \in c.mshr : Line(e) = Line(t)}
    IN  IF c.dirBuf = << >> THEN c
        ELSE IF Line(t) \in c.evictingList THEN c
        ELSE IF entries # {} THEN AttachToMSHR(c, t, CHOOSE e \in entries : TRUE)
        ELSE IF Hits(c, Line(t)) # {}
             THEN HandleHit(c, t, CHOOSE s \in Hits(c, Line(t)) : TRUE)
        ELSE HandleMiss(c, t)

TopParser(c) ==
    IF c.state # "running" \/ c.topPort = << >> \/ ~Room(c.dirStageBuffer) THEN c
    ELSE [c EXCEPT !.dirStageBuffer = Append(@, Head(c.topPort)),
                   !.inFlight = @ \cup {Head(c.topPort)},
                   !.topPort = Tail(@),
                   !.progress = TRUE]

-----------------------------------------------------------------------------
(* flusher *)

NewBlock == [tag |-> None, valid |-> FALSE, dirty |-> FALSE, locked |-> FALSE,
             readCount |-> 0, mask |-> {}]

(* discardInflightTransactions *)
Discard(c) ==
    [c EXCEPT
       !.blocks = [s \in Slots |-> [@[s] EXCEPT !.readCount = 0, !.locked = FALSE]],
       !.dirBuf = << >>, !.dirStageBuffer = << >>,
       !.dirToBank = << >>,
       !.pipeline = EmptyPipe(PipelineWidth, BankLatency),
       !.postPipelineBuf = << >>,
       !.inflightTransCount = 0,
       !.processingMSHREntry = None, !.mshrStageBuffer = << >>,
       !.writeBufferBuffer = << >>,
       !.topPort = << >>, !.topSender = << >>,
       !.dropped = @ \cup c.inFlight \cup Elements(c.topPort)
                     \cup {c.topSender[i].to : i \in DOMAIN c.topSender},
       !.inFlight = {}]

StartProcessingFlush(c, req) ==
    [(IF req.discard THEN Discard(c) ELSE c) EXCEPT
       !.processingFlush = <<req>>, !.state = "preflushing",
       !.controlPort = Tail(@), !.progress = TRUE]

HandleCacheRestart(c) ==
    [c EXCEPT !.dropped = @ \cup Elements(c.topPort),
              !.topPort = << >>, !.bottomPort = << >>,
              !.state = "running",
              !.controlSender = Append(@, "restarted"),
              !.controlPort = Tail(@), !.progress = TRUE]

ExtractFromPort(c) ==
    IF c.controlPort = << >> THEN c
    ELSE IF Head(c.controlPort).op = "flush"
    THEN StartProcessingFlush(c, Head(c.controlPort))
    ELSE IF SenderRoom(c.controlSender) THEN HandleCacheRestart(c) ELSE c

Busy(block) == block.locked \/ block.readCount > 0

\* Mutant: flushing does not wait for the transactions in flight.
ProcessPreFlushingMutant(c) ==
    IF \E s \in Slots : Busy(c.blocks[s])
    THEN Panic(c, "all the blocks should be unlocked before flushing")
    ELSE [c EXCEPT !.blockToEvict =
                      SetToSortSeq({s \in Slots : NeedEviction(c.blocks[s])}, <),
                   !.state = "flushing", !.progress = TRUE]

ProcessPreFlushing(c) ==
    IF c.inFlight # {} THEN c
    ELSE IF \E s \in Slots : Busy(c.blocks[s])
    THEN Panic(c, "all the blocks should be unlocked before flushing")
    ELSE [c EXCEPT !.blockToEvict =
                      SetToSortSeq({s \in Slots : NeedEviction(c.blocks[s])}, <),
                   !.state = "flushing", !.progress = TRUE]

\* Mutant: evictions that memory has not confirmed are not waited for.
FlushCompletedMutant(c) ==
    /\ c.dirToBank = << >>
    /\ c.inflightTransCount <= 0
    /\ c.writeBufferBuffer = << >>
    /\ c.inflightFetch = {}
    /\ c.pendingEvictions = << >>

FlushCompleted(c) ==
    /\ c.dirToBank = << >>
    /\ c.inflightTransCount <= 0
    /\ c.writeBufferBuffer = << >>
    /\ c.inflightFetch = {}
    /\ c.inflightEviction = << >>
    /\ c.pendingEvictions = << >>

(* Directory.Reset makes new blocks; transactions on their way to the bank  *)
(* keep the old ones.                                                       *)
FinalizeFlushing(c) ==
    IF c.blockToEvict # << >> \/ ~FlushCompleted(c) \/ ~SenderRoom(c.controlSender)
    THEN c
    ELSE [c EXCEPT !.controlSender = Append(@, "flushed"),
                   !.mshr = {},
                   !.blocks = [s \in Slots |-> NewBlock],
                   !.lru = [n \in 1..NumSets |-> [w \in 1..Ways |-> (n - 1) * Ways + w]],
                   !.orphans = Elements(c.writeBufferToBank),
                   !.state = IF Head(c.processingFlush).pause THEN "paused" ELSE "running",
                   !.processingFlush = << >>,
                   !.flushes = @ + 1, !.progress = TRUE]

FlushOneBlock(c) ==
    IF c.blockToEvict = << >> \/ ~Room(c.dirToBank) THEN c
    ELSE LET s == Head(c.blockToEvict)
             t == FlushTrans(s)
         IN  [c EXCEPT !.trans[t].action = "bankEvict",
                       !.trans[t].victim = s,
                       !.trans[t].evictingAddr = c.blocks[s].tag,
                       !.trans[t].evictingMask = c.blocks[s].mask,
                       !.dirToBank = Append(@, t),
                       !.blockToEvict = Tail(@), !.progress = TRUE]

Flusher(c) ==
    IF c.processingFlush # << >> /\ c.state = "preflushing" THEN ProcessPreFlushing(c)
    ELSE IF c.processingFlush # << >> /\ c.state = "flushing"
    THEN FlushOneBlock(FinalizeFlushing(c))
    ELSE ExtractFromPort(c)

(* controlPortSender; its receiver takes every answer *)
ControlSender(c) ==
    IF c.controlSender = << >> THEN c
    ELSE [c EXCEPT !.controlSender = Tail(@), !.progress = TRUE]

-----------------------------------------------------------------------------
(* Cache.Tick *)

(* runStage; NumReqPerCycle is 1 or 2 *)
Repeat(c, Stage(_)) ==
    IF NumReqPerCycle = 1 THEN After(c, Stage) ELSE After(After(c, Stage), Stage)

WriteBufferStage(c) ==
    After(After(After(c, WriteOut), ProcessReturnRsp), ProcessNewTransaction)

BankStage(c) ==
    Repeat(After(Repeat(c, FinalizeTrans), BankPipeline), PullFromBuf)

DirStage(c) == Repeat(Repeat(c, AcceptNewTransaction), ProcessTransaction)

RunPipeline(c) ==
    LET senders == Repeat(Repeat(c, TopSender), BottomSender)
        banks == After(Repeat(senders, MSHRStage), BankStage)
        buffer == Repeat(banks, WriteBufferStage)
    IN  Repeat(Repeat(buffer, DirStage), TopParser)

RunUnlessPaused(c) == IF c.state = "paused" THEN c ELSE RunPipeline(c)

Ticked(c) == After(After(After(c, ControlSender), RunUnlessPaused), Flusher)

(* A tick that makes no progress is the last one until a port wakes the     *)
(* cache up.                                                                *)
Tick ==
    /\ awake
    /\ cache.panic = "no"
    /\ \E c \in {Ticked(cache)} :
          /\ cache' = [c EXCEPT !.progress = FALSE]
          /\ awake' = c.progress
    /\ UNCHANGED <<script, control, mem, sent, answered, seen, got>>

-----------------------------------------------------------------------------
(* The requester *)

(* No control request is being served that discards or pauses. *)
Quiet ==
    /\ cache.state = "running" \/ (cache.processingFlush # << >> /\
            \A req \in Elements(cache.processingFlush) : ~req.discard /\ ~req.pause)
    /\ \A req \in Elements(cache.controlPort) : ~(req.op = "restart" \/ req.discard \/ req.pause)

SendRequest ==
    /\ sent < Len(script)
    /\ Quiet
    /\ PortRoom(cache.topPort)
    /\ sent' = sent + 1
    /\ seen' = [seen EXCEPT ![sent + 1] = answered]
    /\ cache' = [cache EXCEPT !.topPort = Append(@, sent + 1)]
    /\ awake' = TRUE
    /\ UNCHANGED <<script, control, mem, answered, got>>

(* A response leaves the connection, which wakes a cache it had turned down. *)
ReceiveResponse ==
    /\ cache.toTop # << >>
    /\ LET rsp == Head(cache.toTop)
       IN  /\ answered' = answered \cup {rsp.to}
           /\ got' = [got EXCEPT ![rsp.to] = rsp.data]
    /\ cache' = [cache EXCEPT !.toTop = Tail(@)]
    /\ awake' = (awake \/ Len(cache.toTop) = ConnCapacity)
    /\ UNCHANGED <<script, control, mem, sent, seen>>

(* Control requests are made one at a time. *)
SendControl ==
    /\ control # << >>
    /\ cache.controlPort = << >> /\ cache.processingFlush = << >>
    /\ cache.controlSender = << >>
    /\ control' = Tail(control)
    /\ cache' = [cache EXCEPT !.controlPort = Append(@, Head(control))]
    /\ awake' = TRUE
    /\ UNCHANGED <<script, mem, sent, answered, seen, got>>

(* The memory below: it serves the requests for one line in order, and the   *)
(* lines in any order.                                                       *)
AddressOf(req) == IF req.op = "read" THEN Line(req.trans)
                  ELSE cache.trans[req.trans].evictingAddr

ServeMemory ==
    \E i \in DOMAIN cache.toBottom :
       LET req == cache.toBottom[i]
           line == AddressOf(req)
           t == cache.trans[req.trans]
       IN  /\ \A j \in 1..(i - 1) : AddressOf(cache.toBottom[j]) # line
           /\ PortRoom(cache.bottomPort)
           /\ mem' = IF req.op = "read" THEN mem
                     ELSE [mem EXCEPT ![line] = [o \in Offsets |->
                             IF o \in t.evictingMask THEN t.evictingData[o] ELSE @[o]]]
           /\ cache' = [cache EXCEPT
                 !.toBottom = RemoveAt(@, i),
                 !.bottomPort = Append(@, [op |-> req.op, to |-> req.trans,
                                           data |-> IF req.op = "read" THEN mem[line] ELSE Zeros])]
           /\ awake' = TRUE
           /\ UNCHANGED <<script, control, sent, answered, seen, got>>

-----------------------------------------------------------------------------
Init ==
    /\ script \in Scripts
    /\ control \in Controls
    /\ cache = [
          state |-> "running", panic |-> "no", progress |-> FALSE, flushes |-> 0,
          topPort |-> << >>, bottomPort |-> << >>, controlPort |-> << >>,
          topSender |-> << >>, bottomSender |-> << >>, controlSender |-> << >>,
          toTop |-> << >>, toBottom |-> << >>,
          dirStageBuffer |-> << >>, dirBuf |-> << >>, dirToBank |-> << >>,
          writeBufferToBank |-> << >>, writeBufferBuffer |-> << >>,
          mshrStageBuffer |-> << >>, processingMSHREntry |-> None,
          pipeline |-> EmptyPipe(PipelineWidth, BankLatency), postPipelineBuf |-> << >>,
          inflightTransCount |-> 0, downwardInflightTransCount |-> 0,
          pendingEvictions |-> << >>, inflightEviction |-> << >>, inflightFetch |-> {},
          mshr |-> {},
          requests |-> [t \in Transactions |-> << >>],
          entryData |-> [t \in Transactions |-> Zeros],
          trans |-> [t \in Transactions |->
                       [action |-> "none", block |-> None, victim |-> None,
                        evictingAddr |-> None, evictingData |-> Zeros, evictingMask |-> {}]],
          blocks |-> [s \in Slots |-> NewBlock],
          lru |-> [n \in 1..NumSets |-> [w \in 1..Ways |-> (n - 1) * Ways + w]],
          storage |-> [s \in Slots |-> Zeros],
          inFlight |-> {}, evictingList |-> {}, orphans |-> {},
          blockToEvict |-> << >>, processingFlush |-> << >>,
          dropped |-> {}, fromTwo |-> {}]
    /\ mem = [line \in Lines |-> Zeros]
    /\ awake = FALSE
    /\ sent = 0
    /\ answered = {}
    /\ seen = [r \in DOMAIN script |-> {}]
    /\ got = [r \in DOMAIN script |-> Zeros]

Next == Tick \/ SendRequest \/ ReceiveResponse \/ SendControl \/ ServeMemory

Spec == Init /\ [][Next]_vars

(* The engine handles every scheduled tick, the requester makes its requests *)
(* and takes the responses, and the memory answers.                          *)
FairSpec ==
    /\ Spec
    /\ WF_vars(Tick) /\ WF_vars(SendRequest) /\ WF_vars(ReceiveResponse)
    /\ WF_vars(SendControl) /\ WF_vars(ServeMemory)

-----------------------------------------------------------------------------
(* Properties *)

(* The value v of a byte (the write that wrote it, or 0) is out of date for *)
(* somebody who knows that the requests of done were answered: one of them   *)
(* wrote the byte after v was written.                                       *)
OutOfDate(v, line, o, done) ==
    \E w \in done : /\ script[w].op = "write" /\ script[w].line = line
                    /\ o \in script[w].offs /\ w # v
                    /\ v = 0 \/ v \in seen[w]

(* A read never returns data that a write overwrote and that was answered    *)
(* before the read was made, wherever the line was meanwhile: in a block, in *)
(* the write buffer, in an MSHR entry or below.  Excepted are the lines that *)
(* were once fetched while the write buffer had two evictions of them: those *)
(* go back to the older one (writebufferstage.go:64).                        *)
ReadsAreFresh ==
    \A r \in answered : script[r].op = "read" /\ script[r].line \notin cache.fromTwo =>
        \A o \in script[r].offs : ~OutOfDate(got[r][o], script[r].line, o, seen[r])

(* A read made after another read of the byte was answered does not return   *)
(* an older value than that one: what checkReadResult of the acceptance       *)
(* tests' agent requires of every answer.                                     *)
ReadsNeverGoBack ==
    \A r \in answered : script[r].op = "read" =>
        \A q \in seen[r] : script[q].op = "read" /\ script[q].line = script[r].line =>
            \A o \in script[r].offs \cap script[q].offs :
                LET old == got[q][o]
                    new == got[r][o]
                IN  old # new => ~(old # 0 /\ (new = 0 \/ new \in seen[old]))

(* When a flush is answered the memory below holds everything that the       *)
(* requester knows to be written.                                            *)
FlushedIsBelow ==
    [][cache'.flushes > cache.flushes =>
          \A line \in Lines, o \in Offsets : ~OutOfDate(mem[line][o], line, o, answered)]_vars

(* The cache meets none of its panics: an answer from below whose request     *)
(* cannot be found, a transaction that is no longer in flight, an MSHR entry   *)
(* that does not exist, a block that is in use when flushing starts.           *)
NoPanic == cache.panic = "no"

(* Every request that the requester makes is answered in the end, unless a    *)
(* control request discarded it: no lock, eviction mark, full buffer or missed  *)
(* wake-up holds it up for ever.                                               *)
AllAnswered ==
    <>[](/\ sent = Len(script)
         /\ answered \cup cache.dropped = 1..sent)

(* Transactions that will unlock their block. *)
Holders(s) ==
    {t \in Elements(cache.dirToBank) \cup PipeItems(cache.pipeline)
            \cup Elements(cache.postPipelineBuf) \cup Elements(cache.writeBufferBuffer)
            \cup Elements(cache.writeBufferToBank) \cup cache.inflightFetch :
        /\ t <= Len(script) /\ t \notin cache.orphans
        /\ cache.trans[t].block = s /\ cache.trans[t].action # "bankReadHit"}

(* A block is locked exactly while one transaction is on its way that will   *)
(* fill it and unlock it: no lock outlives its transaction and no block is    *)
(* filled twice at the same time.                                             *)
LockHasOneHolder ==
    \A s \in Slots : Cardinality(Holders(s)) = IF cache.blocks[s].locked THEN 1 ELSE 0

===============================================================================
