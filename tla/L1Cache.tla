------------------------------- MODULE L1Cache -------------------------------
(***************************************************************************)
(* The three L1 caches (mem/cache/writethrough, writearound, writeevict),  *)
(* which differ in the directory stage only, between their requester and   *)
(* the memory below.  As in WriteBackCache a tick is one step, the         *)
(* composition of the stages in the order of Cache.Tick, and the           *)
(* environment acts between ticks.                                         *)
(***************************************************************************)
EXTENDS Naturals, Integers, Sequences, FiniteSets, SequencesExt, Pipelining

CONSTANTS
    Policies,           \* the caches to look at
    Lines,              \* cache lines of the address space
    Offsets,            \* bytes of a line
    NumSets, Ways,
    SetOf,              \* the set of each line
    PID,                \* the process that makes the requests
    NumReqPerCycle,
    DirLatency,         \* numStage of the directory pipeline of each cache
    BankLatency,        \* numStage of the bank pipeline
    NumMSHREntry,
    MaxNumConcurrentTrans,
    ConnCapacity,       \* messages a connection buffers per port
    Scripts,            \* sequences of requests made to each cache
    Controls            \* sequences of control requests that may be made

Requests == [op : {"read", "write", "invalidate"}, line : Lines,
             offs : SUBSET Offsets, wait : BOOLEAN]

ASSUME L1Assumption ==
    /\ Policies \subseteq {"writethrough", "writearound", "writeevict"}
    /\ SetOf \in [Lines -> 1..NumSets]
    /\ NumReqPerCycle \in {1, 2}
    /\ \A p \in Policies : DirLatency[p] \in Nat
    /\ PID \in Nat
    /\ {Ways, BankLatency, NumMSHREntry, MaxNumConcurrentTrans, ConnCapacity}
           \subseteq Nat \ {0}
    /\ \A p \in Policies : Scripts[p] \subseteq Seq(Requests)

VARIABLES
    policy,     \* which of the caches this is
    script,     \* the requests, made in this order
    control,    \* the control requests still to be made
    cache,      \* the state of Cache, of its stages and of its ports
    below,      \* the requests that the memory below has taken
    mem,        \* its contents
    awake,      \* a tick of the cache is scheduled
    sent,       \* how many requests were made
    got         \* got[r]: << >>, or the data in the answer to request r

vars == <<policy, script, control, cache, below, mem, awake, sent, got>>

Slots == 1..(NumSets * Ways)
SlotsOf(line) == {s \in Slots : (s - 1) \div Ways + 1 = SetOf[line]}

None == 0

(* A transaction in front of the coalescer is a request; one behind it is   *)
(* named by the first of the requests it coalesces.                         *)
Line(t) == script[t].line
IsRead(t) == script[t].op = "read"

Room(buffer) == Len(buffer) < NumReqPerCycle
Connected(buffer) == Len(buffer) < ConnCapacity

Positions(q, Test(_)) == {i \in DOMAIN q : Test(q[i])}
FirstOf(positions) == CHOOSE i \in positions : \A j \in positions : i <= j

Elements(q) == {q[i] : i \in DOMAIN q}

(* The state after Stage; TLC evaluates c once. *)
After(c, Stage(_)) == CHOOSE d \in {Stage(x) : x \in {c}} : TRUE

Repeat(c, Stage(_)) ==
    IF NumReqPerCycle = 1 THEN After(c, Stage) ELSE After(After(c, Stage), Stage)

Panic(c, why) == [c EXCEPT !.panic = why]

Zeros == [o \in Offsets |-> 0]

(* The bytes that a request writes, and those of a coalesced transaction.   *)
WrittenBy(r) == IF script[r].op = "write" THEN script[r].offs ELSE {}
Written(c, t) == UNION {WrittenBy(r) : r \in Elements(c.group[t])}

(* The data after the writes of the requests, in order. *)
Overwrite(data, requests) ==
    [o \in Offsets |->
        LET writers == Positions(requests, LAMBDA r : o \in WrittenBy(r))
        IN  IF writers = {} THEN data[o]
            ELSE requests[CHOOSE i \in writers : \A j \in writers : j <= i]]

-----------------------------------------------------------------------------
(* respondStage: the first request that is done is answered. *)

RespondStage(c) ==
    LET ready == Positions(c.transactions, LAMBDA r : r \in c.done)
        r == c.transactions[FirstOf(ready)]
    IN  IF ready = {} \/ ~Connected(c.toTop) THEN c
        ELSE [c EXCEPT !.toTop = Append(@, [to |-> r, data |-> c.data[r]]),
                       !.transactions = RemoveAt(@, FirstOf(ready)),
                       !.progress = TRUE]

-----------------------------------------------------------------------------
(* bottomParser *)

Finished(c, requests, data) ==
    [c EXCEPT !.done = @ \cup requests,
              !.data = [r \in DOMAIN @ |->
                          IF r \in requests /\ IsRead(r) THEN data ELSE @[r]]]

Retrieved(c) == [c EXCEPT !.bottomPort = Tail(@), !.progress = TRUE]

(* A write that fetches its line is done when the line arrives. *)
ProcessDoneRsp(c, t) ==
    IF t \notin c.postCoalesce \/ c.trans[t].fetchAndWrite THEN Retrieved(c)
    ELSE Finished([Retrieved(c) EXCEPT !.postCoalesce = @ \ {t}],
                  Elements(c.group[t]), Zeros)

Entries(c, line) == {e \in c.mshr : Line(e) = line}

(* The requests of the transactions attached to an MSHR entry, in order. *)
Attached(c, e) == FlattenSeq([i \in DOMAIN c.requests[e] |-> c.group[c.requests[e][i]]])

\* Mutant: the writes that joined the fetch are not merged.
MergeMSHRDataMutant(c, e, data) == data

MergeMSHRData(c, e, data) == Overwrite(data, Attached(c, e))

ProcessDataReady(c, t, data) ==
    LET e == CHOOSE x \in Entries(c, Line(t)) : TRUE
        merged == MergeMSHRData(c, e, data)
    IN  IF t \notin c.postCoalesce THEN Retrieved(c)
        ELSE IF ~Room(c.bankBuf) THEN c
        ELSE IF Entries(c, Line(t)) = {} THEN Panic(c, "no MSHR entry")
        ELSE [Finished(Retrieved(c), Elements(Attached(c, e)), merged) EXCEPT
                !.mshr = @ \ {e},
                !.postCoalesce = @ \ (Elements(c.requests[e]) \cup {t}),
                !.trans[t].action = "writeFetched",
                !.trans[t].data = merged,
                !.bankBuf = Append(@, t)]

BottomParser(c) ==
    IF c.bottomPort = << >> THEN c
    ELSE LET rsp == Head(c.bottomPort)
         IN  IF rsp.op = "write" THEN ProcessDoneRsp(c, rsp.to)
             ELSE ProcessDataReady(c, rsp.to, rsp.data)

-----------------------------------------------------------------------------
(* bankStage.  Directory.Reset makes new blocks: a transaction that is on   *)
(* its way changes the old one, which nobody looks at, but the storage of   *)
(* the slot is the same.                                                    *)

SetBlock(c, t, Change(_)) ==
    IF c.trans[t].resets # c.resets THEN c
    ELSE [c EXCEPT !.blocks[c.trans[t].block] = Change(@)]

FinalizeReadHit(c, t) ==
    LET new == SetBlock(c, t, LAMBDA b : [b EXCEPT !.readCount = @ - 1])
    IN  Finished([new EXCEPT !.postCoalesce = @ \ {t}],
                 Elements(c.group[t]), c.storage[c.trans[t].block])

Unlocked(b) == [b EXCEPT !.locked = FALSE]

\* Mutant: the block stays locked.
FinalizeWriteMutant(c, t) ==
    [c EXCEPT !.storage[c.trans[t].block] = Overwrite(@, c.group[t])]

FinalizeWrite(c, t) ==
    SetBlock([c EXCEPT !.storage[c.trans[t].block] = Overwrite(@, c.group[t])],
             t, Unlocked)

FinalizeWriteFetched(c, t) ==
    SetBlock([c EXCEPT !.storage[c.trans[t].block] = c.trans[t].data], t, Unlocked)

FinalizeTrans(c) ==
    LET t == Head(c.bankPost)
        done == [c EXCEPT !.bankPost = Tail(@), !.progress = TRUE]
    IN  IF c.bankPost = << >> THEN c
        ELSE CASE c.trans[t].action = "readHit" -> FinalizeReadHit(done, t)
               [] c.trans[t].action = "write" -> FinalizeWrite(done, t)
               [] c.trans[t].action = "writeFetched" -> FinalizeWriteFetched(done, t)

BankPipeline(c) ==
    LET room == NumReqPerCycle - Len(c.bankPost)
        moved == PipeTick(c.bankPipe, room)
    IN  [c EXCEPT !.bankPost = @ \o PipeOut(c.bankPipe, room),
                  !.bankPipe = moved,
                  !.progress = @ \/ moved # c.bankPipe]

ExtractFromBuf(c) ==
    IF c.bankBuf = << >> \/ ~CanAccept(c.bankPipe) THEN c
    ELSE [c EXCEPT !.bankPipe = Accept(@, Head(c.bankBuf)),
                   !.bankBuf = Tail(@), !.progress = TRUE]

BankStage(c) ==
    Repeat(After(Repeat(c, FinalizeTrans), BankPipeline), ExtractFromBuf)

-----------------------------------------------------------------------------
(* directory *)

EnterDirPipeline(c) ==
    IF c.dirBuf = << >> THEN c
    ELSE LET popped == [c EXCEPT !.dirBuf = Tail(@), !.progress = TRUE]
             t == Head(c.dirBuf)
         IN  IF DirLatency[policy] = 0
             THEN IF Room(c.dirPost) THEN [popped EXCEPT !.dirPost = Append(@, t)] ELSE c
             ELSE IF CanAccept(c.dirPipe)
                  THEN [popped EXCEPT !.dirPipe = Accept(@, t)] ELSE c

DirPipeline(c) ==
    IF DirLatency[policy] = 0 THEN c
    ELSE LET room == NumReqPerCycle - Len(c.dirPost)
             moved == PipeTick(c.dirPipe, room)
         IN  [c EXCEPT !.dirPost = @ \o PipeOut(c.dirPipe, room),
                       !.dirPipe = moved,
                       !.progress = @ \/ moved # c.dirPipe]

(* Directory.Lookup *)
Hits(c, line) == {s \in SlotsOf(line) : /\ c.blocks[s].valid
                                        /\ c.blocks[s].tag = line
                                        /\ c.blocks[s].pid = PID}

(* LRUVictimFinder *)
FindVictim(c, line) ==
    LET queue == c.lru[SetOf[line]]
        empty == Positions(queue, LAMBDA s : ~c.blocks[s].valid /\ ~c.blocks[s].locked)
        free == Positions(queue, LAMBDA s : ~c.blocks[s].locked)
    IN  IF empty # {} THEN queue[FirstOf(empty)]
        ELSE IF free # {} THEN queue[FirstOf(free)] ELSE queue[1]

(* Directory.Visit *)
Visit(c, line, s) ==
    [c EXCEPT !.lru[SetOf[line]] = Append(SelectSeq(@, LAMBDA x : x # s), s)]

InUse(block) == block.locked \/ block.readCount > 0

PopDir(c) == [c EXCEPT !.dirPost = Tail(@), !.progress = TRUE]

ToBank(c, t, s, action) ==
    [Visit(c, Line(t), s) EXCEPT !.trans[t].action = action,
                                 !.trans[t].block = s,
                                 !.trans[t].resets = c.resets,
                                 !.bankBuf = Append(@, t)]

ProcessMSHRHit(c, t, e) == PopDir([c EXCEPT !.requests[e] = Append(@, t)])

ProcessReadHit(c, t, s) ==
    IF c.blocks[s].locked \/ ~Room(c.bankBuf) THEN c
    ELSE PopDir([ToBank(c, t, s, "readHit") EXCEPT !.blocks[s].readCount = @ + 1])

(* fetchFromBottom, with MSHR.Add; the connection has room. *)
FetchFromBottom(c, t, s) ==
    IF Entries(c, Line(t)) # {} THEN Panic(c, "entry already in mshr")
    ELSE [Visit(c, Line(t), s) EXCEPT
            !.toBottom = Append(@, [op |-> "read", trans |-> t]),
            !.trans[t].block = s,
            !.trans[t].resets = c.resets,
            !.mshr = @ \cup {t},
            !.requests[t] = <<t>>,
            !.blocks[s] = [@ EXCEPT !.tag = Line(t), !.pid = PID, !.valid = TRUE,
                                    !.locked = TRUE]]

\* Mutant: a victim that is being read or filled is taken.
ProcessReadMissMutant(c, t) ==
    LET s == FindVictim(c, Line(t))
    IN  IF Cardinality(c.mshr) >= NumMSHREntry \/ ~Connected(c.toBottom) THEN c
        ELSE PopDir(FetchFromBottom(c, t, s))

ProcessReadMiss(c, t) ==
    LET s == FindVictim(c, Line(t))
    IN  IF \/ InUse(c.blocks[s])
           \/ Cardinality(c.mshr) >= NumMSHREntry
           \/ ~Connected(c.toBottom)
        THEN c
        ELSE PopDir(FetchFromBottom(c, t, s))

ProcessRead(c, t) ==
    LET entries == Entries(c, Line(t))
        hits == Hits(c, Line(t))
    IN  IF entries # {} THEN ProcessMSHRHit(c, t, CHOOSE e \in entries : TRUE)
        ELSE IF hits # {} THEN ProcessReadHit(c, t, CHOOSE s \in hits : TRUE)
        ELSE ProcessReadMiss(c, t)

(* writeBottom; the connection has room. *)
WriteBottom(c, t) ==
    [c EXCEPT !.toBottom = Append(@, [op |-> "write", trans |-> t]),
              !.trans[t].wroteBottom = TRUE]

\* Mutant: write-evict leaves the block valid.
ProcessWriteHitMutant(c, t, s) ==
    LET wrote == IF c.trans[t].wroteBottom THEN c ELSE WriteBottom(c, t)
    IN  IF \/ InUse(c.blocks[s]) \/ ~Room(c.bankBuf)
           \/ ~c.trans[t].wroteBottom /\ ~Connected(c.toBottom)
        THEN c
        ELSE IF policy = "writeevict" THEN PopDir(wrote)
        ELSE PopDir([ToBank(wrote, t, s, "write") EXCEPT
                       !.blocks[s] = [@ EXCEPT !.locked = TRUE, !.valid = TRUE,
                                               !.tag = Line(t)]])

(* The write goes into the block (its PID stays) or makes it invalid. *)
ProcessWriteHit(c, t, s) ==
    LET wrote == IF c.trans[t].wroteBottom THEN c ELSE WriteBottom(c, t)
    IN  IF \/ InUse(c.blocks[s]) \/ ~Room(c.bankBuf)
           \/ ~c.trans[t].wroteBottom /\ ~Connected(c.toBottom)
        THEN c
        ELSE IF policy = "writeevict"
        THEN PopDir([wrote EXCEPT !.blocks[s].valid = FALSE])
        ELSE PopDir([ToBank(wrote, t, s, "write") EXCEPT
                       !.blocks[s] = [@ EXCEPT !.locked = TRUE, !.valid = TRUE,
                                               !.tag = Line(t)]])

(* Write-around and write-evict: the write goes below only. *)
WriteMiss(c, t) ==
    IF Connected(c.toBottom) THEN PopDir(WriteBottom(c, t)) ELSE c

IsPartialWrite(c, t) == Written(c, t) # Offsets

(* Write-through: the line is fetched.  The write may go below one tick     *)
(* earlier than the fetch.                                                  *)
PartialWriteMiss(c, t) ==
    LET marked == [c EXCEPT !.trans[t].fetchAndWrite = TRUE]
        s == FindVictim(c, Line(t))
        wrote == IF c.trans[t].wroteBottom THEN marked
                 ELSE [WriteBottom(marked, t) EXCEPT !.progress = TRUE]
    IN  IF \/ Cardinality(c.mshr) >= NumMSHREntry
           \/ InUse(c.blocks[s])
           \/ ~c.trans[t].wroteBottom /\ ~Connected(c.toBottom)
        THEN marked
        ELSE IF ~Connected(wrote.toBottom) THEN wrote
        ELSE PopDir(FetchFromBottom(wrote, t, s))

ProcessWrite(c, t) ==
    LET entries == Entries(c, Line(t))
        hits == Hits(c, Line(t))
    IN  IF entries # {}
        THEN IF Connected(c.toBottom)
             THEN ProcessMSHRHit(WriteBottom(c, t), t, CHOOSE e \in entries : TRUE)
             ELSE c
        ELSE IF hits # {} THEN ProcessWriteHit(c, t, CHOOSE s \in hits : TRUE)
        ELSE IF policy # "writethrough" THEN WriteMiss(c, t)
        ELSE IF IsPartialWrite(c, t) THEN PartialWriteMiss(c, t)
        ELSE ProcessWriteHit(c, t, FindVictim(c, Line(t)))

ProcessTransaction(c) ==
    IF c.dirPost = << >> THEN c
    ELSE IF IsRead(Head(c.dirPost)) THEN ProcessRead(c, Head(c.dirPost))
    ELSE ProcessWrite(c, Head(c.dirPost))

DirectoryStage(c) ==
    Repeat(After(Repeat(c, EnterDirPipeline), DirPipeline), ProcessTransaction)

-----------------------------------------------------------------------------
(* coalescer *)

NewBlock == [tag |-> None, pid |-> 0, valid |-> FALSE, locked |-> FALSE, readCount |-> 0]

(* Directory.Reset *)
ResetDirectory(c) ==
    [c EXCEPT !.blocks = [s \in Slots |-> NewBlock],
              !.lru = [n \in 1..NumSets |-> [w \in 1..Ways |-> (n - 1) * Ways + w]],
              !.resets = @ + 1]

ProcessGL0InvalidateReq(c, r) ==
    IF policy = "writeevict" THEN Panic(c, "unknown type")
    ELSE IF ~Connected(c.toTop) THEN ResetDirectory(c)
    ELSE [ResetDirectory(c) EXCEPT !.toTop = Append(@, [to |-> r, data |-> Zeros]),
                                   !.topPort = Tail(@), !.progress = TRUE]

CanReqCoalesce(c, r) == c.toCoalesce = << >> \/ Line(r) = Line(Head(c.toCoalesce))

Taken(c, r) ==
    [c EXCEPT !.toCoalesce = Append(@, r), !.transactions = Append(@, r),
              !.topPort = Tail(@), !.progress = TRUE]

(* Reads and writes that coalesce dereference the request of the other kind. *)
CoalesceAndSend(c) ==
    LET t == Head(c.toCoalesce)
    IN  IF \E r \in Elements(c.toCoalesce) : IsRead(r) # IsRead(t)
        THEN Panic(c, "nil dereference")
        ELSE [c EXCEPT !.group[t] = c.toCoalesce, !.dirBuf = Append(@, t),
                       !.postCoalesce = @ \cup {t}, !.toCoalesce = << >>,
                       !.progress = TRUE]

(* The last request of a wave closes the group, which may take two ticks.   *)
ProcessReq(c, r) ==
    LET sends == CoalesceAndSend(c)
    IN  IF script[r].wait
        THEN IF CanReqCoalesce(c, r) THEN Taken(c, r)
             ELSE IF Room(c.dirBuf) THEN Taken(sends, r) ELSE c
        ELSE IF ~Room(c.dirBuf) THEN c
        ELSE IF CanReqCoalesce(c, r) THEN CoalesceAndSend(Taken(c, r))
        ELSE IF Room(sends.dirBuf) THEN CoalesceAndSend(Taken(sends, r)) ELSE sends

Coalescer(c) ==
    IF c.topPort = << >> \/ Len(c.transactions) >= MaxNumConcurrentTrans THEN c
    ELSE IF script[Head(c.topPort)].op = "invalidate"
    THEN ProcessGL0InvalidateReq(c, Head(c.topPort))
    ELSE ProcessReq(c, Head(c.topPort))

-----------------------------------------------------------------------------
(* controlStage *)

(* hardResetCache; the pipeline of the directory keeps its transactions. *)
HardReset(c) ==
    [ResetDirectory(c) EXCEPT
       !.topPort = << >>, !.bottomPort = << >>, !.dirBuf = << >>, !.bankBuf = << >>,
       !.mshr = {}, !.toCoalesce = << >>,
       !.bankPipe = EmptyPipe(NumReqPerCycle, BankLatency), !.bankPost = << >>,
       !.transactions = << >>, !.postCoalesce = {},
       !.dropped = @ \cup Elements(c.transactions) \cup Elements(c.topPort)]

\* Mutant: the flush does not wait for the transactions.
ProcessCurrentFlushMutant(c) ==
    IF c.currFlushReq = << >> THEN c
    ELSE [HardReset(c) EXCEPT !.isPaused = @ \/ Head(c.currFlushReq).pause,
                              !.currFlushReq = << >>,
                              !.flushes = @ + 1, !.progress = TRUE]

(* The receiver takes every answer to a control request. *)
ProcessCurrentFlush(c) ==
    IF c.currFlushReq = << >> THEN c
    ELSE LET req == Head(c.currFlushReq)
         IN  IF ~req.discard /\ c.transactions # << >> THEN c
             ELSE [HardReset(c) EXCEPT !.isPaused = @ \/ req.pause,
                                       !.currFlushReq = << >>,
                                       !.flushes = @ + 1, !.progress = TRUE]

DoCacheRestart(c) ==
    [c EXCEPT !.isPaused = FALSE, !.ctrlPort = Tail(@), !.progress = TRUE,
              !.dropped = @ \cup Elements(c.topPort),
              !.topPort = << >>, !.bottomPort = << >>]

ProcessNewRequest(c) ==
    IF c.ctrlPort = << >> THEN c
    ELSE IF Head(c.ctrlPort).op = "restart" THEN DoCacheRestart(c)
    ELSE IF c.currFlushReq # << >> THEN c
    ELSE [c EXCEPT !.currFlushReq = <<Head(c.ctrlPort)>>, !.ctrlPort = Tail(@),
                   !.progress = TRUE]

-----------------------------------------------------------------------------
(* Cache.Tick *)

RunPipeline(c) ==
    LET parsed == Repeat(Repeat(c, RespondStage), BottomParser)
        banks == After(parsed, BankStage)
    IN  IF policy = "writeevict"
        THEN After(Repeat(banks, DirectoryStage), Coalescer)
        ELSE Repeat(After(banks, DirectoryStage), Coalescer)

RunUnlessPaused(c) == IF c.isPaused THEN c ELSE RunPipeline(c)

Ticked(c) == After(After(After(c, RunUnlessPaused), ProcessNewRequest), ProcessCurrentFlush)

Tick ==
    /\ awake
    /\ cache.panic = "no"
    /\ \E c \in {Ticked(cache)} :
          /\ cache' = [c EXCEPT !.progress = FALSE]
          /\ awake' = c.progress
    /\ UNCHANGED <<policy, script, control, below, mem, sent, got>>

-----------------------------------------------------------------------------
(* The requester is quiet while the cache is paused or a control request is  *)
(* served that discards or pauses, but it does not stop within a wave.       *)
Quiet ==
    /\ ~cache.isPaused
    /\ \A req \in Elements(cache.ctrlPort \o cache.currFlushReq) :
          ~(req.op = "restart" \/ req.discard \/ req.pause)

InWave == sent > 0 /\ script[sent].wait

SendRequest ==
    /\ sent < Len(script)
    /\ Quiet \/ InWave
    /\ Room(cache.topPort)
    /\ sent' = sent + 1
    /\ cache' = [cache EXCEPT !.topPort = Append(@, sent + 1)]
    /\ awake' = TRUE
    /\ UNCHANGED <<policy, script, control, below, mem, got>>

ReceiveResponse ==
    /\ cache.toTop # << >>
    /\ LET rsp == Head(cache.toTop) IN got' = [got EXCEPT ![rsp.to] = rsp.data]
    /\ cache' = [cache EXCEPT !.toTop = Tail(@)]
    /\ awake' = (awake \/ ~Connected(cache.toTop))
    /\ UNCHANGED <<policy, script, control, below, mem, sent>>

(* Control requests are made one at a time. *)
SendControl ==
    /\ control # << >>
    /\ cache.ctrlPort = << >> /\ cache.currFlushReq = << >>
    /\ control' = Tail(control)
    /\ cache' = [cache EXCEPT !.ctrlPort = Append(@, Head(control))]
    /\ awake' = TRUE
    /\ UNCHANGED <<policy, script, below, mem, sent, got>>

(* The connection delivers to the memory below, and a cache that found it    *)
(* full is told that it has room again.                                      *)
TakeRequest ==
    /\ cache.toBottom # << >>
    /\ below' = Append(below, Head(cache.toBottom))
    /\ cache' = [cache EXCEPT !.toBottom = Tail(@)]
    /\ awake' = (awake \/ ~Connected(cache.toBottom))
    /\ UNCHANGED <<policy, script, control, mem, sent, got>>

(* The memory serves the requests for one line in order, and the lines in    *)
(* any order.                                                                *)
ServeMemory ==
    \E i \in DOMAIN below :
       LET req == below[i]
           line == Line(req.trans)
       IN  /\ \A j \in 1..(i - 1) : Line(below[j].trans) # line
           /\ Room(cache.bottomPort)
           /\ mem' = IF req.op = "read" THEN mem
                     ELSE [mem EXCEPT ![line] = Overwrite(@, cache.group[req.trans])]
           /\ below' = RemoveAt(below, i)
           /\ cache' = [cache EXCEPT
                 !.bottomPort = Append(@, [op |-> req.op, to |-> req.trans, data |-> mem[line]])]
           /\ awake' = TRUE
           /\ UNCHANGED <<policy, script, control, sent, got>>

-----------------------------------------------------------------------------
Init ==
    /\ policy \in Policies
    /\ script \in Scripts[policy]
    /\ control \in Controls
    /\ cache = [
          panic |-> "no", progress |-> FALSE, isPaused |-> FALSE, flushes |-> 0,
          topPort |-> << >>, bottomPort |-> << >>, ctrlPort |-> << >>,
          toTop |-> << >>, toBottom |-> << >>,
          transactions |-> << >>, toCoalesce |-> << >>, postCoalesce |-> {},
          group |-> [t \in DOMAIN script |-> << >>],
          done |-> {}, data |-> [r \in DOMAIN script |-> Zeros],
          dirBuf |-> << >>, dirPost |-> << >>,
          dirPipe |-> EmptyPipe(NumReqPerCycle, DirLatency[policy]),
          bankBuf |-> << >>, bankPost |-> << >>,
          bankPipe |-> EmptyPipe(NumReqPerCycle, BankLatency),
          mshr |-> {}, requests |-> [t \in DOMAIN script |-> << >>],
          trans |-> [t \in DOMAIN script |->
                       [action |-> "none", block |-> None, resets |-> 0, data |-> Zeros,
                        fetchAndWrite |-> FALSE, wroteBottom |-> FALSE]],
          blocks |-> [s \in Slots |-> NewBlock],
          lru |-> [n \in 1..NumSets |-> [w \in 1..Ways |-> (n - 1) * Ways + w]],
          storage |-> [s \in Slots |-> Zeros], resets |-> 0,
          currFlushReq |-> << >>, dropped |-> {}]
    /\ below = << >>
    /\ mem = [line \in Lines |-> Zeros]
    /\ awake = FALSE
    /\ sent = 0
    /\ got = [r \in DOMAIN script |-> << >>]

Next == Tick \/ SendRequest \/ ReceiveResponse \/ SendControl \/ TakeRequest \/ ServeMemory

Spec == Init /\ [][Next]_vars

(* The engine handles every scheduled tick, the requester makes its requests *)
(* and takes the responses, and the memory answers.                          *)
FairSpec ==
    /\ Spec
    /\ WF_vars(Tick) /\ WF_vars(SendRequest) /\ WF_vars(ReceiveResponse)
    /\ WF_vars(SendControl) /\ WF_vars(TakeRequest) /\ WF_vars(ServeMemory)

-----------------------------------------------------------------------------
(* Properties *)

Answered == {r \in DOMAIN script : got[r] # << >>}

(* A byte of the line holds the last write of the first n requests, or one  *)
(* that was made later: 0 is what the memory held at first.                 *)
UpToDate(v, line, o, n) ==
    /\ v # 0 => script[v].line = line /\ o \in WrittenBy(v)
    /\ \A w \in 1..n : script[w].op = "write" /\ Line(w) = line /\ o \in WrittenBy(w)
                         => v >= w

(* A read sees all the writes that were made before it, whether they are in *)
(* the coalescer, in an MSHR entry, in the bank or below: requests of one   *)
(* requester do not overtake each other.                                    *)
ReadsSeeEarlierWrites ==
    \A r \in Answered : IsRead(r) =>
        \A o \in script[r].offs : UpToDate(got[r][o], Line(r), o, r - 1)

(* Transactions behind the directory. *)
InBank == Elements(cache.bankBuf) \cup PipeItems(cache.bankPipe) \cup Elements(cache.bankPost)

(* Transactions that will unlock their block. *)
Holders(s) ==
    {t \in cache.mshr \cup {b \in InBank : cache.trans[b].action # "readHit"} :
        cache.trans[t].block = s /\ cache.trans[t].resets = cache.resets}

Readers(s) ==
    {t \in InBank : /\ cache.trans[t].action = "readHit"
                    /\ cache.trans[t].block = s /\ cache.trans[t].resets = cache.resets}

(* A block is locked exactly while one transaction fetches or writes its     *)
(* line, its read count counts the reads in the bank, and the two exclude     *)
(* each other: nothing is filled twice or overwritten while it is read.       *)
BlocksAreExclusive ==
    \A s \in Slots :
        LET b == cache.blocks[s]
        IN  /\ Cardinality(Holders(s)) = IF b.locked THEN 1 ELSE 0
            /\ Cardinality(Readers(s)) = b.readCount
            /\ b.locked => b.readCount = 0

AtRest ==
    /\ InBank = {} /\ cache.mshr = {}
    /\ cache.topPort = << >> /\ cache.toCoalesce = << >>
    /\ cache.dirBuf = << >> /\ cache.dirPost = << >>
    /\ DirLatency[policy] # 0 => PipeItems(cache.dirPipe) = {}
    /\ cache.toBottom = << >> /\ below = << >>

(* Whenever nothing is on its way the memory below has every write, and a    *)
(* block that a lookup finds agrees with it, although the block and the       *)
(* memory are written by different stages in different orders.                *)
CoherentAtRest ==
    AtRest => \A line \in Lines :
        /\ \A o \in Offsets : UpToDate(mem[line][o], line, o, sent)
        /\ \A s \in Hits(cache, line) : cache.storage[s] = mem[line]

(* Every request is answered in the end, unless a control request discarded   *)
(* it: no lock, full MSHR, full buffer or missed wake-up holds it up, and no  *)
(* panic stops the cache (a duplicate MSHR entry, an answer without its entry, *)
(* reads and writes coalesced into one transaction).                           *)
AllAnswered ==
    <>[](sent = Len(script) /\ Answered \cup cache.dropped = 1..sent)

(* A flush that does not discard loses no read and no write, although it      *)
(* empties the ports, where no access follows an invalidation.  (An            *)
(* invalidation can be lost, and what waits behind it: it stays in the port    *)
(* until its answer can be sent, and is not counted as a transaction.)         *)
FlushDropsNoAccess ==
    [][\A req \in Elements(cache.ctrlPort \o cache.currFlushReq) :
          ~req.discard /\ cache'.flushes > cache.flushes
            => \A r \in cache'.dropped \ cache.dropped : script[r].op = "invalidate"]_vars

=============================================================================
