# Akita: models, checks and proofs

Akita is a framework for simulating computer architectures (Go, under `src/`).
A simulated system is a set of *components* that exchange messages through
*ports* and *connections*; an *engine* runs their events in the order of
simulated time. On top of this core the repository has caches, DRAM, virtual
memory, on-chip networks, and two browser applications: *AkitaRTM*, the page of
the monitor of a running simulation (`monitoring/web`), and *Daisen*, which shows
a recorded trace (`daisen/static`).

This directory holds TLA+ models of the core, of the caches and of the two
browser applications, the TLC configurations that check them on small instances,
and TLAPS proofs for instances of every size. `PROJECT.json` maps each definition
to the source lines it stands for, and lists components, runs, mutants, hazards
and theorems.

## 1. Inventory

### The simulation core (`sim`, `pipelining`)

| Part | State | Operations | Correct when |
|---|---|---|---|
| `SerialEngine` | time, primary and secondary event queue, `pauseLock`, `isPaused` and its lock, `singleRunLock` | Schedule, Run, Pause, Continue, CurrentTime | every event runs once, at its time, in order, secondary events after the primary ones of their time; a paused engine is still; nobody deadlocks |
| `ParallelEngine` | time, several queues of each kind, channels that hand the queues out, a wait group, `pauseLock` | Schedule, Run (rounds of goroutines), Pause, Continue | the same, and a queue is used by one goroutine at a time |
| `TickScheduler`, `TickingComponent` | `nextTickTime` | TickNow, TickLater, Handle, NotifyRecv, NotifyPortFree | a tick that is dropped as redundant really is |
| `LimitNumMsgPort` | incoming buffer, `portBusy` | Send, Recv, Retrieve, Peek, NotifyAvailable | a message refused by a full port is delivered after a Retrieve |
| `DirectConnection` | a bounded buffer and a `busy` flag per port, round-robin index | PlugIn, Send, CanSend, NotifyAvailable, Tick | no loss, duplication or reordering between two ports; a refused sender is woken |
| `BufferedSender`, `Buffer`, `Pipeline` | bounded queues | Send, Push, Pop, Accept, Tick, Clear | bounds kept, order kept |
| `Freq`, hooks, names, ids | none that matters here | | |

Components call `Port.Send`, which calls `Connection.Send`, which schedules a
tick of the connection; a tick of the connection calls `Port.Recv` of the
destination, which schedules a tick of the owner. Every such call may be refused
by a full buffer, and whoever is refused goes to sleep and relies on a flag to
be woken. `doc/connection_system.md:17` promises that packets "will arrive at the
destination port at some time in the future. No packet will drop".

### The memory system (`mem`)

| Part | State | Correct when |
|---|---|---|
| write-back cache (`mem/cache/writeback`) | directory, data, MSHR, a bank pipeline, write buffer, flusher, and bounded queues between six stages | reads are fresh, a flush leaves everything below, block locks have one holder, every request is answered |
| write-through, write-around, write-evict caches | coalescer, directory with a pipeline, bank pipeline, MSHR, control stage | reads see earlier writes, block and memory agree at rest, blocks are exclusive, every request is answered |
| directory, victim finder, MSHR (`mem/cache`) | sets of blocks with LRU order; entries | panics are unreachable |
| TLBs, MMU, GMMUs, address translator (`mem/vm`) | sets, MSHR, walks, migration queue, page table | translations are answered and current |
| DRAM and ideal memory controllers, storage, protocol (`mem/dram`, `mem/idealmemcontroller`, `mem/mem`) | queues, bank states, bytes | requests answered, bank timing respected |

### AkitaRTM, the monitoring page (`monitoring/web/src`)

| Part | State | Operations | Correct when |
|---|---|---|---|
| `UIManager` | heights and widths of the parts of the page, which divider is dragged | mouse handlers of three dividers, resize, popUp and collapse of the charts, adjustProgressBarGroupHeight | the parts fill the window |
| `Monitor`, `Widget` | charts, each with an interval timer; flags in the detail view | addWidget, removeWidget, toggleFlag, closing a chart | the charts listed, shown and polling are the same |
| `ProgressBarManager` | bars or pies by id, elements in a removal animation | a request every second, renderProgress | the page comes to show the bars of the simulation |
| `ComponentDetailView`, component tree | component, fields opened, mode and refresh of the traffic diagram, accumulated traffic | clicks, a timer, answers | the diagram is of the component and draws what the modes select; opened fields load |
| `HangAnalyzer` | order of the list, refresh timer | clicks, a timer, answers | at most one timer, and its button tells |
| `ResourceMonitor` | the call graph of a profile | pprofDataToNetwork, visualizePProfNetwork | the times in the graph add up |
| `EngineController` | none | pause, continue, run | see the engines |

### Daisen (`daisen/static/src`)

| Part | State | Operations | Correct when |
|---|---|---|---|
| `App` | the page shown; the URL and the session history of the browser | route on load and popstate | what is shown is what the URL says |
| `TaskPage`, `TaskView`, `ComponentView`, `TaskRenderer`, `TaskColorCoder` | mode, task, component, time range; bars and their transitions; colors | showTask, showComponent (chains of requests), setTimeRange, layout, click on a bar | the same; bars are on their axis |
| `MouseEventHandler` | dragging, pinching, moved, a timer | mouse, wheel and touch events | a gesture ends in one range for everybody |
| `Dashboard`, `Widget` | filter, page, axes, range, once in the URL, once in the dashboard, once per widget; data and curves | filter, page buttons, axis selectors, reset, gestures, answers | the copies agree; the curves are those asked for |
| `TaskYIndexAssigner`, `ComponentView` | rows and dimensions of bars | assign, assignDimensionLevel | bars nest and do not cover each other, no row is wasted |

Both applications run in one browser thread: a step is one event handler, and
what interleaves is clicks, timers, animations and answers of the server, each
made at one moment and applied at another.

### Networks (`noc`) and tools

Endpoints, switches, channels and routing tables (`noc`); the monitor, an HTTP
server that pauses, continues and ticks a running simulation from its own
goroutines (`monitoring`); tracing, analysis and recording, which only observe.

### What is hard

- *Lost wake-ups*: sleeping components, four kinds of flags and filters
  (`nextTickTime`, `portBusy`, `busy`, secondary events) and several clocks.
- *Goroutines*: the rounds of the parallel engine; requests of the monitor while
  the engine runs.
- *Caches*: a transaction crosses five or more stages over many ticks while
  others use the same block, MSHR entry or eviction; all queues are bounded, and
  a stage that waits for another can close a cycle.
- *Control requests* that flush, pause, discard or restart in the middle of it.
- *Browser pages*: state kept in several places (URL, page object, widgets,
  elements); requests answered after the page has moved on; timers and
  transitions that outlive what they were made for; exceptions that leave a loop
  half done; panes that two parts share.

The list "hazards" in `PROJECT.json` gives each of them with its source line and
the properties that would catch it.

## 2. Modules

| Module | Models | Source |
|---|---|---|
| `OrderedDelivery` | abstract: per pair of ports, messages arrive once and in order | (specification) |
| `MessageDelivery` | engine (serial or parallel rounds), tick schedulers, ports, direct connections, and the test agents as components | `sim/ticker.go`, `port.go`, `directconnection.go`, `freq.go` |
| `MessageDeliveryProofs` | proofs of its type invariant, wake-up invariant, of "nothing is left behind" and of the refinement of `OrderedDelivery` | |
| `EngineControl` | goroutines around an engine: Run, Pause, Continue, manual ticks | `sim/serialengine.go`, `parallelengine.go`, `monitoring/monitor.go` |
| `EngineControlProofs` | proofs of the lock discipline of the serial engine, and that neither engine crashes | |
| `EventEngine` | abstract: what an engine promises | (specification) |
| `SerialEngine`, `ParallelEngine` | the two event loops with arbitrary handlers | `sim/serialengine.go`, `parallelengine.go`, `eventqueue.go` |
| `SerialEngineProofs`, `ParallelEngineProofs` | proofs that the loops implement `EventEngine` and of the order of secondary events; one owner per queue | |
| `Pipelining` | the pipeline as operators, shared by the caches | `pipelining/pipeline.go` |
| `WriteBackCache` | the whole write-back cache | `mem/cache/writeback` |
| `L1Cache` | the three L1 caches | `mem/cache/writethrough`, `writearound`, `writeevict` |
| `L1CacheProofs` | proof that their blocks are exclusive | |
| `MonitorLayout` | page frame, charts and progress bars of AkitaRTM | `monitoring/web/src/ui_manager.ts`, `monitor.ts`, `progress_bar.ts`, `component.ts` (flags) |
| `InspectPanes` | component tree, detail view, traffic diagram, hang analyzer and profile pane of AkitaRTM | `component.ts`, `component_tree.ts`, `hang_analyzer.ts`, `resource.ts` |
| `MonitorPageProofs` | proofs about the frame and the charts, and about the panes | |
| `ProfileNetwork` | the call graph of a profile | `resource.ts` |
| `DaisenBrowser` | session history, user, `MouseEventHandler` | `daisen/static/src/mouseeventhandler.ts` |
| `DaisenTaskPage` | task page: routes, chains of requests, bars, gestures | `app.ts`, `taskpage.ts`, `taskrenderer.js`, `taskview.ts`, `componentview.ts` |
| `DashboardPages` | how matching components are divided into pages | `dashboard.ts` |
| `DaisenDashboard` | dashboard and widgets | `dashboard.ts`, `dashboardpage.ts`, `widget.ts` |
| `DaisenApp` | both pages composed, and the way from one to the other | `app.ts`, `widget.ts` |
| `DaisenProofs` | proofs that the pages show their URL, the bars follow the axis and the curves are those asked for | |
| `TaskBars` | rows and nested bars of the component view | `taskyindexassigner.js`, `componentview.ts` |
| `Drawings` | composes `TaskBars`, `ProfileNetwork` and the page buttons for one run | |
| `DrawingsProofs` | proofs about rows, bars, page buttons and the times of a profile, for lists of every length | |

The `MC...` modules give instances of the constants for the `.cfg` files.

**MessageDelivery.** One action per handler step: `RunPrimary` and `RunSecondary`
start an event, an agent's tick sends and then receives, a connection's tick
visits its ports from `nextPortID`. `ScheduleTicks` is TickNow and TickLater with
the `nextTickTime` filter. In the parallel engine the handlers of a round
interleave between these steps. Messages have ids; time is a natural number and
`NextTick` rounds as `Freq.NextTick` does.

**EngineControl.** A step is what a goroutine does between two lock operations.
A mutex is a Boolean, as a Go mutex does not know its holder: unlocking an
unlocked one is a crash. Which engine it is, `serial`, is chosen at the start. A tick of the monitor reads the time, takes the
scheduler's lock, compares with the time (`Schedule`), and pushes.

**SerialEngine and ParallelEngine.** Handlers may schedule any event that
`Schedule` accepts, as often as `MaxEvents` allows. In `ParallelEngine` a worker
that schedules takes a queue from the channel, pushes and puts the queue back;
the round drains the channel, passes the queues in order and waits for the
workers. `late` marks an event that a secondary event schedules for its own time.

**WriteBackCache and L1Cache.** A tick runs without interruption, so it is one
step: the composition of one operator per function of the stages, in the order
of `Cache.Tick`, over a record `cache`. The environment acts between ticks: it
makes the requests of a script, takes answers, makes control requests, and is the
memory below. Data is abstracted to "which request wrote this byte". Slices that
Go shares are shared in the model: an eviction's data that a fetch reuses, a
block's dirty mask. `fromTwo` is history, for `ReadsAreFresh` only: the lines that
were fetched while the write buffer held two evictions of them. `awake` says whether a tick is scheduled: after a tick
without progress only a message or a freed connection wakes the cache, so a
stage that forgets to report progress shows up as a request that is never
answered. `L1Cache` chooses the policy in `Init`; the packages differ in how a
write treats a hit or a miss, in which stage runs several times per tick, and in
whether they know invalidations.

**MonitorLayout.** `ui` are the fields of `UIManager`, `style` what the elements
really have: an assignment of a negative length is ignored by the browser. The
removal of a progress bar takes one step to drop it from the manager and another,
`Removed`, when its animation ends and the frame is adjusted. `answers` is a set,
taken in any order; equal answers under way at once count as one.

**InspectPanes.** Each click on a component makes a new `ComponentDetailView`
with its own timer, mode and accumulated traffic; only one is in the central
pane. `diagram` holds the links drawn with their values, and the report they were
drawn from; `DiagramMatches` compares them with the modes and the sums of the view.
A link that the last report leaves out is drawn with its sum under "Last Epoch" too
(`component.ts:572`); the property states it so. `right` is the right pane with the look of its refresh button, through
which the two analyzers stop each other. Requests are a set of pending questions;
those of elements no longer on the page are dropped, except for the list of
buffers, whose table is looked up when the answer comes.

**Daisen.** `nav` is the session history: entries are URLs. `calls` holds the
chains of requests of the task page, each with what it has captured; every
answer advances its chain by the code between two awaits. `fetches` is the bag
of requests of the dashboard's widgets. A user is *patient* or is not: a patient
one acts only when the page is at rest, and switches an axis only on a page with
widgets (see the findings). Some properties can only hold for the first. How far
a gesture shifts the range is left open (any of `Ranges`), and a filter is
abstracted to the sequence of components it matches. A widget that is replaced
lives on in `orphans`, a bag of ranges, one for each timer that still runs: the
range is all that such a timer uses. The task page is loaded as a new document from the dashboard, so entries of the one are not
reached from the other.

**TaskBars.** One action per task that gets a row and one per level that gets
dimensions; heights are integers in units of 1/`Unit` pixel so that the divisions
of the instance are exact. `setCanvas` is the page drawn again on a canvas of
another size (`componentview.ts:39`): the same tasks get rows and dimensions anew,
and since nothing clears the old ones (`rearrangeAsTree` resets `subTasks` and
`level` only, 147), a task of a level that is not reached this time keeps what it
had and is drawn with it (277). So `dim` outlives a rendering, `placed` says which
bars are of the last one, and `tallest` is history, for the properties only.

## 3. Runs

Every property of a passing run has a mutant: a plausible bug in a mapped
definition with which TLC finds the property violated.

| Run | Shows | Instance |
|---|---|---|
| `delivery` | wake-up invariant, nothing left behind, refinement of `OrderedDelivery`, the simulation ends | three agents in three clock domains on two connections, buffers of 1 and 2, every workload of up to two messages per agent; the rounds of the parallel engine, which include every step of the serial one |
| `control` | a paused serial engine is still, its lock has one holder; no crash, requests are answered and Run returns on both engines | either engine, two Runs, two clients; on the serial engine with every list of up to three pause and continue requests each, on the parallel one with every list of up to four that pairs pauses and continues and ticks components while paused |
| `serial_loop` | refinement of `EventEngine`, secondary after primary | up to four events at times 0..2 |
| `parallel_loop` | one owner per queue, refinement of `EventEngine`, order of secondary events, Run returns | two queues of each kind, four events at times 0..1 |
| `cache_flush` | fresh reads, no panic, one holder per lock, a flush leaves all below, all answered | one way, every queue of size 1; every three requests for two lines; flush, or flush, pause and restart, at any moment |
| `l1_caches` | reads see earlier writes, exclusive blocks, coherence at rest, all answered (so no panic), a flush loses no access | the three caches, one way, one MSHR entry, every queue of size 1, a memory that delays and reorders lines; every three requests for two lines, waves that coalesce, invalidations, flush and restart |
| `page_layout` | the parts fill the window, charts agree, progress settles | two progress bars of which one is shown as a bar and two as pies, a field charted twice, two answers under way, an answer while an element is animated, a drag or a change of the window |
| `panes` | diagram, refresh button and fields are as the user chose | two components, two views, a field in a field, a link in bytes and one in messages, sums of up to 2, so that a sum and a last report differ, and reports with one link or both, six clicks |
| `daisen_app` | pages show the URL, bars are on their axis, copies of the dashboard's state agree, curves are those asked for | three tasks in two components, three components on two pages, two ranges, three axes, filters that match all, one and none; five gestures of a patient user, two of another |
| `drawings` | rows are needed, the bars of the last rendering nest and cover no sibling that is under way, bars are left over from former ones only if the canvas was taller, the profile adds up, page buttons lead to the neighbours | every four tasks over three instants and every three over four with any parents, on canvases of 6 and 30 pixels in any order (the first ends before the deeper levels); two samples of stacks of up to three functions; up to 8 pages |
| `cache_evictions` | fresh reads with two evictions in the write buffer, except of a line that was fetched when it had two of them | one way, two entries in MSHR and write buffer, connections of 2; a line is written and evicted, then every two requests for two lines and a read |
| `cache_stale` | violation, see findings | |

**Bounds.** The buffers of the simulated systems have size 1 (one has 2) because
the hazards are about what happens when they are full; three requests are enough
for a line to be fetched, evicted or joined by another and used again. With one
entry in the write buffer two evictions of one line cannot meet, so
`cache_evictions` has two, and begins with the line written and evicted: what
follows merges writes into the pending eviction, evicts the line once more and reads
it. Without its exception `ReadsAreFresh` is violated there, too. `MaxMsgs`,
`MaxTime`, `MaxEvents`, the lengths of `Scripts` and of `Controls` bound how long
the simulated program goes on, never what the code does. In the browser
applications `MaxClicks`, `MaxGestures` and `MaxEntries` bound what the user does,
`MaxPolls`, `MaxCalls` how many answers are outstanding (two reordered answers
and three chains at once happen), `MaxWidgets`, `MaxViews`, `MaxBars` and
`MaxFading` how much is on the page: two of each are enough for one to be
replaced while the other is there. `maxProgressBars` is 1 instead of 2 and a page
of the dashboard has 2 widgets instead of 16, so that the limits are met.

**Deadlock.** The delivery run checks it: the model stops only after Run
returned, which is an explicit step. The others turn it off, since their systems
stop when the scripts end; that everything is answered is a liveness property.

**Fairness.**
- `MessageDelivery`: the engine goes on as long as there are events and a handler
  that was started goes on, as Go schedules every goroutine.
- `EngineControl` and the workers of `ParallelEngine`: strong fairness, because a
  goroutine that waits for a Go mutex or a channel is served in the end even when
  others take it in between (mutexes have a starvation mode, channels serve
  waiters first come first served). The goroutine in Run has weak fairness in
  `ParallelEngine`.
- Caches: a scheduled tick is handled (the engine), the requester makes its
  requests and takes answers, the memory answers. No fairness is needed inside a
  tick.
- `MonitorLayout` (`ProgressSettles`): the interval timer fires, each answer comes
  in the end, an animation ends. Nothing is assumed of the user or of the
  simulation, which makes and completes finitely many bars.

### Findings

- `cache_stale`: with two evictions of one line on their way, a fetch gets the
  older data (`mem/cache/writeback/writebufferstage.go:64`), against the check of
  the acceptance tests' agent (`mem/acceptancetests/memoryagent.go:49`).

Noticed while modelling, without a run of their own:
- The monitor computes a tick from the time it read while the engine goes on; if
  the engine passes that time first, `Schedule` panics (`monitoring/monitor.go:235`,
  `sim/serialengine.go:42`). Ticking a paused engine is safe (`control`).
- A flush that discards the transactions in flight also discards evictions of
  data written long before (`directorystage.go:457`, `writebackcache.go:103`).
- In `ParallelEngine` a primary event that a secondary event schedules for the
  same time runs after secondary events (`parallelengine.go:225` against
  `event.go:14`); `SecondaryAfterEarlierPrimary` states what does hold.
- `ParallelEngine.Continue` on an engine that is not paused unlocks an unlocked
  mutex, and two Runs can set the time to `MaxFloat64`.
- `DirectConnection` is "without latency" (`directconnection.go:10`) only within
  one clock domain.
- Daisen's component view drawn again on a lower canvas keeps bars of the former
  rendering, which lie outside the bars of their parents (`componentview.ts:147`,
  277); `BarsNest` is about the bars the last rendering placed, and
  `LeftoversNeedShrinking` says when there are others.
- A task without length is given a row of its own next to one that ends or starts
  where it is, which no overlap requires (`taskyindexassigner.js:47`);
  `RowsAreNeeded` makes an exception of it.
- L1 caches: an invalidation resets the directory while fetches are on their way
  (`coalescer.go:60`), so late data can land in a slot that another line has
  taken; a discarding flush leaves transactions in the directory's pipeline
  (`controlstage.go:60`); a flush that does not discard drops the accesses that wait
  behind an invalidation (`coalescer.go:60`); a wave that mixes reads and writes of one line
  dereferences nil (`coalescer.go:179`); a limit on transactions smaller than a
  wave blocks (`coalescer.go:34`); a full-line write miss keeps the block's old
  process id (`directory.go:315`).
- AkitaRTM: the profile replaces the right pane without stopping the hang
  analyzer, which goes on polling and whose answer finds no table
  (`hang_analyzer.ts:117`); a divider dragged too far leaves a negative height
  (`ui_manager.ts:130`); the points of a chart are in the order of the answers
  (`monitor.ts:158`); links without traffic in the last epoch show their
  accumulated value under "Last Epoch" (`component.ts:572`); a domain's children
  are added anew with every click (`component_tree.ts:73`).
- Daisen: with a user who does not wait the last answer wins, and the page may
  show what the URL does not say; the URL of a component is replaced after the
  user may have gone elsewhere, with a parameter `endTime` that nothing reads
  (`app.ts:115`); after showing a component the task view's bars have no color and
  a change of the window throws (`taskcolorcoder.ts:44`); a widget without data
  aborts the loop over the others (`dashboard.ts:141`); every visit registers one
  more mouse handler (`app.ts:60`). An axis is put into the URL in the loop over
  the widgets, so one that is switched while no component matches the filter is
  changed in the dashboard and not in the URL (`dashboard.ts:261`), and the next
  filter shows widgets the URL does not describe. The proof of
  `DashboardAlwaysShowsUrl` failed on this step, and TLC confirmed it once the
  instance had a filter without a match.

## 4. Proofs

Theorems hold for every value of the constants that satisfies the named
assumptions of the modules: any topology with distinct ports, any capacities
and periods above zero, any workload of valid messages, any number of
goroutines, queues and events, caches of any size with any requests, any window,
fields and components, any trace, any list of samples from finitely many
functions. The bounds of the runs (`MaxEvents`, `MaxClicks`, `MaxGestures`, ...) are
arbitrary in the proofs. Each theorem goes through an inductive invariant, which
TLC checked on the run's instance before it was proved, and a lemma per action.

What is defined along a sequence or a finite set (the messages of a queue between
two ports, a sum of times, the items that leave a pipeline) is written as a
recursive function on the numbers of a sequence, or by the community modules'
folds. An induction theorem with an operator for a parameter cannot be used, so
these proofs collect the numbers or subsets for which a statement holds in a
set, and show that the least number outside of it does not exist (`UpTo`,
`SetInduct`).

- `MessageDeliveryProofs`. `NothingIsLeftBehind`:
  when the engine has no more events, no message is in a component, connection or
  port. That is not inductive: an idle engine says nothing about how it got
  there. `WakeUpInv` is: whoever has work is *awake* (an event is queued or its
  handler is at a point where it will look) or is *blocked on a full buffer whose
  flag is set* (`ReceiverAwake`, `SenderAwake`, `ConnectionAwake`); a set flag
  means a full buffer (`FlagsMeanFull`), which has an owner who is awake in turn;
  a recorded `nextTickTime` is backed by an event (`DroppedTicksAreRedundant`),
  except for a connection whose tick of this time has run, when no primary event
  of this time is left that could ask again (`SecondaryAfterPrimary`). With no
  event queued, a message in a port contradicts `ReceiverAwake`; then no port is
  full, so a message in a connection contradicts `ConnectionAwake`; then no end is
  full, and a message in a component contradicts `SenderAwake`. The step lemmas
  (`SendInv`, `RecvInv`, `DeliverInv`, ...) go action by action and conjunct by
  conjunct, on top of lemmas about `ScheduleTicks` and `NextTick`.
  `TypeCorrect` and `WakeUp` are the invariants themselves. Both engines are
  covered. `DeliveryInOrder` is the refinement of `OrderedDelivery`: what is in
  flight between two ports is the messages of this pair in the buffer of the
  destination followed by those in the buffer of the source (`Between`). A send
  appends to it, a delivery moves a message from the front of one buffer to the
  back of the other and leaves it unchanged, since the message that is moved is
  the oldest of its pair in the first and becomes the youngest in the second, and
  a tick of an agent takes the front. The invariants it needs are `WakeUpInv`, for
  the types, and `Addressed`: the connection's buffer of a port holds only what
  this port sent, a port only what was sent to it.
- `EngineControlProofs`: `SerialPauseLock` and `SerialPausedIsStill`, for the
  serial engine with any number of Runs and clients. The two are inductive
  together: the lock is taken exactly when the engine is paused or one goroutine
  handles events. `NeverCrashes`: on the serial engine for clients that pause and
  continue in any order, because all events are in the future (`SerialSafe`); on the
  parallel engine for clients that continue once what they
  have paused and tick components only in between (`Pairs`, a condition on their
  requests that nothing in the code enforces), any number of them and of Runs.
  The invariant `ControlInv` names the one client that has the engine paused, if
  any; a tick it makes is later than the time because nobody moves the time until
  it continues.
- `SerialEngineProofs`: `SerialIsEngine`, the refinement of `EventEngine`, from an
  invariant that relates the running event to the clock and keeps both queues in
  the future; the key lemma is that the event `nextEvent` returns is the earliest
  of both queues. `SerialSecondaryAfterPrimary` is an action property of the same
  invariant: a tie goes to the primary queue.
- `ParallelEngineProofs`: `QueuesHaveOneOwner`, `ParallelSecondaryAfterPrimary` and
  the refinement `ParallelIsEngine`, from one invariant, `LoopInv`. `Owned` is
  `OneOwner` with goroutines named by the numbers of their events, and needs that
  no event is in two places (`InOnePlace`) and that goroutines exist only in a
  round and on events of one kind (`Rounds`). That the round takes every queue
  out before it passes them is a counting argument: a channel without duplicates
  that has `NumQueues` elements has every queue (`FullChannel`). The refinement
  needs that the time `determineWhatToRun` chooses is the earliest of all queues
  (`RoundIsEarliest`; that a set of times has a least one is the library's
  well-ordering of the naturals) and that workers and the events they are about
  to schedule are not in the past (`Queued`, `Wanted`). `PrimariesLater` is what
  the secondary round keeps: a primary event of its time is one that a secondary
  event of this time scheduled for this time; those that secondary events schedule
  for later times, as a connection does that wakes a component, are not excepted.
- `L1CacheProofs` (about 2,700 obligations): `BlocksAlwaysExclusive`, for each of
  the three caches. A tick composes some fifteen functions of stages over one
  record, so the invariant, `Good`, is a predicate on such a record, each function
  has a lemma that it keeps `Good`, and `TickedGood` composes them as
  `RunPipeline` does, whatever the number of times a stage runs. What a block's
  lock and count say depends on where every transaction is: `OnceEach`, no queue
  holds one twice; `Located`, the queues in front, the directory, the MSHR and
  the bank hold different ones, a line has one entry in the MSHR, and a fetch under
  way whose transaction is not finished is of a transaction in the MSHR; and
  `Exclusive`, on top of them, counts those that fill and those that read each
  block. A transaction counts only if it got its block since the last
  `Directory.Reset`, since an invalidation or a flush makes new blocks and leaves
  transactions with the old ones. A victim is not in use, a fetch locks it until
  the bank has written the line, a hit that finds the block locked, or a write
  that finds it read, waits: each step of this is a lemma about counting
  (`ExclFill`, `ExclFilled`, `ExclRead`, `ExclReadDone`, `ExclReset`). The pipelines are
  proved once, as lines of a buffer, a pipeline and the buffer behind it:
  whatever moves in a tick, nothing is doubled and nothing is lost
  (`PipeTickOf`, `LineTick`). Requests are those of `L1Assumption`: reads, writes and
  invalidations of the lines, in any order.
- `MonitorPageProofs`: `ChartsAlwaysAgree`, from an invariant that also says that
  the list has no chart twice and every chart of it exists, since a chart is
  looked up by its field and removed by its identity; and `FrameAlwaysFills`, an
  action property. The height of the progress bars is a function of two counts,
  of bars and of pies, those being removed included. The handler skips the
  adjustment when nothing in the list is new; that the page then takes the same
  room, since what is dropped keeps its room while it fades (`KeptTakesSameRoom`),
  needs that all elements are of the current mode (`FrameInv`) and the
  cardinality of disjoint unions. For the panes, `DiagramAlwaysMatches`,
  `RefreshAlwaysTold` and `FieldsAlwaysLoad`: they are inductive together once values are typed and a
  diagram in the right pane is known to be of a view that was made (`PanesInv`):
  whether a request is open, a timer runs or a button says so is changed by the
  same clicks.
- `DrawingsProofs`: `RowsNeverOverlap` and `RowsNeverWasted`, for lists of tasks of
  every length with integer times, where no task ends before it starts. The
  four cases of the conflict test cover every overlap (`ConflictCoversOverlap`);
  that a task meets another one of each earlier row at its start also needs that
  siblings get their rows in the order of their starts (`InOrder`), the part of
  the inductive invariant that neither property states. `BarsAlwaysNest` builds on
  it, for any sequence of canvas heights: `LevelsInv` says that a bar is placed
  together with its siblings and after its parent, in this rendering and that the next level is divided by the height of the bars it goes
  into; the rest is the arithmetic of `padTaskHeight` and of division with rounding
  (`RowFits`, `RowsApart`, `PaddedFits`). `PagerAlwaysShowsNeighbours`: the window of
  five buttons by cases on the first and last two pages; the current page exists
  (`PagerInv`) because every button leads to a page that does.
  `TimeAlwaysAccountedFor`: a sample adds its time to each function of its stack, as
  often as the function is on it, and to each of the calls; so the sum over the
  calls of a function grows with the function's time, except at the top of the
  stack, where its own time does. The invariant (`NetworkInv`) adds that
  calls are pairs of functions; the lemmas are about sums over finite sets.
- `DaisenProofs` (about 4,000 obligations): the four properties of `DaisenApp`, for
  both kinds of user where the property speaks of both. The invariant `AppInv` says
  that either the task page runs (`TaskPageInv`) or the dashboard does
  (`DashboardInv`).
  - Task page. For every user, the bars are going where the axis is, or a request
    or a reload is still to come (`BarsCatchUp`): that is why a transition that
    ends late does no harm, and it needs that a handler drags only while a button
    or a finger is down (`AllHeld`) and that a page of no task yet has one coming
    (`TaskIsComing`). For a patient user, either one chain of requests is under way
    and *serves* the URL (`Visiting`: `ServesOn` says, for each await of the chain,
    what must agree with the URL for its end to show it), or what the URL says is
    shown and every chain under way is a reload of it (`Staying`); while the range
    differs from the URL's, a reload is due.
  - Dashboard. For every user, its range is the URL's (`RangeIsUrls`) and data that
    is missing has been asked for (`MissingIsAsked`, without which the loop over
    the widgets could stop in the middle for good). A patient user does one thing
    at a time (`OneThing`); then page, filter, axes and widgets are those of the URL
    (`Synced`), except for the one widget that is being dragged; and an answer that
    is still to come is for the axis and range of its widget and the svg on the
    page (`Curves`).

**Only model-checked**, and why:
- all liveness (it needs fairness and `ENABLED`);
- `LeftoversNeedShrinking` of `TaskBars`: it compares two renderings, and needs that
  rows do not depend on the height and that a taller canvas reaches every level a
  lower one does;
- the invariants of `WriteBackCache`. `LockHasOneHolder` would go the way of
  `BlocksAlwaysExclusive`, through more stages (write buffer, evictions and the
  flusher hold transactions too);
- `ReadsSeeEarlierWrites` and `CoherentAtRest` of `L1Cache`, and `ReadsAreFresh`:
  freshness follows data, byte by byte, through queues of records and the memory,
  and holds only for requesters that behave as those of the scripts do;
- `FlushDropsNoAccess` of `L1Cache` holds when no access follows an invalidation, as
  in the scripts of the run, but not for every script: an invalidation that cannot
  be answered waits at the head of the port, a flush does not count it as a
  transaction, and empties the port with the access behind it.

## 5. Assumptions and what is not modelled

- Caches: one process, one bank, one cycle per pipeline stage, no directory
  latency in the write-back cache; the memory serves one line in order and lines
  in any order; a control answer is always taken; requests are not made while a
  pausing or discarding control request is served (an L1 requester finishes its
  wave); an invalidation is the last request of its script.
- Floating-point time, hooks, tracing and logs are left out. `InsertionQueue`
  (`sim/eventqueue.go`) is used by nothing.
- Data races of the parallel engine on components are outside: a handler step is
  atomic with respect to the lock it holds.
- Browser pages: pictures are left out (scales, paths, text, tooltips, highlights,
  the placement of nodes in diagrams), and so are the points of charts, the CPU
  and memory figures, the legend and the picture a widget can save. A press of
  the mouse that an element sees is followed by its release. An answer always
  comes; the server's failures are not handled by the code. `ipschart.js` and
  `taskchart.js` are used by nothing.
- Not modelled yet: virtual memory, networks, DRAM and ideal memory controllers.
  Never: databases, the servers' queries, test drivers.

## 6. Plan

1. *Proofs*: `LockHasOneHolder` of `WriteBackCache`, stage by stage as in
   `L1CacheProofs`; then freshness, first for the L1 caches at rest.
2. *Virtual memory*: `TLB` (flush and restart, MSHR, sets as in
   `internal/set.go`), `MMU` with page walks and migration; every translation is
   answered, none is older than the last flush.
3. *Networks*: `EndPoint`, `Switch` with arbitration, `Channel`; refinement of
   `OrderedDelivery` over a network; routing against a reference shortest path.
4. *Memory*: the ideal controller (implements the memory that the caches assume),
   and DRAM with command queue and bank timing.
