# Distributed donut: TLA+ verification

The server of this repository streams an ASCII donut. It renders nothing
itself: it cuts the animation into batches of 60 frames, hands each batch to a
connected browser, collects the results in a ring buffer and broadcasts the
buffered frames back to every browser. These modules model that pipeline, its
workers and the parts around it: the connections in time, the bytes in the ring
and on the wire, playback in the page, the life of the process and the test
harness. TLC checks them on small instances. TLAPS proves for every instance
every safety property the passing runs check: of the pipeline, of the fleet
around it, of the byte buffer, the connection, playback, the wire and the
harness's worker; and that each level implements the one above it: bytes the
buffer of batches, fleet the pipeline, pipeline and fleet the abstract stream.

## Inventory

| Component | State | Operations | Interacts with |
|---|---|---|---|
| Frame buffer (`internal/buffer`) | ring of frames, `head`, `tail`, one mutex and condition variable | `AddFramesToBuffer`, `GetFramesToBroadcast`, `RemoveSentFramesFromBuffer`, `AdvanceHead`, `WaitForRoom`, `WaitUntilBufferSizeEnoughForBroadcast` | shared by dispatcher, broadcaster and every connection's read loop |
| Client pool (`internal/client/pool.go`) | set of clients, cap, one mutex and condition variable | `AddClient`, `RemoveClient`, `WaitForAtLeastOne`, `PickNewClient`, broadcasts to a `Snapshot` | filled by connection handlers, read by the orchestrator |
| Client connection (`internal/client/client.go`) | task counter, bounded send queue, quit channel, deadlines | `RequestWork`, `GenerateNewRenderTaskID`, `enqueue`, `WritePump`, `HandleReceivedMessage`, `Close` | a writer goroutine and the handler's read loop |
| Task registry (`internal/orchestrator/batch_map.go`) | (client, task id) to batch, `completed`, `done` channel | `AddFrameBatch`, `SwitchRenderTaskExecutor`, `DeleteRenderTask`, `SaveRenderResult` | task goroutines and read loops |
| Orchestrator (`internal/orchestrator/orchestrator.go`) | locals of `dispatcher`, `dispatchRenderTask`, `broadcaster` | one round after another; one goroutine per batch; one broadcast after another | all of the above |
| Connection handler (`internal/server`) | one per connection | upgrade, admission, read loop, close | pool, client, `HandleResult` |
| Keepalive (`client.go`) | ping ticker, read and write deadlines | ping, pong, expiry | reader and writer of one connection |
| Telemetry (`orchestrator.go`, `pool.go`) | two tickers | client count and ring fullness to everybody | the same send queues as tasks and frames |
| Browser page (`web/static`) | socket, Web Worker and its task queue, playback ring and frame debt | render, encode, send results, reconnect, decode, play | the server, over one WebSocket |
| Wire protocol (`internal/protocol`, `web/static`) | none | an encoder and a decoder per message, one in each language | every message |
| Process lifecycle (`cmd/donut-server/main.go`, `server.go`) | context, signal channel, HTTP server | signal, cancel, listen, `Shutdown`, return of `main` | everything |
| Log sampling (`logging.go`) | last time per message | `allow`, `Handle`, `WithAttrs` | every goroutine that logs |
| Test harness (`internal/harness`) | a worker's counters, collected bytes, notify and done channels | read loop, `WaitForFrames`, `Close`, deliberate misbehaviour | a server under test |
| Debug console (`internal/debug`) | pending bytes | draw one frame per tick | whoever feeds `LogChan` |

What is hard here: results that arrive late, twice or never while their task is
moved to another client; a timer racing the result it waits for; condition
variables signalled after the lock was released; a ring addressed modulo its
size with two cursors moved by two loops; clients that leave between being
chosen and being used; a page that reconnects with work of its previous
connection still in its Web Worker; a ping that queues behind slow writes; two
goroutines that may both tear a connection down; round sizes that nobody
validates; playback that follows the wall clock while frames arrive by the
network's. `PROJECT.json` lists each of these hazards
at the line where it bites, with the property that covers it.

What makes the parts correct: the ring is never overrun and never advanced over
an unwritten slot; the registry holds exactly the running tasks; nothing the
fleet does can make the server panic; no wakeup is lost and the loops do not
wait for each other; the stream is contiguous; and it goes on as long as some
worker answers.

## Modules

    FrameStream (abstract)      FrameBuffer   ClientPool
          ^                        |  ^  \      /
          | implemented by         |  |  FrameBatchMap
          |                        |  |       |
          +------------------------|--|-- Orchestrator ---- MCOrchestrator (TLC)
                                   |  |    |       |
             ByteBuffer -----------+--+    |     OrchestratorProofs
             implements FrameBuffer        |       |
               |                           |       |
             ByteBufferProofs              |       |
                                         Fleet ----|------- MCFleet (TLC)
                                           |       |
                                         FleetProofs
                                         Fleet implements Orchestrator

    on their own:  Connection  Playback  Wire  Lifecycle  HarnessWorker
    their proofs:  ConnectionProofs  PlaybackProofs  WireProofs  HarnessWorkerProofs
    shared lemmas on quotients and remainders:  Remainders

**FrameBuffer.** One operator per method. The unit is the batch: the code's byte
positions only move by whole batches (`AdvanceHead` and
`RemoveSentFramesFromBuffer` take a number of batches, one second is one batch)
and the capacity is a whole number of batches. A slot holds the ring-relative
number of the batch copied into it, or `Blank`; frames are a pure function of
the frame number and the server numbers frames modulo the ring, so a batch of
one lap and the same batch of the next have equal bytes. `AdvanceHead` and
`RemoveSentFramesFromBuffer` call `cond.Broadcast` after they unlocked: that
call is a step of its own (`BufferNotify`). A batch never straddles the end of
the ring, so the `startFrame > endFrame` error of `AddFramesToBuffer` cannot
occur at this granularity.

**ClientPool.** A member of `ClientIDs` is one connection; ids come from a
process-wide counter, so a connection that left (`gone`) never returns.
`requests` are the render-task messages a worker may hold; they are never
removed, which makes every answer optional, repeatable and arbitrarily late. A
request made for a client that was already torn down is not recorded: its
connection was closed before it left the pool (`PoolIsServed` of `Connection`).
A client whose `Close` has begun
but which is still in the pool is a client in the pool that happens not to
answer.

**FrameBatchMap.** The map of maps is one function over (client, id) pairs. A
`done` channel is named by the absolute position of the batch it was made for.
Reading a missing entry gives Go's zero value, with a nil channel; closing a nil
or a closed channel panics, as do the code's own checks; `panicked` records it.

**Orchestrator.** The program counters `dpc`, `gpc[i]` and `bpc` name the next
call of the dispatcher, of task goroutine `i` and of the broadcaster. Each call
runs under the lock of the object it is made on and is one step; condition
waits park the goroutine in `bufWait` or `poolWait`. `PickNewClient` is a
choice among the connected clients. Sleeps and `TaskTimeout` are delays of any
length: a timeout may fire at any moment, also when the batch is already stored,
because `select` chooses freely among ready cases. `Responsive` workers answer
before the timeout while connected, `Answering` ones in the end, however late;
both sets are empty in the safety runs. `timeline` records what was broadcast.
Locals of a finished goroutine are
reset to their initial values, since a new goroutine starts from fresh ones.

**Fleet.** Replaces `requests` by the real thing: each client's bounded send
queue, which drops what does not fit, its writer, and pages with one socket and
one Web Worker that renders its tasks in order. `Reconnects` says whether pages
open a new socket after theirs closed, which may be before the server has
noticed: the old client then stays in the pool, is still given tasks and
broadcasts, and what it is sent reaches nobody. A message is written, carried and
handled in one step, and what is queued when the connection closes is lost; a result the
page sent and the server handles only after it removed the client is covered by
`Orchestrator`'s `HandleResult`, not by `Fleet`.

The telemetry loop is a step that puts a message into the queue of every client
in the pool; its two tickers are one, with a bound on the number of ticks.

**FrameStream.** What the pipeline promises, in two counters' worth of state:
batches are produced in rounds, at most a ring ahead, and sent in order in whole
broadcasts. `Orchestrator` implements it with `produced <- head` and
`sent <- timeline`. `Fleet` implements it with the contents of the batches left out
(`KeepsTheRhythm`), and without reconnects with their contents too.

**ByteBuffer.** The buffer as laid out in memory: an array of bytes, `head` and
`tail` as byte positions, the two-part copy, and each method's conversions
between `int`, `uint32` and `uint64` in the order the code makes them (`Word`
and `Word32` are the powers of two). The loops are reduced to their calls on the
buffer. The round sizes are chosen as `main` does, flag before environment
before default, without validation. The map to `FrameBuffer` reads a slot's
batch off its bytes; a torn slot maps to no batch at all.

**Connection.** One connection in discrete time: handler, `WritePump`, `Close`
as its three calls, the queue, the ticker, both deadlines. Only waiting takes
time: `Tick` is enabled when both goroutines are blocked. `Init` chooses the link
and the peer: a write takes no time, or anything up to its timeout (`slowest`);
a `healthy` peer answers a ping before the next tick, any other does what it
likes, and each may send pongs nobody asked for, which extend the deadline as
well. `readLeft`, `pingLeft` and `writeLeft` count down; `reason` records why
the handler stopped.

**Playback.** `CircularBuffer` and `animate`. Frames are numbered in order of
arrival, a tick is a fraction of a frame interval, callbacks and messages come
whenever they like; `steady` records whether, so far, every message arrived in
its tick and every callback came within a catch-up. The server's
`BroadcastInterval` is a constant of its own, as `-broadcast-interval` is. The debt is an exact number
of ticks where the code has floating point.

**Wire.** The codecs as operators on sequences of numbers, a byte being
`Nibble^2` values, and one task's way through all of them. The page's `flatMap`
over the frames of a batch is written byte by byte (`PackAll`), which presumes
frames of equal length, as `asciiframe` makes them; `MCWire` asserts that on such
frames it is the concatenation. A worker of the harness mangles its result as its
configuration says. The read limit counts bytes as they travel, and the upgrader
allows compression, so a message that is too long may be stopped by the limit or
get through to the parser: both are steps of the model, and the parser's exact
length test is what `AcceptsExactlyWholeBatches` rests on.

**Lifecycle.** The four goroutines of `main` and `ListenAndServe`. A request in
flight is a plain HTTP request: `Shutdown` does not wait for upgraded
connections. `Exit` ends everything where it is; `cut` counts what was lost.

**HarnessWorker.** The read loop, and a test's `WaitForFrames` and `Close` on
goroutines of their own. The configuration is chosen in `Init`. Messages buffered
in the connection are still read after it was closed. One `WaitForFrames` runs at
a time, as in the tests.

Operators marked "Mutant" are deliberately wrong variants of the definition that
follows them. No specification uses them; `PROJECT.json` names the property that
each one must break.

## Runs

| Run | Instance | Shows |
|---|---|---|
| `pipeline_safety` | ring of 2, first round of 1, later ones of 2, two interchangeable connections, rounds start while `head < 4`, 3 task ids per client | `TypeOK`, `TimelineContiguous`, `ReadyBatchesStored`, `NoTaskOnReadySlot`, `NoPanic`, `TasksTracked`, `NoLostWakeup`, `LoopsNeverBothParked`; `ImplementsFrameStream`: `Orchestrator` refines `FrameStream` |
| `pipeline_liveness` | ring of 1, three connections, two of them at a time: one that answers in time, one that answers late, one that never answers | `StreamFlows`, `SlowWorkerSuffices` under `FairSpec`; admission is refused at capacity |
| `fleet_workers` | two pages that do not reconnect, send queues of 1, two tasks per Web Worker | `ImplementsOrchestrator`: `Fleet` refines `Orchestrator` |
| `fleet_viewers` | one page that reconnects, before or after the server notices, with telemetry in its queue | `NothingUnrendered`, `NoPanic`, `NeverPlaysBackwards`, `KeepsTheRhythm` |
| `byte_buffer` | 3 batches of 4 frames of 2 bytes, words of 7 and 6 bits; round sizes -1, 0..4 and two that overflow | `StreamBytesContiguous`, `FullnessReported`, `StallsWhenInvalid`, `ImplementsFrameBuffer`, `FlowsWhenValid` |
| `connection` | `pongWait` 4, `pingPeriod` 3, `writeTimeout` 2, queue of 2, fast and slow links, healthy and arbitrary peers | `HealthyClientSurvives`, `PoolIsServed`, `TornDown`, `SilentClientReaped` |
| `playback` | ring of 6, broadcasts of 3 and 2 frames every 4 ticks, catch-up of 2, two ticks per frame, 16 ticks, gaps up to 7 | `RingHoldsNewest`, `TruePace`, `SteadyPlaybackLosesNothing` |
| `wire` | bytes of 9 values, 2 glyphs, 2 frames of 2 bytes, all frames, all corruptions | `AcceptsExactlyWholeBatches`, `TaskSurvivesTheWire`, `FramesSurviveTheWire` |
| `harness_worker` | four messages, every configuration with a disconnect at the first or second task or never | `WaitEnds`, `CloseEnds`, `ClosedMeansShort`, `TasksAccounted`, `StopsBeforeNth` |
| `fleet_reconnect` | one page that reconnects, a ring of 2 | violation of `TimelineContiguous` |
| `shutdown` | one connection | violation of `StopsOnCancel` |
| `lifecycle_drain` | three requests, timeout of 3 | violation of `DrainsBeforeExit` |

**Bounds.** Two batches per round let two task goroutines race on one registry.
A first round of 1 and later ones of 2 on a ring of 2 make every later round,
and every later broadcast, straddle the end of the ring and fill it completely,
and make the dispatcher wait for room each time. Two
connections are enough for a switch, a return of the task under a new id, a
late answer from the first executor and an empty pool in between; where the
properties treat connections alike, the fleet runs take them as symmetric.
`MaxDispatched` stops the dispatcher after enough rounds to have wrapped and
`MaxTasks` bounds how often a task is handed out; both appear only in guards,
and both make the model stop where the program goes on, which is why deadlock
is not checked. The proofs need neither to be small. `byte_buffer` wraps the ring
and has sizes whose product with the batch size overflows a word; a word is twice
the highest position the run reaches, so that a position is never taken for a
negative number, as in the code, whose positions stay far below 2^63. `playback` is
long enough for a full ring, a capped callback and recovery from both, and keeps
the code's order of sizes (catch-up at most a broadcast, a broadcast below the
prefetch, the ring twice the prefetch). In `connection`, time is as coarse as
lets a ping, a write and both deadlines overlap in every order, and as in the
code a write may take longer than lies between `pingPeriod` and `pongWait`. `Connection` and
`HarnessWorker` have no deadlock check because a closed connection stops;
`Lifecycle` because a process ends; the others because of their bounds.

**Fairness.** `FairSpec` assumes: every runnable goroutine runs (the Go
scheduler; weak fairness); a connected `Answering` worker's answers are
delivered at some time (its read loop; weak fairness); a random pick repeated for ever
chooses each connected responsive client again and again (strong fairness of
`Repick`); and a goroutine that enters its `select` again and again with `done`
closed takes that case in the end (strong fairness of `Finish`; the other case's
timer starts afresh each time). Nothing is assumed of other workers, of
connections or of cancellation. `StreamFlows` holds only if a responsive worker
eventually stays.

A worker that always answers late suffices once it is the only one left
(`SlowWorkerSuffices`): a retry with the same client keeps the task id, so the
late answer counts. With two or more slow workers it does not: each timeout may
hand the task to the other one, and each late answer finds it moved. Behaviours
that exhaust the bound on task ids are exempt from both properties
(`WithinMaxTasks`): the model stops there, the program does not.

`Connection` assumes that both goroutines run, that a write in progress ends in
success or failure (its deadline), and that time passes (strong fairness of
`Tick`: infinitely many events within one tick are not a behaviour of the
system), and that a healthy peer's answer to a ping is read after finitely many
of its other messages (strong fairness of `ReadPong` while a ping is at a healthy
peer). `ByteBuffer` and `HarnessWorker` assume that each
goroutine runs; no deadline, peer or test is relied on.

## Findings

- **A reconnecting page can put the wrong batch into the stream**
  (`fleet_reconnect`). The Web Worker keeps the tasks of the old connection;
  their results go out on the new socket (`script.js:266`), where task ids start
  at 0 again, and are stored as the result of the new connection's task of that
  number. `ARCHITECTURE.md:210-213` says the id lets the server match a result
  to the batch it assigned. The damage is limited to wrong frames, which
  `fleet_viewers` checks and `FleetProofs` proves: nothing panics, no blank slot
  is sent, and rounds and broadcasts stay those of the abstract stream.
- **Cancelling the context does not stop parked loops** (`shutdown`), contrary
  to `ARCHITECTURE.md:615-618`. The process ends anyway because `main` returns;
  it matters where the orchestrator is stopped and the process lives on, as in
  the harness.
- **Requests in flight are not drained** (`lifecycle_drain`): `main` returns as
  soon as the context is cancelled (`main.go:84`), contrary to
  `server.go:46-48`.

Observations made while modelling, for which no run is kept:

- A timed-out task may go back to the same client although another is connected,
  unlike the comment at `orchestrator.go:227` says.
- The last client may leave between `WaitForAtLeastOne` and `Broadcast`: frames
  are then broadcast to nobody and removed, although there is "no point
  broadcasting into the void" (`orchestrator.go:137`).
- Only pongs extend the read deadline, not "any traffic (a pong, or a real
  message)" (`client.go:26-27`).
- A client that answers every ping at once may still be closed by the read
  deadline when its link is slow: the ping waits behind the writes of queued
  messages. `client.go:31-33` says that with `pingPeriod < pongWait` "a healthy client
  always answers before the deadline"; `HealthyClientSurvives` says what is left of it: on a link
  where writes take no time they do, and on any other the deadline passes only
  while the server's own ping is late, never between one pong and the next ping.
- After a long gap the page's debt is dropped, the frames buffered during the gap
  are not, so playback goes on behind live (`script.js:6-8,74-77`).
- `ARCHITECTURE.md:876` says the page's ring has no overrun protection; the code
  drops the oldest frame, and `RingHoldsNewest` shows that it does so correctly.
- Round sizes below one or above the ring park or spin the server silently
  (`FlowsWhenValid` and `StallsWhenInvalid` together say exactly which).
- The debug console cuts encoded bytes by the decoded length (`console.go:42`).

## Proofs

**Pipeline.** `OrchestratorProofs` proves `Spec => []TypeOK`. The
goroutine-indexed variables and the registry need nothing stronger than their
types together with `LocalsAssigned`: a goroutine past its first pick has a
worker, and one about to switch has a different next one.

The other seven invariants follow from one inductive invariant, `Inv`. None of
them is inductive alone:

- the stream is contiguous only if what lies between tail and head is stored
  (`StoreInv`), what the broadcaster copied is what it then sends (`StreamInv`)
  and there is as much of it as it then removes (`LengthInv`);
- that is so only if a round ends with all its channels closed, and a channel
  is closed only by a result under that task's id. `DoneInv` says that the closed
  channels are those of all batches before head and some of the current
  round's, and that a task's `completed` flag is the state of its channel, also
  after a switch;
- which needs `RegistryInv`: task ids are fresh, and a request under an id that
  is still assigned names the batch the task is about;
- room found by `WaitForRoom` stays, since only the dispatcher takes it
  (`RingInv`), and distinct positions within one ring length have distinct slots
  (`SlotsDistinct`), so no task writes to a slot that is ready;
- the loops are never both parked because head and tail are each zero or one
  first round plus whole later ones (`PacingInv`): if there is not enough room
  for a round there is enough for a broadcast (`OneLoopCanMove`), and no wakeup
  is lost (`ParkedInv`).

`Inv` is in two parts. `CoreInv`, everything but `StoreInv` and `StreamInv`, is
shown to be kept by `AnyNext`: every step of the pipeline and, beyond those, a
result from any connection under any id with the frames of any slot
(`Answered`). Only the contents of the slots depend on clients answering what
they were asked.

The same module proves `Spec => ImplementsFrameStream`. Under `Inv` a step of
`EndRound` is a `Produce` of the abstract stream, since the round it ends fits
the ring, and a step of `SendFrames` is a `Broadcast`, since by `StreamInv` the
copy is the next whole broadcast and by `PacingInv` the broadcaster's notion of
the first broadcast is that of the stream; every other step leaves `head` and
`timeline` alone (`StreamSimulation`).

**Fleet.** `FleetProofs` has three arguments, for any number of pages and
connections and any queue length.

- With reconnecting pages a result may answer what its connection was never
  asked, so a step of the fleet is a step of `AnyNext` (`StepIsAny`) and `CoreInv`
  holds: no panic, an exact registry, no task on a ready slot, no lost wakeup, no
  two parked loops. With `RenderedInv`, a closed channel means that something was
  stored in its slot, so nothing unrendered is broadcast. And since `EndRound` and
  `SendFrames` are steps of the stream in size and number under `CoreInv` alone
  (`EndRoundProduces`, `SendFramesBroadcasts`), the fleet implements `FrameStream`
  with the contents of the batches left out (`FleetKeepsTheRhythm`). This is the
  proof that the finding `fleet_reconnect` costs wrong frames and no more.
- Without reconnects (`Reconnects = FALSE`, a hypothesis of the theorem) every
  task in a send queue or a Web Worker is one that the connection it will be
  answered on was asked for (`AskedInv`). Hence each step is a step of
  `Orchestrator`, and every theorem about the pipeline holds of the fleet: it
  implements the stream with its contents (`FleetImplementsStream`).
  `FleetTimelineIsContiguous` is the one that fails with reconnects.
- A page never goes back: broadcasts in a queue are in order, none is ahead of
  the tail and none behind what the page was shown (`PlayedInv`). A page that
  reconnects gets a connection with an empty queue.

**Bytes.** `ByteBufferProofs` covers every frame, batch, ring and word size and
every pair of round sizes the conversions can be given: zero, negative, larger
than the ring, or with a product that wraps. The point is `SettingsInv`. A
comparison that wrapped would let a round of an impossible size start or a
broadcast run past the head; the invariant says that no such round starts
(`RoomMeansFits`), that the ring is then empty whenever the broadcaster is up to
such a size (`SecondsFitOrEmpty`), and that a wrapped size moves nothing
(`EnoughMeansMoved`). With sizes that fit, positions are whole batches
(`CursorInv`), no slot is half written (`SlotsInv`), what is below the head was
written (`StoreInv`), and the two copies of a broadcast continue what was sent
(`SentInv`, `CopiesFollowTail`). With sizes that do not fit, the same invariant
bounds what is sent (`InvalidSettingsStall`): a first size that does not fit moves
nothing, and after a first that does, a later one leaves the head where the first
round put it. The refinement of `FrameBuffer` follows method by
method.

**Connection.** `ConnectionProofs`: a ping is under way from the tick to the pong,
in the ticker's channel, in the writer or at the peer (`Pinging`). As long as none
is, the read deadline of a peer that answers is at least `pongWait - pingPeriod`
behind the next tick, on any link and at any load (`GapInv`); so when the deadline
is reached a ping is late. Where writes take no time, none passes while a ping is
under way, and the deadline is never reached (`FastInv`). That the pool has exactly the connections that are served (`PoolIsServed`)
needs `PoolInv`: a connection is in the pool from its admission to the last step of
`Close`, a rejected one has neither a writer nor a teardown, and the handler is
done only when the teardown is, whichever goroutine began it.

**Playback.** `PlaybackProofs`: `RingHoldsNewest` is inductive with the types;
that a push into the full ring moves the right cursor is arithmetic modulo the
ring. `TruePace` follows from `PaceInv`, an exact account of elapsed time:
intervals asked for and a remainder below one. For `SteadyPlaybackLosesNothing`
the invariant is a balance (`BacklogInv`): frames sent and not drawn, less those
overdue, are at most what the first broadcast leaves beyond a later one plus what
is due until the next broadcast, of which no more counts than one broadcast plays
for (`PlayingTime`). So the ring never holds more than the first
broadcast and one catch-up.

**Wire.** `WireProofs`, for any size of a byte, a frame and a batch: four bytes
give back the number they were made from (`NumberSurvives`), hence a task arrives
as it was assigned (`TaskSurvives`) and the page's encoder agrees with the server's
decoder (`PageEncodesAsServer`, `ResultSurvives`). Two glyphs in one byte come apart
again because a glyph is below `Nibble` (`Packed`, `Unpacked`), and decoding cuts the
batch where its frames were joined (`FramesSurvive`). `Mangled` gives the length of
each corrupted result: none but the one that only changes the id is as long as a
whole batch. `PhaseInv` says what is on the wire between the steps.

**Harness.** `HarnessWorkerProofs`: the counters balance up to the task in hand
(`CountInv`), and "connection closed" is only returned after the read loop, which
alone collects frames, has ended (`ClosedInv`).

**Assumptions.** The named ones of the modules, each evaluated by TLC on its run:

- a ring of at least one batch, a finite set of connections, and for
  `Orchestrator` and `Fleet` round sizes between 1 and the size of the ring. The
  program does not check the last when it reads its flags; `ByteBuffer` does
  without it;
- a word of at least twice the highest position (`ByteBufferAssumption`): `uint64`
  positions that have not wrapped. A server would have to stream 2^63 bytes;
- `pingPeriod < pongWait` (`KeepaliveAssumption`), which `client.go:31-34` demands
  and its constants satisfy;
- the first broadcast is no smaller than later ones, and the page's ring holds it
  and a catch-up (`RoomAssumption`): 360, 240 and 60 frames on a ring of 1200 with
  the default settings. The server broadcasts no faster than a later broadcast
  plays (`PacingAssumption`): by default both are 4 s, but `-broadcast-interval`
  and the sizes are separate flags and nothing checks them against each other.
  Only `SteadyPlaybackIsLossless` uses the two;
- a nibble of at least two values and no more glyphs than it has, numbers below
  2^32, frames and batches that are not empty (`WireAssumption`,
  `NumbersAssumption`).

**Left to TLC.** Every liveness property: `StreamFlows`, `SlowWorkerSuffices`,
`TornDown`, `SilentClientReaped`, `FlowsWhenValid`, `WaitEnds`, `CloseEnds`;
TLAPS does not reason about fairness. That `PackAll` is the concatenation of the
packed frames, which for every length needs induction over data. The three
violations, which are counterexamples.

## Not modelled

- The length of the pacing sleep (`timeToSleep`, floating point): the sleep is a
  delay of any length, and no property depends on it.
- The geometry of the donut, in JavaScript and in the harness's renderers: a
  batch is a pure function of its frame numbers, which is all the pipeline uses.
- Parsing of durations, levels and addresses from flags and environment; only
  the two round sizes, which reach the pipeline's arithmetic, are modelled.
- The harness's cluster: constructors, and a poll of the client count.
- The log sampler (`logging.go`): a map of last times under one lock that only
  decides what is logged.
- The debug console (`internal/debug`): nothing in the server feeds it.
- The page's status display, static assets, HTTP routing, a failed upgrade.

## Plan

1. Done: the pipeline with its proofs; the fleet with telemetry; the abstract
   stream and the proof that the pipeline implements it; bytes and words of the
   ring; the timed connection; playback; the wire; the process; the harness.
2. Done: proofs of every invariant, action property and refinement the passing
   runs check.
3. Open: for `Lifecycle`, when `Shutdown` has returned with requests in flight; the
   liveness properties, with a prover that handles fairness.
