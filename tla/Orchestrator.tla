---------------------------- MODULE Orchestrator ----------------------------
(***************************************************************************)
(* The rendering pipeline (internal/orchestrator/orchestrator.go): the     *)
(* dispatcher loop, the goroutine it starts for every batch of a round,    *)
(* and the broadcaster loop, around the shared frame buffer, client pool   *)
(* and task registry.                                                      *)
(*                                                                         *)
(* A program counter names the next call a goroutine makes.  Every call on *)
(* a shared object is one step (it runs under that object's lock); the two *)
(* methods that signal a condition variable after unlocking take two.      *)
(* Sleeps and the task timeout are steps that may be taken at any time.    *)
(***************************************************************************)
EXTENDS FrameBatchMap

CONSTANTS
  FirstSecondsToBroadcast,   \* batches of the first round and first broadcast
  SecondsToBroadcast,        \* batches of every later one
  Responsive,                \* workers that answer within TaskTimeout while connected
  Answering,                 \* workers that answer in the end, however late
  MaxDispatched,             \* bound: no round starts once head reached this
  MaxTasks                   \* bound: task ids handed out per client

ASSUME OrchestratorAssumption ==
  /\ FirstSecondsToBroadcast \in 1..MaxBatches
  /\ SecondsToBroadcast \in 1..MaxBatches
  /\ Responsive \subseteq Answering /\ Answering \subseteq ClientIDs
  /\ MaxDispatched \in Nat
  /\ MaxTasks \in Nat

VARIABLES
  ctxDone,                      \* the context was cancelled
  dpc, isFirstRound,            \* dispatcher
  gpc, startFrame, done,        \* dispatchRenderTask, one per batch of a round:
  worker, renderTaskID, next,   \*   its program counter and local variables
  bpc, isFirstBroadcast,        \* broadcaster
  frames,                       \* the copy taken by GetFramesToBroadcast
  timeline                      \* every batch broadcast so far, in order

dispatcherVars == <<dpc, isFirstRound>>
taskVars == <<gpc, startFrame, done, worker, renderTaskID, next>>
broadcasterVars == <<bpc, isFirstBroadcast, frames, timeline>>
pipelineVars == <<dispatcherVars, taskVars, broadcasterVars>>
vars == <<bufferVars, panicked, poolVars, mapVars, ctxDone, pipelineVars>>

\* The goroutines of one round; threads are integers so that the two
\* condition variables can hold any of them.
Goroutines ==
  0..((IF FirstSecondsToBroadcast > SecondsToBroadcast
       THEN FirstSecondsToBroadcast ELSE SecondsToBroadcast) - 1)
Dispatcher == -1
Broadcaster == -2
Threads == Goroutines \cup {Dispatcher, Broadcaster}

batchesToFetch ==
  IF isFirstRound THEN FirstSecondsToBroadcast ELSE SecondsToBroadcast

seconds ==
  IF isFirstBroadcast THEN FirstSecondsToBroadcast ELSE SecondsToBroadcast

Init ==
  /\ NewFrameBuffer /\ NewClientPool /\ NewFrameBatchMap
  /\ panicked = FALSE
  /\ ctxDone = FALSE
  /\ dpc = "loop" /\ isFirstRound = TRUE
  /\ gpc = [i \in Goroutines |-> "idle"]
  /\ startFrame = [i \in Goroutines |-> 0]
  /\ done = [i \in Goroutines |-> NilChannel]
  /\ worker = [i \in Goroutines |-> NoClient]
  /\ renderTaskID = [i \in Goroutines |-> 0]
  /\ next = [i \in Goroutines |-> NoClient]
  /\ bpc = "loop" /\ isFirstBroadcast = TRUE
  /\ frames = << >> /\ timeline = << >>

----------------------------------------------------------------------------
(* The dispatcher.                                                         *)

\* select on ctx.Done(), at the top of the loop.
DispatcherLoop ==
  /\ dpc = "loop"
  /\ \/ ctxDone /\ dpc' = "stopped"
     \/ ~ ctxDone /\ head < MaxDispatched /\ dpc' = "room"
  /\ UNCHANGED <<isFirstRound, bufferVars, panicked, poolVars, mapVars, ctxDone,
                 taskVars, broadcasterVars>>

\* buffer.WaitForRoom(batchesToFetch)
WaitForRoom ==
  /\ dpc = "room" /\ Dispatcher \notin bufWait
  /\ IF HasRoomFor(batchesToFetch)
     THEN dpc' = "client" /\ UNCHANGED <<bufferVars, panicked>>
     ELSE BufferPark(Dispatcher) /\ UNCHANGED dpc
  /\ UNCHANGED <<isFirstRound, poolVars, mapVars, ctxDone, taskVars,
                 broadcasterVars>>

\* clients.WaitForAtLeastOne(), then the pacing sleep
DispatcherWaitForAtLeastOne ==
  /\ dpc = "client" /\ Dispatcher \notin poolWait
  /\ IF clients # {}
     THEN dpc' = "spawn" /\ UNCHANGED poolVars
     ELSE PoolPark(Dispatcher) /\ UNCHANGED dpc
  /\ UNCHANGED <<isFirstRound, bufferVars, panicked, mapVars, ctxDone, taskVars,
                 broadcasterVars>>

\* One goroutine per batch of the round, numbered from the next frame on.  A
\* goroutine's channel is made for the batch at absolute position head + i.
StartRound ==
  /\ dpc = "spawn"
  /\ dpc' = "join"
  /\ LET round == {i \in Goroutines : i < batchesToFetch}
     IN  /\ gpc' = [i \in Goroutines |-> IF i \in round THEN "pick" ELSE gpc[i]]
         /\ startFrame' = [i \in Goroutines |->
              IF i \in round THEN Slot(GetNextFrameNumber + i) ELSE startFrame[i]]
         /\ done' = [i \in Goroutines |->
              IF i \in round THEN head + i ELSE done[i]]
  /\ UNCHANGED <<isFirstRound, worker, renderTaskID, next, bufferVars, panicked,
                 poolVars, mapVars, ctxDone, broadcasterVars>>

\* wg.Wait() returned: AdvanceHead up to its unlock.
EndRound ==
  /\ dpc = "join"
  /\ \A i \in Goroutines : gpc[i] = "idle"
  /\ AdvanceHead(batchesToFetch)
  /\ dpc' = "notify"
  /\ UNCHANGED <<isFirstRound, poolVars, mapVars, ctxDone, taskVars,
                 broadcasterVars>>

\* The Broadcast at the end of AdvanceHead, and the end of the loop body.
DispatcherNotify ==
  /\ dpc = "notify"
  /\ BufferNotify
  /\ dpc' = "loop" /\ isFirstRound' = FALSE
  /\ UNCHANGED <<poolVars, mapVars, ctxDone, taskVars, broadcasterVars>>

----------------------------------------------------------------------------
(* dispatchRenderTask, goroutine i.                                        *)

\* The first PickNewClient.
Pick(i, c) ==
  /\ gpc[i] = "pick" /\ i \notin poolWait
  /\ c \in clients
  /\ worker' = [worker EXCEPT ![i] = c]
  /\ gpc' = [gpc EXCEPT ![i] = "register"]
  /\ UNCHANGED <<startFrame, done, renderTaskID, next, bufferVars, panicked,
                 poolVars, mapVars, ctxDone, dispatcherVars, broadcasterVars>>

\* GenerateNewRenderTaskID, NewFrameBatchMetadata and AddFrameBatch: the id is
\* private to this goroutine until the task is in the map.
Register(i) ==
  /\ gpc[i] = "register"
  /\ numRenderTasks[worker[i]] < MaxTasks
  /\ LET id == NewRenderTaskID(worker[i])
     IN  /\ renderTaskID' = [renderTaskID EXCEPT ![i] = id]
         /\ AddFrameBatch(worker[i], id, NewFrameBatchMetadata(startFrame[i], done[i]))
  /\ GenerateNewRenderTaskID(worker[i])
  /\ gpc' = [gpc EXCEPT ![i] = "request"]
  /\ UNCHANGED <<startFrame, done, worker, next, closed, clients, gone, poolWait,
                 requests, bufferVars, panicked, ctxDone, dispatcherVars,
                 broadcasterVars>>

\* worker.RequestWork(...)
Request(i) ==
  /\ gpc[i] = "request"
  /\ RequestWork(worker[i], renderTaskID[i], startFrame[i])
  /\ gpc' = [gpc EXCEPT ![i] = "wait"]
  /\ next' = [next EXCEPT ![i] = NoClient]
  /\ UNCHANGED <<startFrame, done, worker, renderTaskID, clients, gone, poolWait,
                 numRenderTasks, mapVars, bufferVars, panicked, ctxDone,
                 dispatcherVars, broadcasterVars>>

\* case <-done: the task is deleted and the goroutine returns.
Finish(i) ==
  /\ gpc[i] = "wait" /\ done[i] \in closed
  /\ DeleteRenderTask(worker[i], renderTaskID[i])
  /\ gpc' = [gpc EXCEPT ![i] = "idle"]
  /\ startFrame' = [startFrame EXCEPT ![i] = 0]
  /\ done' = [done EXCEPT ![i] = NilChannel]
  /\ worker' = [worker EXCEPT ![i] = NoClient]
  /\ renderTaskID' = [renderTaskID EXCEPT ![i] = 0]
  /\ UNCHANGED <<next, closed, poolVars, bufferVars, panicked, ctxDone,
                 dispatcherVars, broadcasterVars>>

\* Mutant: the task leaves the registry while it is handed out again.
TimeoutForgetsTask(i) ==
  /\ gpc[i] = "wait"
  /\ worker[i] \notin Responsive \cap clients
  /\ DeleteRenderTask(worker[i], renderTaskID[i])
  /\ gpc' = [gpc EXCEPT ![i] = "repick"]
  /\ UNCHANGED <<startFrame, done, worker, renderTaskID, next, poolVars, closed,
                 bufferVars, panicked, ctxDone, dispatcherVars, broadcasterVars>>

\* Mutant: the goroutine abandons its batch.
TimeoutGivesUp(i) ==
  /\ gpc[i] = "wait"
  /\ worker[i] \notin Responsive \cap clients
  /\ DeleteRenderTask(worker[i], renderTaskID[i])
  /\ gpc' = [gpc EXCEPT ![i] = "idle"]
  /\ UNCHANGED <<startFrame, done, worker, renderTaskID, next, poolVars, closed,
                 bufferVars, panicked, ctxDone, dispatcherVars, broadcasterVars>>

\* case <-time.After(TaskTimeout).  A Responsive worker answers before it.
\* When the batch was stored too, select may still choose this case.
Timeout(i) ==
  /\ gpc[i] = "wait"
  /\ worker[i] \notin Responsive \cap clients
  /\ gpc' = [gpc EXCEPT ![i] = "repick"]
  /\ UNCHANGED <<startFrame, done, worker, renderTaskID, next, poolVars, mapVars,
                 bufferVars, panicked, ctxDone, dispatcherVars, broadcasterVars>>

\* The PickNewClient after a timeout, and the test whether it changed anything.
Repick(i, c) ==
  /\ gpc[i] = "repick" /\ i \notin poolWait
  /\ c \in clients
  /\ next' = [next EXCEPT ![i] = c]
  /\ gpc' = [gpc EXCEPT ![i] = IF c = worker[i] THEN "request" ELSE "switch"]
  /\ UNCHANGED <<startFrame, done, worker, renderTaskID, poolVars, mapVars,
                 bufferVars, panicked, ctxDone, dispatcherVars, broadcasterVars>>

\* Mutant: the new executor is never asked.
SwitchWithoutRequest(i) ==
  /\ gpc[i] = "switch"
  /\ SwitchRenderTaskExecutor(renderTaskID[i], worker[i], next[i])
  /\ renderTaskID' = [renderTaskID EXCEPT ![i] = NewRenderTaskID(next[i])]
  /\ worker' = [worker EXCEPT ![i] = next[i]]
  /\ gpc' = [gpc EXCEPT ![i] = "wait"]
  /\ UNCHANGED <<startFrame, done, next, closed, clients, gone, poolWait, requests,
                 bufferVars, ctxDone, dispatcherVars, broadcasterVars>>

\* SwitchRenderTaskExecutor; worker = next.
Switch(i) ==
  /\ gpc[i] = "switch"
  /\ numRenderTasks[next[i]] < MaxTasks
  /\ SwitchRenderTaskExecutor(renderTaskID[i], worker[i], next[i])
  /\ renderTaskID' = [renderTaskID EXCEPT ![i] = NewRenderTaskID(next[i])]
  /\ worker' = [worker EXCEPT ![i] = next[i]]
  /\ gpc' = [gpc EXCEPT ![i] = "request"]
  /\ UNCHANGED <<startFrame, done, next, closed, clients, gone, poolWait, requests,
                 bufferVars, ctxDone, dispatcherVars, broadcasterVars>>

\* PickNewClient on an empty pool.
PickPark(i) ==
  /\ gpc[i] \in {"pick", "repick"} /\ i \notin poolWait
  /\ PoolPark(i)
  /\ UNCHANGED <<taskVars, mapVars, bufferVars, panicked, ctxDone, dispatcherVars,
                 broadcasterVars>>

----------------------------------------------------------------------------
(* The broadcaster.                                                        *)

BroadcasterLoop ==
  /\ bpc = "loop"
  /\ bpc' = IF ctxDone THEN "stopped" ELSE "frames"
  /\ UNCHANGED <<isFirstBroadcast, frames, timeline, bufferVars, panicked, poolVars,
                 mapVars, ctxDone, dispatcherVars, taskVars>>

\* buffer.WaitUntilBufferSizeEnoughForBroadcast(seconds)
WaitUntilBufferSizeEnoughForBroadcast ==
  /\ bpc = "frames" /\ Broadcaster \notin bufWait
  /\ IF isBufferSizeEnoughForBroadcast(seconds)
     THEN bpc' = "client" /\ UNCHANGED <<bufferVars, panicked>>
     ELSE BufferPark(Broadcaster) /\ UNCHANGED bpc
  /\ UNCHANGED <<isFirstBroadcast, frames, timeline, poolVars, mapVars, ctxDone,
                 dispatcherVars, taskVars>>

BroadcasterWaitForAtLeastOne ==
  /\ bpc = "client" /\ Broadcaster \notin poolWait
  /\ IF clients # {}
     THEN bpc' = "get" /\ UNCHANGED poolVars
     ELSE PoolPark(Broadcaster) /\ UNCHANGED bpc
  /\ UNCHANGED <<isFirstBroadcast, frames, timeline, bufferVars, panicked, mapVars,
                 ctxDone, dispatcherVars, taskVars>>

GetFrames ==
  /\ bpc = "get"
  /\ frames' = GetFramesToBroadcast(seconds)
  /\ bpc' = "send"
  /\ UNCHANGED <<isFirstBroadcast, timeline, bufferVars, panicked, poolVars, mapVars,
                 ctxDone, dispatcherVars, taskVars>>

\* clients.Broadcast(frames), to whoever is connected.
SendFrames ==
  /\ bpc = "send"
  /\ timeline' = timeline \o frames
  /\ bpc' = "remove"
  /\ UNCHANGED <<isFirstBroadcast, frames, bufferVars, panicked, poolVars, mapVars,
                 ctxDone, dispatcherVars, taskVars>>

\* RemoveSentFramesFromBuffer up to its unlock.
RemoveFrames ==
  /\ bpc = "remove"
  /\ RemoveSentFramesFromBuffer(seconds)
  /\ frames' = << >>
  /\ bpc' = "notify"
  /\ UNCHANGED <<isFirstBroadcast, timeline, poolVars, mapVars, ctxDone,
                 dispatcherVars, taskVars>>

\* The Broadcast at its end, the end of the loop body and the sleep.
BroadcasterNotify ==
  /\ bpc = "notify"
  /\ BufferNotify
  /\ bpc' = "loop" /\ isFirstBroadcast' = FALSE
  /\ UNCHANGED <<frames, timeline, poolVars, mapVars, ctxDone, dispatcherVars,
                 taskVars>>

----------------------------------------------------------------------------
(* The environment: connections, results, shutdown.                        *)

Connect(c) ==
  /\ AddClient(c)
  /\ UNCHANGED <<bufferVars, panicked, mapVars, ctxDone, pipelineVars>>

Disconnect(c) ==
  /\ RemoveClient(c)
  /\ UNCHANGED <<bufferVars, panicked, mapVars, ctxDone, pipelineVars>>

\* The worker answers a request it was sent, with the frames of that batch:
\* its read loop calls HandleResult, possibly after the client was removed.
HandleResult(request) ==
  /\ request \in requests
  /\ SaveRenderResult(request.client, request.id, request.start)
  /\ UNCHANGED <<poolVars, ctxDone, pipelineVars>>

Cancel ==
  /\ ~ ctxDone /\ ctxDone' = TRUE
  /\ UNCHANGED <<bufferVars, panicked, poolVars, mapVars, pipelineVars>>

----------------------------------------------------------------------------
(* The specification.                                                      *)

DispatcherNext ==
  \/ DispatcherLoop \/ WaitForRoom \/ DispatcherWaitForAtLeastOne
  \/ StartRound \/ EndRound \/ DispatcherNotify

BroadcasterNext ==
  \/ BroadcasterLoop \/ WaitUntilBufferSizeEnoughForBroadcast
  \/ BroadcasterWaitForAtLeastOne \/ GetFrames \/ SendFrames \/ RemoveFrames
  \/ BroadcasterNotify

TaskNext(i) ==
  \/ \E c \in clients : Pick(i, c) \/ Repick(i, c)
  \/ Register(i) \/ Request(i) \/ Finish(i) \/ Timeout(i) \/ Switch(i)
  \/ PickPark(i)

EnvironmentNext ==
  \/ \E c \in ClientIDs : Connect(c) \/ Disconnect(c)
  \/ \E request \in requests : HandleResult(request)
  \/ Cancel

Next ==
  \/ DispatcherNext
  \/ BroadcasterNext
  \/ \E i \in Goroutines : TaskNext(i)
  \/ EnvironmentNext

Spec == Init /\ [][Next]_vars

\* The read loop of a connected worker delivers its answers.
WorkerAnswers(c) ==
  /\ c \in clients
  /\ \E request \in {r \in requests : r.client = c} : HandleResult(request)

\* The Go scheduler runs every runnable goroutine; an Answering worker answers
\* while it is connected; a random pick repeated forever chooses each connected client again and
\* again; and a select entered again and again with done closed takes it, since
\* its timer starts afresh each time.
FairSpec ==
  /\ Spec
  /\ WF_vars(DispatcherNext) /\ WF_vars(BroadcasterNext)
  /\ \A i \in Goroutines :
       /\ WF_vars(TaskNext(i))
       /\ SF_vars(Finish(i))
       /\ \A c \in Responsive : SF_vars(Repick(i, c))
  /\ \A c \in Answering : WF_vars(WorkerAnswers(c))

----------------------------------------------------------------------------
(* Properties.                                                             *)

Requests == [client : ClientIDs, id : Nat, start : Slots]

\* Type correctness of every variable.
TypeOK ==
  /\ buffer \in [Slots -> Slots \cup {Blank}]
  /\ head \in Nat /\ tail \in Nat
  /\ bufWait \subseteq {Dispatcher, Broadcaster}
  /\ panicked \in BOOLEAN
  /\ clients \subseteq ClientIDs /\ gone \subseteq ClientIDs
  /\ poolWait \subseteq Threads
  /\ numRenderTasks \in [ClientIDs -> Nat]
  /\ requests \subseteq Requests
  /\ DOMAIN frameBatches \subseteq ClientIDs \X Nat
  /\ frameBatches \in [DOMAIN frameBatches -> FrameBatchMetadata]
  /\ closed \subseteq Channels
  /\ ctxDone \in BOOLEAN
  /\ dpc \in {"loop", "room", "client", "spawn", "join", "notify", "stopped"}
  /\ isFirstRound \in BOOLEAN
  /\ gpc \in [Goroutines -> {"idle", "pick", "register", "request", "wait",
                             "repick", "switch"}]
  /\ startFrame \in [Goroutines -> Slots]
  /\ done \in [Goroutines -> Channels]
  /\ worker \in [Goroutines -> ClientIDs \cup {NoClient}]
  /\ renderTaskID \in [Goroutines -> Nat]
  /\ next \in [Goroutines -> ClientIDs \cup {NoClient}]
  /\ bpc \in {"loop", "frames", "client", "get", "send", "remove", "notify",
              "stopped"}
  /\ isFirstBroadcast \in BOOLEAN
  /\ frames \in Seq(Slots \cup {Blank})
  /\ timeline \in Seq(Slots \cup {Blank})

\* The fleet is sent every batch, in order, from the first one on and without
\* a gap, a repetition or an unrendered slot, however workers time out, leave
\* or answer late (dispatchRenderTask, AdvanceHead, GetFramesToBroadcast).
TimelineContiguous ==
  \A j \in 1..Len(timeline) : timeline[j] = Slot(j - 1)

\* AdvanceHead never moves over a slot whose frames were not stored: whatever
\* lies between tail and head is the batch that belongs there.
ReadyBatchesStored ==
  \A p \in tail..(head - 1) : buffer[Slot(p)] = Slot(p)

\* No render task is outstanding for a slot that waits to be broadcast, so no
\* result, however late, is copied over frames GetFramesToBroadcast may read.
NoTaskOnReadySlot ==
  \A key \in DOMAIN frameBatches :
    frameBatches[key].start \notin SlotsFrom(tail, head - tail)

\* None of the code's panics is reachable: done is closed once and is not nil
\* (SaveRenderResult), a task is never switched to its own executor
\* (SwitchRenderTaskExecutor), no more is removed than is buffered
\* (RemoveSentFramesFromBuffer).
NoPanic == ~ panicked

\* The goroutine's own key in the registry, from AddFrameBatch to DeleteRenderTask.
Registered == {i \in Goroutines : gpc[i] \in {"request", "wait", "repick", "switch"}}

\* The registry holds exactly the tasks of the running goroutines, each under
\* one (client, id) and with that goroutine's batch and channel: no entry
\* leaks, none is lost by a switch, and no two goroutines share one.
TasksTracked ==
  /\ DOMAIN frameBatches = {<<worker[i], renderTaskID[i]>> : i \in Registered}
  /\ \A i \in Registered :
       /\ frameBatches[<<worker[i], renderTaskID[i]>>].start = startFrame[i]
       /\ frameBatches[<<worker[i], renderTaskID[i]>>].done = done[i]
       /\ \A j \in Registered :
            <<worker[i], renderTaskID[i]>> = <<worker[j], renderTaskID[j]>> => i = j

\* No lost wakeup on the two condition variables: a goroutine is parked while
\* its predicate holds only if the Broadcast that wakes it is still to come.
NoLostWakeup ==
  /\ Dispatcher \in bufWait /\ HasRoomFor(batchesToFetch) => bpc = "notify"
  /\ Broadcaster \in bufWait /\ isBufferSizeEnoughForBroadcast(seconds)
       => dpc = "notify"
  /\ poolWait # {} => clients = {}

\* The dispatcher never waits for room while the broadcaster waits for frames.
LoopsNeverBothParked == ~ ({Dispatcher, Broadcaster} \subseteq bufWait)

\* The behaviours MaxTasks does not cut short.
WithinMaxTasks == [](\A c \in ClientIDs : numRenderTasks[c] < MaxTasks)

\* Once a Responsive worker stays connected and the server runs, every batch up
\* to the bound is rendered and broadcast: timeouts and re-dispatch recover
\* every task given to a worker that left, never answers or answers late.
StreamFlows ==
  WithinMaxTasks /\ <>[](clients \cap Responsive # {} /\ ~ ctxDone)
    => <>(Len(timeline) >= MaxDispatched)

\* A single remaining worker suffices even if it needs longer than TaskTimeout
\* for every batch: a retry with the same client keeps the task's id, so its
\* late answer still finds the task, and whatever was assigned to clients that
\* left reaches it in the end.
SlowWorkerSuffices ==
  WithinMaxTasks /\ <>[](~ ctxDone /\ \E c \in Answering : clients = {c})
    => <>(Len(timeline) >= MaxDispatched)

\* The pipeline implements the abstract stream: every broadcast is the next
\* batches of the animation, all rendered before, never more than the ring
\* holds ahead of the viewers, whatever happens to tasks and workers.
Stream ==
  INSTANCE FrameStream WITH First <- FirstSecondsToBroadcast,
                            Later <- SecondsToBroadcast,
                            produced <- head, sent <- timeline

ImplementsFrameStream == Stream!Spec

\* "No goroutine is left blocked on the cancelled context": both loops stop.
StopsOnCancel == ctxDone ~> (dpc = "stopped" /\ bpc = "stopped")
=============================================================================
