------------------------- MODULE OrchestratorProofs -------------------------
(***************************************************************************)
(* Proofs, for every size of ring, round and fleet and every bound, of     *)
(* type correctness of Orchestrator; of its inductive invariant and, from  *)
(* it, that the timeline is contiguous, that nothing panics, that the      *)
(* registry tracks the tasks, that no wakeup is lost, that the two loops   *)
(* never wait for each other; and that the pipeline implements the         *)
(* abstract stream.                                                        *)
(***************************************************************************)
EXTENDS Orchestrator, Remainders

----------------------------------------------------------------------------
(* Type correctness.                                                       *)

\* The clients held in a goroutine's local variables, once they are assigned.
LocalsAssigned ==
  \A i \in Goroutines :
    /\ gpc[i] \notin {"idle", "pick"} => worker[i] \in ClientIDs
    /\ gpc[i] = "switch" => next[i] \in ClientIDs /\ next[i] # worker[i]

TypeInv == TypeOK /\ LocalsAssigned

\* "% MaxBatches" yields a slot (GetNextFrameNumber, AddFramesToBuffer).
LEMMA SlotType == \A p \in Int : Slot(p) \in Slots
  BY MaxBatchesAssumption DEF Slot, Slots

\* The numbering of the goroutines of a round.
LEMMA GoroutinesType ==
  /\ Goroutines \subseteq Nat
  /\ batchesToFetch \in 1..MaxBatches /\ seconds \in 1..MaxBatches
  /\ \A i \in 0..(batchesToFetch - 1) : i \in Goroutines
  BY OrchestratorAssumption, MaxBatchesAssumption
  DEF Goroutines, batchesToFetch, seconds

\* A function over 1..n is a sequence of length n.
LEMMA FunctionIsSeq ==
  ASSUME NEW S, NEW n \in Nat, NEW f \in [1..n -> S]
  PROVE  f \in Seq(S) /\ Len(f) = n
  OBVIOUS

\* The initial state is well typed.
LEMMA TypeInit == Init => TypeInv
<1> SUFFICES ASSUME Init PROVE TypeInv
  OBVIOUS
<1>1. /\ DOMAIN frameBatches \subseteq ClientIDs \X Nat
      /\ frameBatches \in [DOMAIN frameBatches -> FrameBatchMetadata]
      /\ closed \subseteq Channels
  BY DEF Init, NewFrameBatchMap
<1>2. 0 \in Slots /\ NilChannel \in Channels
  BY MaxBatchesAssumption DEF Slots, Channels
<1>3. /\ buffer \in [Slots -> Slots \cup {Blank}]
      /\ numRenderTasks \in [ClientIDs -> Nat]
  BY DEF Init, NewFrameBuffer, NewClientPool
<1>4. /\ frames \in Seq(Slots \cup {Blank})
      /\ timeline \in Seq(Slots \cup {Blank})
  BY DEF Init
<1>5. /\ head \in Nat /\ tail \in Nat /\ bufWait = {}
      /\ clients = {} /\ gone = {} /\ poolWait = {} /\ requests = {}
  BY DEF Init, NewFrameBuffer, NewClientPool
<1>6. /\ gpc = [i \in Goroutines |-> "idle"]
      /\ startFrame \in [Goroutines -> Slots]
      /\ done \in [Goroutines -> Channels]
      /\ worker \in [Goroutines -> ClientIDs \cup {NoClient}]
      /\ renderTaskID \in [Goroutines -> Nat]
      /\ next \in [Goroutines -> ClientIDs \cup {NoClient}]
  BY <1>2 DEF Init
<1>7. /\ panicked = FALSE /\ ctxDone = FALSE /\ dpc = "loop" /\ isFirstRound = TRUE
      /\ bpc = "loop" /\ isFirstBroadcast = TRUE
  BY DEF Init
<1> QED
  BY <1>1, <1>3, <1>4, <1>5, <1>6, <1>7 DEF TypeInv, TypeOK, LocalsAssigned

\* Every step of the dispatcher keeps the types.
LEMMA TypeDispatcher == TypeInv /\ DispatcherNext => TypeInv'
<1> SUFFICES ASSUME TypeInv, DispatcherNext PROVE TypeInv'
  OBVIOUS
<1> USE DEF TypeInv, TypeOK, LocalsAssigned, bufferVars, poolVars, mapVars,
            taskVars, broadcasterVars
<1>1. CASE DispatcherLoop
  BY <1>1 DEF DispatcherLoop
<1>2. CASE WaitForRoom
  BY <1>2 DEF WaitForRoom, BufferPark, Dispatcher
<1>3. CASE DispatcherWaitForAtLeastOne
  BY <1>3 DEF DispatcherWaitForAtLeastOne, PoolPark, Threads
<1>4. CASE StartRound
  <2>1. \A i \in Goroutines : Slot(GetNextFrameNumber + i) \in Slots
    BY SlotType, GoroutinesType, MaxBatchesAssumption DEF GetNextFrameNumber, Slots
  <2>2. \A i \in Goroutines : head + i \in Channels
    BY GoroutinesType DEF Channels
  <2>3. /\ startFrame' \in [Goroutines -> Slots]
        /\ done' \in [Goroutines -> Channels]
    BY <1>4, <2>1, <2>2 DEF StartRound
  <2> QED
    BY <1>4, <2>3 DEF StartRound
<1>5. CASE EndRound
  BY <1>5, GoroutinesType, SMTT(20) DEF EndRound, AdvanceHead
<1>6. CASE DispatcherNotify
  BY <1>6 DEF DispatcherNotify, BufferNotify
<1> QED
  BY <1>1, <1>2, <1>3, <1>4, <1>5, <1>6 DEF DispatcherNext

\* Every step of the broadcaster keeps the types.
LEMMA TypeBroadcaster == TypeInv /\ BroadcasterNext => TypeInv'
<1> SUFFICES ASSUME TypeInv, BroadcasterNext PROVE TypeInv'
  OBVIOUS
<1> USE DEF TypeInv, TypeOK, LocalsAssigned, bufferVars, poolVars, mapVars,
            taskVars, dispatcherVars
<1>1. CASE BroadcasterLoop
  BY <1>1 DEF BroadcasterLoop
<1>2. CASE WaitUntilBufferSizeEnoughForBroadcast
  BY <1>2 DEF WaitUntilBufferSizeEnoughForBroadcast, BufferPark
<1>3. CASE BroadcasterWaitForAtLeastOne
  BY <1>3 DEF BroadcasterWaitForAtLeastOne, PoolPark, Threads
<1>4. CASE GetFrames
  <2>1. \A k \in 1..seconds : buffer[Slot(tail + k - 1)] \in Slots \cup {Blank}
    BY SlotType, GoroutinesType
  <2>2. GetFramesToBroadcast(seconds) \in Seq(Slots \cup {Blank})
    <3>1. seconds \in Nat
      BY GoroutinesType
    <3>2. [k \in 1..seconds |-> buffer[Slot(tail + k - 1)]] \in Seq(Slots \cup {Blank})
      <4>1. [k \in 1..seconds |-> buffer[Slot(tail + k - 1)]]
              \in [1..seconds -> Slots \cup {Blank}]
        BY <2>1
      <4> QED
        BY <3>1, <4>1, FunctionIsSeq
    <3>3. << >> \in Seq(Slots \cup {Blank})
      OBVIOUS
    <3> QED
      BY <3>2, <3>3 DEF GetFramesToBroadcast
  <2> QED
    BY <1>4, <2>2 DEF GetFrames
<1>5. CASE SendFrames
  BY <1>5 DEF SendFrames
<1>6. CASE RemoveFrames
  <2>1. seconds \in Nat
    BY GoroutinesType
  <2>2. (panicked' = TRUE /\ tail' = tail) \/ (tail' = tail + seconds /\ panicked' = panicked)
    BY <1>6 DEF RemoveFrames, RemoveSentFramesFromBuffer
  <2>4. tail' \in Nat
    BY <2>1, <2>2
  <2>5. panicked' \in BOOLEAN
    BY <2>2
  <2>3. frames' \in Seq(Slots \cup {Blank})
    BY <1>6 DEF RemoveFrames
  <2> QED
    BY <1>6, <2>4, <2>5, <2>3 DEF RemoveFrames, RemoveSentFramesFromBuffer
<1>7. CASE BroadcasterNotify
  BY <1>7 DEF BroadcasterNotify, BufferNotify
<1> QED
  BY <1>1, <1>2, <1>3, <1>4, <1>5, <1>6, <1>7 DEF BroadcasterNext

\* Every step of a goroutine that renders a batch keeps the types.
LEMMA TypeTask ==
  ASSUME TypeInv, NEW i \in Goroutines, TaskNext(i) PROVE TypeInv'
<1> USE DEF TypeInv, TypeOK, LocalsAssigned, bufferVars, poolVars, mapVars,
            dispatcherVars, broadcasterVars
<1>1. ASSUME NEW c \in clients, Pick(i, c) PROVE TypeInv'
  BY <1>1 DEF Pick
<1>2. ASSUME NEW c \in clients, Repick(i, c) PROVE TypeInv'
  BY <1>2 DEF Repick
<1>3. CASE Register(i)
  <2> DEFINE id == numRenderTasks[worker[i]]
             meta == NewFrameBatchMetadata(startFrame[i], done[i])
  <2>1. worker[i] \in ClientIDs /\ id \in Nat
    BY <1>3 DEF Register
  <2>2. meta \in FrameBatchMetadata
    BY DEF NewFrameBatchMetadata, FrameBatchMetadata
  <2>3. frameBatches' = Put(frameBatches, <<worker[i], id>>, meta)
    BY <1>3 DEF Register, AddFrameBatch, NewRenderTaskID
  <2>4. /\ DOMAIN frameBatches' \subseteq ClientIDs \X Nat
        /\ frameBatches' \in [DOMAIN frameBatches' -> FrameBatchMetadata]
    BY <2>1, <2>2, <2>3 DEF Put
  <2> QED
    BY <1>3, <2>1, <2>4 DEF Register, GenerateNewRenderTaskID, NewRenderTaskID
<1>4. CASE Request(i)
  BY <1>4, ClientPoolAssumption DEF Request, RequestWork, Requests
<1>5. CASE Finish(i)
  <2>1. /\ DOMAIN frameBatches' \subseteq ClientIDs \X Nat
        /\ frameBatches' \in [DOMAIN frameBatches' -> FrameBatchMetadata]
    BY <1>5 DEF Finish, DeleteRenderTask, Restrict
  <2>2. 0 \in Slots /\ NilChannel \in Channels
    BY MaxBatchesAssumption DEF Slots, Channels
  <2> QED
    BY <1>5, <2>1, <2>2 DEF Finish
<1>6. CASE Timeout(i)
  BY <1>6 DEF Timeout
<1>7. CASE Switch(i)
  <2> DEFINE oldKey == <<worker[i], renderTaskID[i]>>
             newKey == <<next[i], numRenderTasks[next[i]]>>
             moved == Put(frameBatches, newKey, Lookup(oldKey))
  <2>1. next[i] \in ClientIDs /\ next[i] # worker[i]
    BY <1>7 DEF Switch
  <2>2. Lookup(oldKey) \in FrameBatchMetadata /\ newKey \in ClientIDs \X Nat
    BY <2>1, MaxBatchesAssumption
    DEF Lookup, ZeroMetadata, FrameBatchMetadata, Slots, Channels
  <2>3. frameBatches' = Restrict(moved, DOMAIN moved \ {oldKey})
    BY <1>7, <2>1 DEF Switch, SwitchRenderTaskExecutor, NewRenderTaskID
  <2>4. /\ DOMAIN moved \subseteq ClientIDs \X Nat
        /\ moved \in [DOMAIN moved -> FrameBatchMetadata]
    BY <2>2 DEF Put
  <2>5. /\ DOMAIN frameBatches' \subseteq ClientIDs \X Nat
        /\ frameBatches' \in [DOMAIN frameBatches' -> FrameBatchMetadata]
    BY <2>3, <2>4 DEF Restrict
  <2>6. numRenderTasks' \in [ClientIDs -> Nat] /\ panicked' = panicked
    BY <1>7, <2>1 DEF Switch, SwitchRenderTaskExecutor, GenerateNewRenderTaskID
  <2>7. numRenderTasks[next[i]] \in Nat
    BY <2>1
  <2> QED
    BY <1>7, <2>1, <2>5, <2>6, <2>7, SMTT(20) DEF Switch, NewRenderTaskID
<1>8. CASE PickPark(i)
  BY <1>8 DEF PickPark, PoolPark, Threads, taskVars
<1> QED
  BY <1>1, <1>2, <1>3, <1>4, <1>5, <1>6, <1>7, <1>8 DEF TaskNext

\* A connection answers a task with the frames of some slot: a result that need
\* not answer anything this connection was asked.
AnyResult(c, id, slot) ==
  SaveRenderResult(c, id, slot) /\ UNCHANGED <<poolVars, ctxDone, pipelineVars>>

Answered ==
  \E c \in ClientIDs, id \in Nat, slot \in Slots : AnyResult(c, id, slot)

\* The answer to a request is a result.
LEMMA HandlingIsAnswered ==
  ASSUME TypeInv, NEW r \in requests, HandleResult(r)
  PROVE  AnyResult(r.client, r.id, r.start) /\ Answered
<1>1. r.client \in ClientIDs /\ r.id \in Nat /\ r.start \in Slots
  BY DEF TypeInv, TypeOK, Requests
<1>2. AnyResult(r.client, r.id, r.start)
  BY DEF HandleResult, AnyResult
<1> QED
  BY <1>1, <1>2 DEF Answered

\* Any result keeps the types.
LEMMA TypeAnswered == TypeInv /\ Answered => TypeInv'
<1> SUFFICES ASSUME TypeInv, NEW c \in ClientIDs, NEW id \in Nat, NEW slot \in Slots,
                    AnyResult(c, id, slot)
             PROVE  TypeInv'
  BY DEF Answered
<1> USE DEF TypeInv, TypeOK, LocalsAssigned, bufferVars, poolVars, mapVars,
            pipelineVars, dispatcherVars, taskVars, broadcasterVars
<1> DEFINE key == <<c, id>>
<1>1. CASE key \in DOMAIN frameBatches /\ ~ frameBatches[key].completed
  <2>1. frameBatches[key] \in FrameBatchMetadata
    BY <1>1
  <2>2. /\ frameBatches' = [frameBatches EXCEPT ![key].completed = TRUE]
        /\ buffer' = [buffer EXCEPT ![frameBatches[key].start] = slot]
        /\ closed' = closed \cup {frameBatches[key].done}
        /\ panicked' \in BOOLEAN
    BY <1>1 DEF AnyResult, SaveRenderResult, AddFramesToBuffer, CloseChannel
  <2>3. frameBatches' \in [DOMAIN frameBatches -> FrameBatchMetadata]
    BY <2>1, <2>2 DEF FrameBatchMetadata
  <2>4. /\ DOMAIN frameBatches' \subseteq ClientIDs \X Nat
        /\ frameBatches' \in [DOMAIN frameBatches' -> FrameBatchMetadata]
    BY <2>3
  <2>5. closed' \subseteq Channels
    BY <2>1, <2>2 DEF FrameBatchMetadata
  <2> QED
    BY <1>1, <2>1, <2>2, <2>4, <2>5 DEF AnyResult, SaveRenderResult, AddFramesToBuffer
<1>2. CASE ~ (key \in DOMAIN frameBatches /\ ~ frameBatches[key].completed)
  BY <1>2 DEF AnyResult, SaveRenderResult
<1> QED
  BY <1>1, <1>2

\* Connections, results and cancellation keep the types.
LEMMA TypeEnvironment == TypeInv /\ EnvironmentNext => TypeInv'
<1> SUFFICES ASSUME TypeInv, EnvironmentNext PROVE TypeInv'
  OBVIOUS
<1> USE DEF TypeInv, TypeOK, LocalsAssigned, bufferVars, poolVars, mapVars,
            pipelineVars, dispatcherVars, taskVars, broadcasterVars
<1>1. ASSUME NEW c \in ClientIDs, Connect(c) PROVE TypeInv'
  BY <1>1 DEF Connect, AddClient
<1>2. ASSUME NEW c \in ClientIDs, Disconnect(c) PROVE TypeInv'
  BY <1>2 DEF Disconnect, RemoveClient
<1>3. ASSUME NEW r \in requests, HandleResult(r) PROVE TypeInv'
  BY <1>3, HandlingIsAnswered, TypeAnswered
<1>4. CASE Cancel
  BY <1>4 DEF Cancel
<1> QED
  BY <1>1, <1>2, <1>3, <1>4 DEF EnvironmentNext

\* The type invariant is preserved by every step.
LEMMA TypeStep == TypeInv /\ [Next]_vars => TypeInv'
<1>1. TypeInv /\ UNCHANGED vars => TypeInv'
  BY DEF TypeInv, TypeOK, LocalsAssigned, vars, bufferVars, poolVars, mapVars,
         pipelineVars, dispatcherVars, taskVars, broadcasterVars
<1> QED
  BY <1>1, TypeDispatcher, TypeBroadcaster, TypeTask, TypeEnvironment DEF Next

\* Every variable keeps its type in every behaviour of the pipeline, and a
\* goroutine only uses a client it has picked.
THEOREM TypeCorrect == Spec => []TypeOK
<1>1. TypeInv => TypeOK
  BY DEF TypeInv
<1> QED
  BY <1>1, TypeInit, TypeStep, PTL DEF Spec

----------------------------------------------------------------------------
(* What each part of the pipeline leaves alone.                            *)

\* The dispatcher moves head, starts goroutines, parks and wakes.
LEMMA DispatcherFrame ==
  DispatcherNext => UNCHANGED <<broadcasterVars, worker, renderTaskID, next, mapVars,
                                clients, numRenderTasks, requests, buffer, tail,
                                panicked>>
  BY DEF DispatcherNext, DispatcherLoop, WaitForRoom, DispatcherWaitForAtLeastOne,
         StartRound, EndRound, DispatcherNotify, BufferPark, PoolPark, AdvanceHead,
         BufferNotify, bufferVars, poolVars, mapVars, taskVars, broadcasterVars

\* The broadcaster moves tail, parks and wakes.
LEMMA BroadcasterFrame ==
  BroadcasterNext => UNCHANGED <<dispatcherVars, taskVars, mapVars, clients,
                                 numRenderTasks, requests, buffer, head>>
  BY DEF BroadcasterNext, BroadcasterLoop, WaitUntilBufferSizeEnoughForBroadcast,
         BroadcasterWaitForAtLeastOne, GetFrames, SendFrames, RemoveFrames,
         BroadcasterNotify, BufferPark, PoolPark, RemoveSentFramesFromBuffer,
         BufferNotify, bufferVars, poolVars, mapVars, taskVars, dispatcherVars

\* A goroutine's steps touch the registry, the requests and its own locals.
LEMMA TaskFrame ==
  ASSUME TypeInv, NEW i \in Goroutines, TaskNext(i)
  PROVE  UNCHANGED <<dispatcherVars, broadcasterVars, bufferVars, clients, closed,
                     panicked>>
<1>1. Switch(i) => next[i] # worker[i]
  BY DEF TypeInv, LocalsAssigned, Switch
<1> QED
  BY <1>1 DEF TaskNext, Pick, Repick, Register, Request, Finish, Timeout, Switch,
       PickPark, PoolPark, SwitchRenderTaskExecutor, bufferVars, poolVars, mapVars,
       taskVars

\* The environment changes the pool, stores results and cancels.
LEMMA EnvironmentFrame ==
  EnvironmentNext => UNCHANGED <<pipelineVars, numRenderTasks, requests, head, tail,
                                 bufWait>>
  BY DEF EnvironmentNext, Connect, Disconnect, HandleResult, Cancel, AddClient,
         RemoveClient, SaveRenderResult, AddFramesToBuffer, bufferVars, poolVars,
         pipelineVars

\* A result changes the ring's contents, the registry and the channels only.
LEMMA AnsweredFrame ==
  Answered => UNCHANGED <<pipelineVars, poolVars, ctxDone, head, tail, bufWait>>
  BY DEF Answered, AnyResult, SaveRenderResult, AddFramesToBuffer, bufferVars

----------------------------------------------------------------------------
(* The inductive invariant.                                                *)

Key(i) == <<worker[i], renderTaskID[i]>>

\* Goroutines run only while the dispatcher waits for them, each on its batch.
RoundInv ==
  /\ dpc # "join" => \A i \in Goroutines : gpc[i] = "idle"
  /\ \A i \in Goroutines : gpc[i] # "idle" =>
       i < batchesToFetch /\ startFrame[i] = Slot(head + i) /\ done[i] = head + i

\* The registry tracks the tasks; ids are fresh; what a worker was asked for
\* under an id that is still assigned to it is what that task is about.
RegistryInv ==
  /\ TasksTracked
  /\ \A i \in Registered : renderTaskID[i] < numRenderTasks[worker[i]]
  /\ \A r \in requests : r.id < numRenderTasks[r.client]
  /\ \A r \in requests, i \in Registered :
       r.client = worker[i] /\ r.id = renderTaskID[i] => r.start = startFrame[i]

\* A task is completed when its channel is closed; a goroutine ends only then;
\* the closed channels are those of the batches before head, and some of the
\* current round's.
DoneInv ==
  /\ \A i \in Registered : frameBatches[Key(i)].completed <=> done[i] \in closed
  /\ \A i \in Goroutines : gpc[i] \in {"pick", "register"} => done[i] \notin closed
  /\ dpc = "join" => \A i \in Goroutines :
       i < batchesToFetch /\ gpc[i] = "idle" => head + i \in closed
  /\ \A p \in closed :
       p \in Nat /\ (p < head \/ (dpc = "join" /\ p < head + batchesToFetch))
  /\ \A p \in Nat : p < head => p \in closed

\* A slot holds its own batch or nothing, and its own once that was stored.
StoreInv ==
  /\ \A s \in Slots : buffer[s] = s \/ buffer[s] = Blank
  /\ \A p \in closed : buffer[Slot(p)] = Slot(p)

\* The ring never overfills; room, once found, stays; frames, once found, stay.
RingInv ==
  /\ tail <= head /\ head - tail <= MaxBatches
  /\ dpc \in {"client", "spawn", "join"} =>
       head - tail + batchesToFetch <= MaxBatches
  /\ bpc \in {"client", "get", "send", "remove"} => seconds <= head - tail

\* How much is about to be sent, and how much has been.
LengthInv ==
  /\ bpc = "send" => Len(frames) = seconds
  /\ Len(timeline) = IF bpc = "remove" THEN tail + seconds ELSE tail

\* What is about to be sent, and what has been.
StreamInv ==
  /\ bpc = "send" => \A k \in 1..seconds : frames[k] = Slot(tail + k - 1)
  /\ TimelineContiguous

\* Where a loop is while it is parked on the buffer.
ParkedInv ==
  /\ Dispatcher \in bufWait => dpc = "room"
  /\ Broadcaster \in bufWait => bpc = "frames"
  /\ NoLostWakeup

\* Head and tail are 0, or one first round (broadcast) plus whole later ones.
PacingInv ==
  /\ isFirstRound =>
       head = IF dpc = "notify" THEN FirstSecondsToBroadcast ELSE 0
  /\ ~ isFirstRound =>
       \E k \in Nat : head = FirstSecondsToBroadcast + k * SecondsToBroadcast
  /\ isFirstBroadcast =>
       tail = IF bpc = "notify" THEN FirstSecondsToBroadcast ELSE 0
  /\ ~ isFirstBroadcast =>
       \E j \in Nat : tail = FirstSecondsToBroadcast + j * SecondsToBroadcast

\* What holds whatever a client answers: only the contents of the slots depend
\* on results being those that were asked for.
CoreInv ==
  /\ TypeInv /\ RoundInv /\ RegistryInv /\ DoneInv /\ RingInv /\ LengthInv
  /\ ParkedInv /\ PacingInv /\ NoPanic /\ LoopsNeverBothParked

Inv == CoreInv /\ StoreInv /\ StreamInv

\* The steps of a pipeline whose clients may answer anything.
AnyNext == Next \/ Answered

----------------------------------------------------------------------------
(* Arithmetic of the ring.                                                 *)

\* Numbering a round from the ring-relative next frame, as the dispatcher does,
\* is numbering it from head.
LEMMA SlotOfSum ==
  ASSUME NEW h \in Nat, NEW i \in Nat
  PROVE  Slot(Slot(h) + i) = Slot(h + i)
<1>1. h \in Int /\ i \in Int
  OBVIOUS
<1>2. ((h % MaxBatches) + i) % MaxBatches = (h + i) % MaxBatches
  BY <1>1, RemainderOfSum, MaxBatchesAssumption
<1> QED
  BY <1>2 DEF Slot

\* Positions less than a ring apart have different slots.
LEMMA SlotsDistinct ==
  ASSUME NEW a \in Nat, NEW b \in Nat, a < b, b < a + MaxBatches
  PROVE  Slot(a) # Slot(b)
<1>1. a \in Int /\ b \in Int
  OBVIOUS
<1>2. a % MaxBatches # b % MaxBatches
  BY <1>1, RemaindersDiffer, MaxBatchesAssumption
<1> QED
  BY <1>2 DEF Slot

\* Appending what is sent adds its length to the timeline's.
LEMMA LengthOfConcat ==
  ASSUME NEW S, NEW s \in Seq(S), NEW t \in Seq(S)
  PROVE  Len(s \o t) = Len(s) + Len(t)
  OBVIOUS

\* The elements of a concatenation.
LEMMA ElementOfConcat ==
  ASSUME NEW S, NEW s \in Seq(S), NEW t \in Seq(S), NEW j \in 1..(Len(s) + Len(t))
  PROVE  (s \o t)[j] = IF j <= Len(s) THEN s[j] ELSE t[j - Len(s)]
  OBVIOUS

\* Sequences with the same elements are equal.
LEMMA EqualSequences ==
  ASSUME NEW S, NEW s \in Seq(S), NEW t \in Seq(S), Len(s) = Len(t),
         \A j \in 1..Len(s) : s[j] = t[j]
  PROVE  s = t
  OBVIOUS

----------------------------------------------------------------------------
(* One lemma per part of the invariant: every step preserves it.           *)

\* The initial state satisfies the invariant.
LEMMA InvInit == Init => Inv
<1> SUFFICES ASSUME Init PROVE Inv
  OBVIOUS
<1>1. TypeInv
  BY TypeInit
<1>2. /\ dpc = "loop" /\ bpc = "loop" /\ head = 0 /\ tail = 0
      /\ isFirstRound = TRUE /\ isFirstBroadcast = TRUE
      /\ \A i \in Goroutines : gpc[i] = "idle"
      /\ bufWait = {} /\ poolWait = {} /\ requests = {} /\ closed = {}
      /\ \A s \in Slots : buffer[s] = Blank
      /\ panicked = FALSE
  BY DEF Init, NewFrameBuffer, NewClientPool, NewFrameBatchMap
<1>3. DOMAIN frameBatches = {} /\ Len(timeline) = 0
  BY DEF Init, NewFrameBatchMap
<1>4. Registered = {}
  BY <1>2 DEF Registered
<1>5. TasksTracked
  BY <1>3, <1>4 DEF TasksTracked
<1>6. RoundInv /\ RegistryInv /\ DoneInv /\ StoreInv
  BY <1>2, <1>4, <1>5 DEF RoundInv, RegistryInv, DoneInv, StoreInv
<1>7. RingInv /\ LengthInv /\ StreamInv
  BY <1>2, <1>3, MaxBatchesAssumption
  DEF RingInv, LengthInv, StreamInv, TimelineContiguous
<1>8. ParkedInv /\ PacingInv /\ NoPanic /\ LoopsNeverBothParked
  BY <1>2 DEF ParkedInv, NoLostWakeup, PacingInv, NoPanic, LoopsNeverBothParked
<1> QED
  BY <1>1, <1>6, <1>7, <1>8 DEF Inv, CoreInv

\* RoundInv: goroutines are started by StartRound, on their batches, and a
\* round ends only when all are idle.
LEMMA RoundStep ==
  ASSUME TypeInv, RoundInv, AnyNext PROVE RoundInv'
<1> USE DEF RoundInv, batchesToFetch
<1>1. CASE DispatcherNext
  <2> USE DEF taskVars, bufferVars
  <2>1. CASE DispatcherLoop
    BY <2>1 DEF DispatcherLoop
  <2>2. CASE WaitForRoom
    BY <2>2 DEF WaitForRoom, BufferPark
  <2>3. CASE DispatcherWaitForAtLeastOne
    BY <2>3 DEF DispatcherWaitForAtLeastOne
  <2>4. CASE StartRound
    <3>1. \A i \in Goroutines : gpc[i] = "idle"
      BY <2>4 DEF StartRound
    <3>2. \A i \in Goroutines : Slot(GetNextFrameNumber + i) = Slot(head + i)
      BY SlotOfSum, GoroutinesType DEF GetNextFrameNumber, TypeInv, TypeOK
    <3> QED
      BY <2>4, <3>1, <3>2 DEF StartRound
  <2>5. CASE EndRound
    BY <2>5 DEF EndRound
  <2>6. CASE DispatcherNotify
    BY <2>6 DEF DispatcherNotify
  <2> QED
    BY <1>1, <2>1, <2>2, <2>3, <2>4, <2>5, <2>6 DEF DispatcherNext
<1>2. CASE BroadcasterNext
  BY <1>2, BroadcasterFrame DEF dispatcherVars, taskVars
<1>3. ASSUME NEW i \in Goroutines, TaskNext(i) PROVE RoundInv'
  <2>1. UNCHANGED <<dpc, isFirstRound, head>>
    BY <1>3, TaskFrame DEF dispatcherVars, bufferVars
  <2>2. gpc[i] # "idle"
    BY <1>3 DEF TaskNext, Pick, Repick, Register, Request, Finish, Timeout, Switch,
                PickPark
  <2>3. \A j \in Goroutines : gpc'[j] # "idle" =>
          gpc[j] # "idle" /\ startFrame'[j] = startFrame[j] /\ done'[j] = done[j]
    BY <1>3, <2>2 DEF TaskNext, Pick, Repick, Register, Request, Finish, Timeout,
         Switch, PickPark, taskVars, TypeInv, TypeOK
  <2> QED
    BY <2>1, <2>2, <2>3
<1>4. CASE EnvironmentNext
  BY <1>4, EnvironmentFrame DEF pipelineVars, dispatcherVars, taskVars
<1>5. CASE Answered
  BY <1>5, AnsweredFrame DEF pipelineVars, dispatcherVars, taskVars
<1> QED
  BY <1>1, <1>2, <1>3, <1>4, <1>5 DEF AnyNext, Next

\* RingInv: only the dispatcher moves head and only the broadcaster tail, so
\* neither takes away what the other has waited for.
LEMMA RingStep ==
  ASSUME TypeInv, RingInv, AnyNext PROVE RingInv'
<1> USE DEF RingInv, batchesToFetch, seconds
<1>0. /\ head \in Nat /\ tail \in Nat /\ MaxBatches \in Nat
      /\ FirstSecondsToBroadcast \in Nat /\ SecondsToBroadcast \in Nat
      /\ FirstSecondsToBroadcast > 0 /\ SecondsToBroadcast > 0
  BY MaxBatchesAssumption, OrchestratorAssumption DEF TypeInv, TypeOK
<1>1. CASE DispatcherNext
  <2>0. UNCHANGED <<tail, bpc, isFirstBroadcast>>
    BY <1>1, DispatcherFrame DEF broadcasterVars
  <2> USE <1>0, <2>0 DEF bufferVars
  <2>1. CASE DispatcherLoop
    BY <2>1 DEF DispatcherLoop
  <2>2. CASE WaitForRoom
    BY <2>2 DEF WaitForRoom, BufferPark, HasRoomFor, GetLengthInBatches, isBufferFull,
                frameBatchesRemainingToFullBuffer
  <2>3. CASE DispatcherWaitForAtLeastOne
    BY <2>3 DEF DispatcherWaitForAtLeastOne
  <2>4. CASE StartRound
    BY <2>4 DEF StartRound
  <2>5. CASE EndRound
    BY <2>5 DEF EndRound, AdvanceHead
  <2>6. CASE DispatcherNotify
    BY <2>6 DEF DispatcherNotify, BufferNotify
  <2> QED
    BY <1>1, <2>1, <2>2, <2>3, <2>4, <2>5, <2>6 DEF DispatcherNext
<1>2. CASE BroadcasterNext
  <2>0. UNCHANGED <<head, dpc, isFirstRound>>
    BY <1>2, BroadcasterFrame DEF dispatcherVars
  <2> USE <1>0, <2>0 DEF bufferVars
  <2>1. CASE BroadcasterLoop
    BY <2>1 DEF BroadcasterLoop
  <2>2. CASE WaitUntilBufferSizeEnoughForBroadcast
    BY <2>2 DEF WaitUntilBufferSizeEnoughForBroadcast, BufferPark,
                isBufferSizeEnoughForBroadcast, GetLengthInBatches
  <2>3. CASE BroadcasterWaitForAtLeastOne
    BY <2>3 DEF BroadcasterWaitForAtLeastOne
  <2>4. CASE GetFrames
    BY <2>4 DEF GetFrames
  <2>5. CASE SendFrames
    BY <2>5 DEF SendFrames
  <2>6. CASE RemoveFrames
    BY <2>6 DEF RemoveFrames, RemoveSentFramesFromBuffer, GetLengthInBatches
  <2>7. CASE BroadcasterNotify
    BY <2>7 DEF BroadcasterNotify, BufferNotify
  <2> QED
    BY <1>2, <2>1, <2>2, <2>3, <2>4, <2>5, <2>6, <2>7 DEF BroadcasterNext
<1>3. ASSUME NEW i \in Goroutines, TaskNext(i) PROVE RingInv'
  BY <1>3, TaskFrame DEF dispatcherVars, broadcasterVars, bufferVars
<1>4. CASE EnvironmentNext
  BY <1>4, EnvironmentFrame DEF pipelineVars, dispatcherVars, broadcasterVars
<1>5. CASE Answered
  BY <1>5, AnsweredFrame DEF pipelineVars, dispatcherVars, broadcasterVars
<1> QED
  BY <1>1, <1>2, <1>3, <1>4, <1>5 DEF AnyNext, Next

\* LengthInv: a copy has the length that was waited for, and a broadcast is
\* removed before the next one is waited for.
LEMMA LengthStep ==
  ASSUME TypeInv, RingInv, LengthInv, AnyNext PROVE LengthInv'
<1> USE DEF LengthInv, seconds
<1>0. /\ head \in Nat /\ tail \in Nat
      /\ seconds \in Nat /\ seconds > 0
      /\ frames \in Seq(Slots \cup {Blank}) /\ timeline \in Seq(Slots \cup {Blank})
  BY GoroutinesType DEF TypeInv, TypeOK
<1>1. CASE DispatcherNext
  BY <1>1, DispatcherFrame DEF broadcasterVars
<1>2. CASE BroadcasterNext
  <2> USE DEF bufferVars
  <2>1. CASE BroadcasterLoop
    BY <2>1 DEF BroadcasterLoop
  <2>2. CASE WaitUntilBufferSizeEnoughForBroadcast
    BY <2>2 DEF WaitUntilBufferSizeEnoughForBroadcast, BufferPark
  <2>3. CASE BroadcasterWaitForAtLeastOne
    BY <2>3 DEF BroadcasterWaitForAtLeastOne
  <2>4. CASE GetFrames
    <3>1. seconds <= head - tail
      BY <2>4 DEF GetFrames, RingInv
    <3>2. frames' = [k \in 1..seconds |-> buffer[Slot(tail + k - 1)]]
      BY <1>0, <2>4, <3>1
      DEF GetFrames, GetFramesToBroadcast, isBufferSizeEnoughForBroadcast,
          GetLengthInBatches
    <3>3. Len(frames') = seconds
      BY <1>0, <3>2
    <3> QED
      BY <2>4, <3>3 DEF GetFrames
  <2>5. CASE SendFrames
    <3>1. /\ Len(frames) = seconds /\ Len(timeline) = tail
          /\ timeline' = timeline \o frames /\ bpc' = "remove"
          /\ UNCHANGED <<tail, isFirstBroadcast>>
      BY <2>5 DEF SendFrames
    <3>2. Len(timeline \o frames) = Len(timeline) + Len(frames)
      BY <1>0, LengthOfConcat
    <3> QED
      BY <3>1, <3>2
  <2>6. CASE RemoveFrames
    <3>1. seconds <= head - tail
      BY <2>6 DEF RemoveFrames, RingInv
    <3>2. tail' = tail + seconds /\ Len(timeline) = tail + seconds
      BY <1>0, <2>6, <3>1
      DEF RemoveFrames, RemoveSentFramesFromBuffer, GetLengthInBatches
    <3> QED
      BY <2>6, <3>2 DEF RemoveFrames
  <2>7. CASE BroadcasterNotify
    BY <2>7 DEF BroadcasterNotify, BufferNotify
  <2> QED
    BY <1>2, <2>1, <2>2, <2>3, <2>4, <2>5, <2>6, <2>7 DEF BroadcasterNext
<1>3. ASSUME NEW i \in Goroutines, TaskNext(i) PROVE LengthInv'
  BY <1>3, TaskFrame DEF broadcasterVars, bufferVars
<1>4. CASE EnvironmentNext
  BY <1>4, EnvironmentFrame DEF pipelineVars, broadcasterVars
<1>5. CASE Answered
  BY <1>5, AnsweredFrame DEF pipelineVars, broadcasterVars
<1> QED
  BY <1>1, <1>2, <1>3, <1>4, <1>5 DEF AnyNext, Next

\* StreamInv: the frames copied at tail are the stored ones, and tail moves by
\* as many as were sent.
LEMMA StreamStep ==
  ASSUME TypeInv, RingInv, DoneInv, LengthInv, StoreInv, StreamInv, Next
  PROVE  StreamInv'
<1> USE DEF StreamInv, TimelineContiguous, seconds
<1>0. /\ head \in Nat /\ tail \in Nat
      /\ seconds \in Nat /\ seconds > 0
      /\ frames \in Seq(Slots \cup {Blank}) /\ timeline \in Seq(Slots \cup {Blank})
  BY GoroutinesType DEF TypeInv, TypeOK
<1>1. CASE DispatcherNext
  BY <1>1, DispatcherFrame DEF broadcasterVars
<1>2. CASE BroadcasterNext
  <2> USE DEF bufferVars
  <2>1. CASE BroadcasterLoop
    BY <2>1 DEF BroadcasterLoop
  <2>2. CASE WaitUntilBufferSizeEnoughForBroadcast
    BY <2>2 DEF WaitUntilBufferSizeEnoughForBroadcast, BufferPark
  <2>3. CASE BroadcasterWaitForAtLeastOne
    BY <2>3 DEF BroadcasterWaitForAtLeastOne
  <2>4. CASE GetFrames
    <3>1. seconds <= head - tail
      BY <2>4 DEF GetFrames, RingInv
    <3>2. frames' = [k \in 1..seconds |-> buffer[Slot(tail + k - 1)]]
      BY <1>0, <2>4, <3>1
      DEF GetFrames, GetFramesToBroadcast, isBufferSizeEnoughForBroadcast,
          GetLengthInBatches
    <3>3. \A k \in 1..seconds : tail + k - 1 \in Nat /\ tail + k - 1 < head
      BY <1>0, <3>1
    <3>4. \A k \in 1..seconds : buffer[Slot(tail + k - 1)] = Slot(tail + k - 1)
      BY <3>3 DEF DoneInv, StoreInv
    <3>5. \A k \in 1..seconds : frames'[k] = Slot(tail + k - 1)
      BY <3>2, <3>4
    <3> QED
      BY <2>4, <3>5 DEF GetFrames
  <2>5. CASE SendFrames
    <3>1. /\ Len(frames) = seconds /\ Len(timeline) = tail
          /\ \A k \in 1..seconds : frames[k] = Slot(tail + k - 1)
          /\ timeline' = timeline \o frames /\ bpc' = "remove"
          /\ UNCHANGED <<tail, isFirstBroadcast>>
      BY <2>5 DEF SendFrames, LengthInv
    <3>2. Len(timeline') = tail + seconds
      <4>1. Len(timeline \o frames) = Len(timeline) + Len(frames)
        BY <1>0, LengthOfConcat
      <4> QED
        BY <3>1, <4>1
    <3>3. ASSUME NEW j \in 1..(tail + seconds) PROVE timeline'[j] = Slot(j - 1)
      <4>1. CASE j <= tail
        BY <1>0, <3>1, <4>1
      <4>2. CASE j > tail
        <5>1. timeline'[j] = frames[j - tail] /\ j - tail \in 1..seconds
          BY <1>0, <3>1, <4>2
        <5>2. tail + (j - tail) - 1 = j - 1
          BY <1>0
        <5> QED
          BY <3>1, <5>1, <5>2
      <4> QED
        BY <1>0, <4>1, <4>2
    <3> QED
      BY <3>1, <3>2, <3>3
  <2>6. CASE RemoveFrames
    BY <2>6 DEF RemoveFrames
  <2>7. CASE BroadcasterNotify
    BY <2>7 DEF BroadcasterNotify, BufferNotify
  <2> QED
    BY <1>2, <2>1, <2>2, <2>3, <2>4, <2>5, <2>6, <2>7 DEF BroadcasterNext
<1>3. ASSUME NEW i \in Goroutines, TaskNext(i) PROVE StreamInv'
  BY <1>3, TaskFrame DEF broadcasterVars, bufferVars
<1>4. CASE EnvironmentNext
  BY <1>4, EnvironmentFrame DEF pipelineVars, broadcasterVars
<1> QED
  BY <1>1, <1>2, <1>3, <1>4 DEF Next

\* ParkedInv: a goroutine parks only after it found its predicate false under
\* the lock, and whoever makes it true has the Broadcast still before it.
LEMMA ParkedStep ==
  ASSUME TypeInv, RingInv, ParkedInv, AnyNext PROVE ParkedInv'
<1> USE DEF ParkedInv, NoLostWakeup, batchesToFetch, seconds, HasRoomFor,
            GetLengthInBatches, isBufferFull, frameBatchesRemainingToFullBuffer,
            isBufferSizeEnoughForBroadcast, Dispatcher, Broadcaster
<1>0. /\ head \in Nat /\ tail \in Nat /\ MaxBatches \in Nat
      /\ FirstSecondsToBroadcast \in Nat /\ SecondsToBroadcast \in Nat
      /\ FirstSecondsToBroadcast > 0 /\ SecondsToBroadcast > 0
      /\ tail <= head /\ head - tail <= MaxBatches
  BY MaxBatchesAssumption, OrchestratorAssumption DEF TypeInv, TypeOK, RingInv
<1>1. CASE DispatcherNext
  <2>0. UNCHANGED <<tail, bpc, isFirstBroadcast, clients>>
    BY <1>1, DispatcherFrame DEF broadcasterVars
  <2> USE <1>0, <2>0 DEF bufferVars, poolVars
  <2>1. CASE DispatcherLoop
    BY <2>1 DEF DispatcherLoop
  <2>2. CASE WaitForRoom
    BY <2>2 DEF WaitForRoom, BufferPark
  <2>3. CASE DispatcherWaitForAtLeastOne
    BY <2>3 DEF DispatcherWaitForAtLeastOne, PoolPark
  <2>4. CASE StartRound
    BY <2>4 DEF StartRound
  <2>5. CASE EndRound
    BY <2>5 DEF EndRound, AdvanceHead
  <2>6. CASE DispatcherNotify
    BY <2>6 DEF DispatcherNotify, BufferNotify
  <2> QED
    BY <1>1, <2>1, <2>2, <2>3, <2>4, <2>5, <2>6 DEF DispatcherNext
<1>2. CASE BroadcasterNext
  <2>0. UNCHANGED <<head, dpc, isFirstRound, clients>>
    BY <1>2, BroadcasterFrame DEF dispatcherVars
  <2> USE <1>0, <2>0 DEF bufferVars, poolVars
  <2>1. CASE BroadcasterLoop
    BY <2>1 DEF BroadcasterLoop
  <2>2. CASE WaitUntilBufferSizeEnoughForBroadcast
    BY <2>2 DEF WaitUntilBufferSizeEnoughForBroadcast, BufferPark
  <2>3. CASE BroadcasterWaitForAtLeastOne
    BY <2>3 DEF BroadcasterWaitForAtLeastOne, PoolPark
  <2>4. CASE GetFrames
    BY <2>4 DEF GetFrames
  <2>5. CASE SendFrames
    BY <2>5 DEF SendFrames
  <2>6. CASE RemoveFrames
    BY <2>6 DEF RemoveFrames, RemoveSentFramesFromBuffer
  <2>7. CASE BroadcasterNotify
    BY <2>7 DEF BroadcasterNotify, BufferNotify
  <2> QED
    BY <1>2, <2>1, <2>2, <2>3, <2>4, <2>5, <2>6, <2>7 DEF BroadcasterNext
<1>3. ASSUME NEW i \in Goroutines, TaskNext(i) PROVE ParkedInv'
  <2>1. UNCHANGED <<dispatcherVars, broadcasterVars, bufferVars, clients>>
    BY <1>3, TaskFrame
  <2>2. poolWait' = poolWait \/ clients = {}
    BY <1>3 DEF TaskNext, Pick, Repick, Register, Request, Finish, Timeout, Switch,
                PickPark, PoolPark, poolVars
  <2> QED
    BY <2>1, <2>2 DEF dispatcherVars, broadcasterVars, bufferVars
<1>4. CASE EnvironmentNext
  <2>1. UNCHANGED <<pipelineVars, head, tail, bufWait>>
    BY <1>4, EnvironmentFrame
  <2>2. poolWait' # {} => clients' = {}
    BY <1>4 DEF EnvironmentNext, Connect, Disconnect, HandleResult, Cancel, AddClient,
                RemoveClient, poolVars
  <2> QED
    BY <2>1, <2>2 DEF pipelineVars, dispatcherVars, broadcasterVars
<1>5. CASE Answered
  BY <1>5, AnsweredFrame DEF pipelineVars, dispatcherVars, broadcasterVars, poolVars
<1> QED
  BY <1>1, <1>2, <1>3, <1>4, <1>5 DEF AnyNext, Next

\* PacingInv: both loops move by the same sequence of amounts.
LEMMA PacingStep ==
  ASSUME TypeInv, RingInv, PacingInv, AnyNext PROVE PacingInv'
<1> USE DEF PacingInv, batchesToFetch, seconds
<1>0. /\ head \in Nat /\ tail \in Nat
      /\ FirstSecondsToBroadcast \in Nat /\ SecondsToBroadcast \in Nat
      /\ isFirstRound \in BOOLEAN /\ isFirstBroadcast \in BOOLEAN
  BY MaxBatchesAssumption, OrchestratorAssumption DEF TypeInv, TypeOK
<1>1. \A k \in Nat : k + 1 \in Nat /\
        FirstSecondsToBroadcast + k * SecondsToBroadcast + SecondsToBroadcast
          = FirstSecondsToBroadcast + (k + 1) * SecondsToBroadcast
  BY <1>0
<1>2. FirstSecondsToBroadcast = FirstSecondsToBroadcast + 0 * SecondsToBroadcast
  BY <1>0
<1>3. CASE DispatcherNext
  <2>0. UNCHANGED <<tail, bpc, isFirstBroadcast>>
    BY <1>3, DispatcherFrame DEF broadcasterVars
  <2>1. CASE EndRound
    <3>1. /\ head' = head + batchesToFetch /\ dpc = "join" /\ dpc' = "notify"
          /\ UNCHANGED isFirstRound
      BY <2>1 DEF EndRound, AdvanceHead
    <3>2. CASE isFirstRound
      BY <1>0, <2>0, <3>1, <3>2
    <3>3. CASE ~ isFirstRound
      <4>1. PICK k \in Nat :
              head = FirstSecondsToBroadcast + k * SecondsToBroadcast
        BY <3>3
      <4>2. head' = FirstSecondsToBroadcast + (k + 1) * SecondsToBroadcast
        BY <1>1, <3>1, <3>3, <4>1
      <4> QED
        BY <1>1, <2>0, <3>1, <3>3, <4>2
    <3> QED
      BY <3>2, <3>3
  <2>2. CASE DispatcherNotify
    BY <1>0, <1>2, <2>0, <2>2 DEF DispatcherNotify, BufferNotify
  <2>3. CASE ~ EndRound /\ ~ DispatcherNotify
    BY <1>3, <2>0, <2>3 DEF DispatcherNext, DispatcherLoop, WaitForRoom, BufferPark,
         DispatcherWaitForAtLeastOne, StartRound, bufferVars
  <2> QED
    BY <2>1, <2>2, <2>3
<1>4. CASE BroadcasterNext
  <2>0. UNCHANGED <<head, dpc, isFirstRound>>
    BY <1>4, BroadcasterFrame DEF dispatcherVars
  <2>1. CASE RemoveFrames
    <3>1. seconds <= head - tail
      BY <2>1 DEF RemoveFrames, RingInv
    <3>2. tail' = tail + seconds /\ bpc = "remove" /\ bpc' = "notify"
          /\ UNCHANGED isFirstBroadcast
      BY <1>0, <2>1, <3>1
      DEF RemoveFrames, RemoveSentFramesFromBuffer, GetLengthInBatches
    <3>3. CASE isFirstBroadcast
      BY <1>0, <2>0, <3>2, <3>3
    <3>4. CASE ~ isFirstBroadcast
      <4>1. PICK k \in Nat :
              tail = FirstSecondsToBroadcast + k * SecondsToBroadcast
        BY <3>4
      <4>2. tail' = FirstSecondsToBroadcast + (k + 1) * SecondsToBroadcast
        BY <1>1, <3>2, <3>4, <4>1
      <4> QED
        BY <1>1, <2>0, <3>2, <3>4, <4>2
    <3> QED
      BY <3>3, <3>4
  <2>2. CASE BroadcasterNotify
    BY <1>0, <1>2, <2>0, <2>2 DEF BroadcasterNotify, BufferNotify
  <2>3. CASE ~ RemoveFrames /\ ~ BroadcasterNotify
    BY <1>4, <2>0, <2>3 DEF BroadcasterNext, BroadcasterLoop, BufferPark,
         WaitUntilBufferSizeEnoughForBroadcast, BroadcasterWaitForAtLeastOne,
         GetFrames, SendFrames, bufferVars
  <2> QED
    BY <2>1, <2>2, <2>3
<1>5. ASSUME NEW i \in Goroutines, TaskNext(i) PROVE PacingInv'
  BY <1>5, TaskFrame DEF dispatcherVars, broadcasterVars, bufferVars
<1>6. CASE EnvironmentNext
  BY <1>6, EnvironmentFrame DEF pipelineVars, dispatcherVars, broadcasterVars
<1>7. CASE Answered
  BY <1>7, AnsweredFrame DEF pipelineVars, dispatcherVars, broadcasterVars
<1> QED
  BY <1>3, <1>4, <1>5, <1>6, <1>7 DEF AnyNext, Next

\* With a ring at least as large as a round, the dispatcher has room or the
\* broadcaster has frames whenever both are about to look.
LEMMA OneLoopCanMove ==
  ASSUME TypeInv, RingInv, PacingInv, dpc = "room", bpc = "frames"
  PROVE  HasRoomFor(batchesToFetch) \/ isBufferSizeEnoughForBroadcast(seconds)
<1> DEFINE F == FirstSecondsToBroadcast
           S == SecondsToBroadcast
<1>0. /\ head \in Nat /\ tail \in Nat /\ MaxBatches \in Nat /\ tail <= head
      /\ F \in Nat /\ S \in Nat /\ F > 0 /\ S > 0 /\ F <= MaxBatches /\ S <= MaxBatches
  BY MaxBatchesAssumption, OrchestratorAssumption DEF TypeInv, TypeOK, RingInv
<1> HIDE DEF F, S
<1>1. CASE isFirstRound
  <2>1. head = 0 /\ tail = 0 /\ batchesToFetch = F
    BY <1>0, <1>1 DEF PacingInv, batchesToFetch, F
  <2> QED
    BY <1>0, <2>1 DEF HasRoomFor, frameBatchesRemainingToFullBuffer, isBufferFull,
                      GetLengthInBatches
<1>2. CASE ~ isFirstRound /\ isFirstBroadcast
  <2>1. PICK k \in Nat : head = F + k * S
    BY <1>2 DEF PacingInv, F, S
  <2>2. k * S >= 0
    BY <1>0
  <2>3. tail = 0 /\ seconds = F
    BY <1>2 DEF PacingInv, seconds, F
  <2> QED
    BY <1>0, <2>1, <2>2, <2>3 DEF isBufferSizeEnoughForBroadcast, GetLengthInBatches
<1>3. CASE ~ isFirstRound /\ ~ isFirstBroadcast
  <2>1. PICK k \in Nat : head = F + k * S
    BY <1>3 DEF PacingInv, F, S
  <2>2. PICK j \in Nat : tail = F + j * S
    BY <1>3 DEF PacingInv, F, S
  <2>3. batchesToFetch = S /\ seconds = S
    BY <1>3 DEF batchesToFetch, seconds, S
  <2>4. head - tail = (k - j) * S /\ k - j \in Int
    BY <1>0, <2>1, <2>2
  <2>5. CASE k - j >= 1
    <3>1. (k - j) * S >= S
      BY <1>0, <2>5
    <3> QED
      BY <1>0, <2>3, <2>4, <3>1 DEF isBufferSizeEnoughForBroadcast, GetLengthInBatches
  <2>6. CASE k - j <= 0
    <3>1. (k - j) * S <= 0
      BY <1>0, <2>6
    <3>2. head - tail = 0
      BY <1>0, <2>4, <3>1
    <3> QED
      BY <1>0, <2>3, <3>2 DEF HasRoomFor, frameBatchesRemainingToFullBuffer,
           isBufferFull, GetLengthInBatches
  <2> QED
    BY <2>4, <2>5, <2>6
<1> QED
  BY <1>1, <1>2, <1>3

\* LoopsNeverBothParked: the second to park finds its predicate true.
LEMMA BothParkedStep ==
  ASSUME TypeInv, RingInv, PacingInv, ParkedInv, LoopsNeverBothParked, AnyNext
  PROVE  LoopsNeverBothParked'
<1> USE DEF LoopsNeverBothParked
<1>1. CASE WaitForRoom
  <2> SUFFICES ASSUME Broadcaster \in bufWait, ~ HasRoomFor(batchesToFetch) PROVE FALSE
    BY <1>1 DEF WaitForRoom, BufferPark, bufferVars, Dispatcher, Broadcaster
  <2>1. dpc = "room" /\ bpc = "frames" /\ ~ isBufferSizeEnoughForBroadcast(seconds)
    BY <1>1 DEF WaitForRoom, ParkedInv, NoLostWakeup
  <2> QED
    BY <2>1, OneLoopCanMove
<1>2. CASE WaitUntilBufferSizeEnoughForBroadcast
  <2> SUFFICES ASSUME Dispatcher \in bufWait, ~ isBufferSizeEnoughForBroadcast(seconds)
               PROVE  FALSE
    BY <1>2 DEF WaitUntilBufferSizeEnoughForBroadcast, BufferPark, bufferVars,
                Dispatcher, Broadcaster
  <2>1. dpc = "room" /\ bpc = "frames" /\ ~ HasRoomFor(batchesToFetch)
    BY <1>2 DEF WaitUntilBufferSizeEnoughForBroadcast, ParkedInv, NoLostWakeup
  <2> QED
    BY <2>1, OneLoopCanMove
<1>3. CASE DispatcherNext /\ ~ WaitForRoom
  BY <1>3 DEF DispatcherNext, DispatcherLoop, DispatcherWaitForAtLeastOne, StartRound,
              EndRound, DispatcherNotify, AdvanceHead, BufferNotify, bufferVars
<1>4. CASE BroadcasterNext /\ ~ WaitUntilBufferSizeEnoughForBroadcast
  BY <1>4 DEF BroadcasterNext, BroadcasterLoop, BroadcasterWaitForAtLeastOne,
              GetFrames, SendFrames, RemoveFrames, BroadcasterNotify,
              RemoveSentFramesFromBuffer, BufferNotify, bufferVars
<1>5. ASSUME NEW i \in Goroutines, TaskNext(i) PROVE LoopsNeverBothParked'
  BY <1>5, TaskFrame DEF bufferVars
<1>6. CASE EnvironmentNext
  BY <1>6, EnvironmentFrame
<1>7. CASE Answered
  BY <1>7, AnsweredFrame
<1> QED
  BY <1>1, <1>2, <1>3, <1>4, <1>5, <1>6, <1>7 DEF AnyNext, Next

----------------------------------------------------------------------------
(* The registry and the done channels.                                     *)

\* Goroutine i now holds its task under a fresh id of client c: what Register
\* and Switch have in common.
TakesKey(i, c) ==
  LET newKey == <<c, numRenderTasks[c]>>
  IN  /\ c \in ClientIDs
      /\ Registered' = Registered \cup {i}
      /\ worker'[i] = c /\ renderTaskID'[i] = numRenderTasks[c]
      /\ \A j \in Registered : j # i =>
           worker'[j] = worker[j] /\ renderTaskID'[j] = renderTaskID[j]
      /\ DOMAIN frameBatches' = {Key(j) : j \in Registered \ {i}} \cup {newKey}
      /\ frameBatches'[newKey].start = startFrame[i]
      /\ frameBatches'[newKey].done = done[i]
      /\ frameBatches'[newKey].completed =
           (i \in Registered /\ frameBatches[Key(i)].completed)
      /\ \A j \in Registered : j # i => frameBatches'[Key(j)] = frameBatches[Key(j)]
      /\ UNCHANGED <<startFrame, done, requests>>
      /\ numRenderTasks' = [numRenderTasks EXCEPT ![c] = numRenderTasks[c] + 1]

\* No goroutine holds the next id of any client.
LEMMA NextIDFresh ==
  ASSUME TypeInv, RegistryInv, NEW c \in ClientIDs, NEW j \in Registered
  PROVE  Key(j) # <<c, numRenderTasks[c]>>
<1> SUFFICES ASSUME worker[j] = c, renderTaskID[j] = numRenderTasks[c] PROVE FALSE
  BY DEF Key
<1>1. renderTaskID[j] < numRenderTasks[worker[j]] /\ numRenderTasks[c] \in Nat
  BY DEF RegistryInv, TypeInv, TypeOK
<1> QED
  BY <1>1

\* Register takes a key.
LEMMA RegisterEffect ==
  ASSUME TypeInv, RegistryInv, NEW i \in Goroutines, Register(i)
  PROVE  TakesKey(i, worker[i]) /\ i \notin Registered
<1> DEFINE newKey == <<worker[i], numRenderTasks[worker[i]]>>
<1>1. worker[i] \in ClientIDs
  BY DEF Register, TypeInv, TypeOK, LocalsAssigned
<1>2. DOMAIN frameBatches = {Key(j) : j \in Registered}
  BY DEF RegistryInv, TasksTracked, Key
<1>3. \A j \in Registered : Key(j) # newKey
  BY <1>1, NextIDFresh
<1>4. /\ i \notin Registered /\ Registered' = Registered \cup {i}
      /\ UNCHANGED worker /\ renderTaskID'[i] = numRenderTasks[worker[i]]
      /\ \A j \in Registered : j # i => renderTaskID'[j] = renderTaskID[j]
  BY DEF Register, Registered, NewRenderTaskID, TypeInv, TypeOK
<1>5. /\ frameBatches' = Put(frameBatches, newKey,
                             NewFrameBatchMetadata(startFrame[i], done[i]))
      /\ UNCHANGED <<startFrame, done, requests>>
      /\ numRenderTasks' =
           [numRenderTasks EXCEPT ![worker[i]] = numRenderTasks[worker[i]] + 1]
  BY DEF Register, AddFrameBatch, NewRenderTaskID, GenerateNewRenderTaskID
<1>6. /\ DOMAIN frameBatches' = DOMAIN frameBatches \cup {newKey}
      /\ frameBatches'[newKey] =
           [start |-> startFrame[i], completed |-> FALSE, done |-> done[i]]
      /\ \A k \in DOMAIN frameBatches : k # newKey => frameBatches'[k] = frameBatches[k]
  BY <1>5 DEF Put, NewFrameBatchMetadata
<1>7. DOMAIN frameBatches' = {Key(j) : j \in Registered \ {i}} \cup {newKey}
  BY <1>2, <1>4, <1>6
<1>8. \A j \in Registered : frameBatches'[Key(j)] = frameBatches[Key(j)]
  BY <1>2, <1>3, <1>6
<1>9. frameBatches'[newKey].completed = (i \in Registered /\ frameBatches[Key(i)].completed)
  <2>1. frameBatches'[newKey].completed = FALSE
    BY <1>6
  <2>2. (i \in Registered /\ frameBatches[Key(i)].completed) = FALSE
    BY <1>4
  <2> QED
    BY <2>1, <2>2
<1>10. /\ frameBatches'[newKey].start = startFrame[i]
       /\ frameBatches'[newKey].done = done[i]
  BY <1>6
<1> QED
  BY <1>1, <1>4, <1>5, <1>7, <1>8, <1>9, <1>10 DEF TakesKey

\* Switch takes a key, and drops the one it had.
LEMMA SwitchEffect ==
  ASSUME TypeInv, RegistryInv, NEW i \in Goroutines, Switch(i)
  PROVE  TakesKey(i, next[i]) /\ i \in Registered
<1> DEFINE newKey == <<next[i], numRenderTasks[next[i]]>>
           moved == Put(frameBatches, newKey, frameBatches[Key(i)])
<1>1. next[i] \in ClientIDs /\ next[i] # worker[i] /\ i \in Registered
  BY DEF Switch, TypeInv, TypeOK, LocalsAssigned, Registered
<1>2. /\ DOMAIN frameBatches = {Key(j) : j \in Registered}
      /\ \A j \in Registered : j # i => Key(j) # Key(i)
      /\ frameBatches[Key(i)].start = startFrame[i]
      /\ frameBatches[Key(i)].done = done[i]
  BY <1>1 DEF RegistryInv, TasksTracked, Key
<1>3. \A j \in Registered : Key(j) # newKey
  BY <1>1, NextIDFresh
<1>4. /\ Registered' = Registered
      /\ worker'[i] = next[i] /\ renderTaskID'[i] = numRenderTasks[next[i]]
      /\ \A j \in Registered : j # i =>
           worker'[j] = worker[j] /\ renderTaskID'[j] = renderTaskID[j]
  BY DEF Switch, Registered, NewRenderTaskID, TypeInv, TypeOK
<1>5. /\ frameBatches' = Restrict(moved, DOMAIN moved \ {Key(i)})
      /\ UNCHANGED <<startFrame, done, requests>>
      /\ numRenderTasks' =
           [numRenderTasks EXCEPT ![next[i]] = numRenderTasks[next[i]] + 1]
  BY <1>1, <1>2 DEF Switch, SwitchRenderTaskExecutor, Lookup, Key, NewRenderTaskID,
                    GenerateNewRenderTaskID
<1>6. /\ DOMAIN moved = DOMAIN frameBatches \cup {newKey}
      /\ moved[newKey] = frameBatches[Key(i)]
      /\ \A k \in DOMAIN frameBatches : k # newKey => moved[k] = frameBatches[k]
  BY DEF Put
<1> HIDE DEF moved
<1>7. newKey # Key(i)
  BY <1>1, <1>3
<1>8. /\ DOMAIN frameBatches' = (DOMAIN frameBatches \cup {newKey}) \ {Key(i)}
      /\ frameBatches'[newKey] = frameBatches[Key(i)]
      /\ \A k \in DOMAIN frameBatches :
           k # newKey /\ k # Key(i) => frameBatches'[k] = frameBatches[k]
  BY <1>5, <1>6, <1>7 DEF Restrict
<1> HIDE DEF newKey
<1>9. DOMAIN frameBatches' = {Key(j) : j \in Registered \ {i}} \cup {newKey}
  BY <1>1, <1>2, <1>3, <1>8
<1>10. \A j \in Registered : j # i => frameBatches'[Key(j)] = frameBatches[Key(j)]
  BY <1>1, <1>2, <1>3, <1>8
<1>11. Registered' = Registered \cup {i}
  BY <1>1, <1>4
<1>12. frameBatches'[newKey].completed = (i \in Registered /\ frameBatches[Key(i)].completed)
  <2>1. frameBatches[Key(i)].completed \in BOOLEAN
    BY <1>1, <1>2 DEF TypeInv, TypeOK, FrameBatchMetadata
  <2> QED
    BY <1>1, <1>8, <2>1
<1> QED
  BY <1>1, <1>2, <1>4, <1>5, <1>8, <1>9, <1>10, <1>11, <1>12 DEF TakesKey, newKey

\* Taking a fresh key keeps the registry exact.
LEMMA TakesKeyKeepsRegistry ==
  ASSUME TypeInv, RegistryInv, NEW i \in Goroutines, NEW c, TakesKey(i, c)
  PROVE  RegistryInv'
<1> DEFINE newKey == <<c, numRenderTasks[c]>>
<1>1. c \in ClientIDs /\ numRenderTasks \in [ClientIDs -> Nat]
  BY DEF TakesKey, TypeInv, TypeOK
<1>2. \A j \in Registered : Key(j) # newKey
  BY <1>1, NextIDFresh
<1>3. /\ worker'[i] = c /\ renderTaskID'[i] = numRenderTasks[c]
      /\ Registered' = Registered \cup {i}
      /\ \A j \in Registered : j # i =>
           worker'[j] = worker[j] /\ renderTaskID'[j] = renderTaskID[j]
      /\ UNCHANGED <<startFrame, done, requests>>
      /\ numRenderTasks' = [numRenderTasks EXCEPT ![c] = numRenderTasks[c] + 1]
  BY DEF TakesKey
<1>4. Key(i)' = newKey /\ \A j \in Registered : j # i => Key(j)' = Key(j)
  BY <1>3 DEF Key
<1>5. /\ DOMAIN frameBatches' = {Key(j) : j \in Registered \ {i}} \cup {newKey}
      /\ frameBatches'[newKey].start = startFrame[i]
      /\ frameBatches'[newKey].done = done[i]
      /\ \A j \in Registered : j # i => frameBatches'[Key(j)] = frameBatches[Key(j)]
  BY DEF TakesKey
<1>6. /\ \A j \in Registered : frameBatches[Key(j)].start = startFrame[j]
      /\ \A j \in Registered : frameBatches[Key(j)].done = done[j]
      /\ \A j, k \in Registered : Key(j) = Key(k) => j = k
  BY DEF RegistryInv, TasksTracked, Key
<1>7. TasksTracked'
  <2>1. DOMAIN frameBatches' = {Key(j)' : j \in Registered'}
    BY <1>3, <1>4, <1>5
  <2>2. \A j \in Registered' : /\ frameBatches'[Key(j)'].start = startFrame[j]
                               /\ frameBatches'[Key(j)'].done = done[j]
    BY <1>3, <1>4, <1>5, <1>6
  <2>3. \A j, k \in Registered' : Key(j)' = Key(k)' => j = k
    BY <1>2, <1>3, <1>4, <1>6
  <2> QED
    BY <1>3, <2>1, <2>2, <2>3 DEF TasksTracked, Key
<1>8. \A j \in Registered' : renderTaskID'[j] < numRenderTasks'[worker'[j]]
  <2>1. \A j \in Registered : /\ renderTaskID[j] < numRenderTasks[worker[j]]
                              /\ worker[j] \in ClientIDs /\ renderTaskID[j] \in Nat
    BY DEF RegistryInv, Registered, TypeInv, TypeOK, LocalsAssigned
  <2> QED
    BY <1>1, <1>3, <2>1
<1>9. \A r \in requests : /\ r.id < numRenderTasks[r.client]
                          /\ r.client \in ClientIDs /\ r.id \in Nat
  BY DEF RegistryInv, TypeInv, TypeOK, Requests
<1>10. \A r \in requests' : r.id < numRenderTasks'[r.client]
  BY <1>1, <1>3, <1>9
<1>11. ASSUME NEW r \in requests', NEW j \in Registered',
              r.client = worker'[j], r.id = renderTaskID'[j]
       PROVE  r.start = startFrame'[j]
  <2>1. j # i
    BY <1>1, <1>3, <1>9, <1>11
  <2> QED
    BY <1>3, <1>11, <2>1 DEF RegistryInv
<1> QED
  BY <1>7, <1>8, <1>10, <1>11 DEF RegistryInv

\* Finish drops the goroutine's own entry.
LEMMA FinishEffect ==
  ASSUME TypeInv, RegistryInv, NEW i \in Goroutines, Finish(i)
  PROVE  /\ i \in Registered /\ Registered' = Registered \ {i}
         /\ \A j \in Registered : j # i =>
              /\ worker'[j] = worker[j] /\ renderTaskID'[j] = renderTaskID[j]
              /\ startFrame'[j] = startFrame[j] /\ done'[j] = done[j]
         /\ DOMAIN frameBatches' = DOMAIN frameBatches \ {Key(i)}
         /\ \A k \in DOMAIN frameBatches \ {Key(i)} : frameBatches'[k] = frameBatches[k]
         /\ UNCHANGED <<requests, numRenderTasks>>
<1>1. frameBatches' = Restrict(frameBatches, DOMAIN frameBatches \ {Key(i)})
  BY DEF Finish, DeleteRenderTask, Key
<1>2. /\ DOMAIN frameBatches' = DOMAIN frameBatches \ {Key(i)}
      /\ \A k \in DOMAIN frameBatches \ {Key(i)} : frameBatches'[k] = frameBatches[k]
  BY <1>1 DEF Restrict
<1> QED
  BY <1>2 DEF Finish, Registered, Key, TypeInv, TypeOK, poolVars

\* Finish keeps the registry exact.
LEMMA FinishKeepsRegistry ==
  ASSUME TypeInv, RegistryInv, NEW i \in Goroutines, Finish(i)
  PROVE  RegistryInv'
<1>1. /\ i \in Registered /\ Registered' = Registered \ {i}
      /\ \A j \in Registered : j # i =>
           /\ worker'[j] = worker[j] /\ renderTaskID'[j] = renderTaskID[j]
           /\ startFrame'[j] = startFrame[j] /\ done'[j] = done[j]
      /\ DOMAIN frameBatches' = DOMAIN frameBatches \ {Key(i)}
      /\ \A k \in DOMAIN frameBatches \ {Key(i)} : frameBatches'[k] = frameBatches[k]
      /\ UNCHANGED <<requests, numRenderTasks>>
  BY FinishEffect
<1>2. /\ \A j \in Registered : /\ frameBatches[Key(j)].start = startFrame[j]
                                /\ frameBatches[Key(j)].done = done[j]
      /\ \A j, k \in Registered : Key(j) = Key(k) => j = k
      /\ DOMAIN frameBatches = {Key(j) : j \in Registered}
  BY DEF RegistryInv, TasksTracked, Key
<1>3. \A j \in Registered' : Key(j)' = Key(j)
  BY <1>1 DEF Key
<1>4. TasksTracked'
  <2>1. DOMAIN frameBatches' = {Key(j)' : j \in Registered'}
    BY <1>1, <1>2, <1>3
  <2>2. \A j \in Registered' : /\ frameBatches'[Key(j)'].start = startFrame'[j]
                               /\ frameBatches'[Key(j)'].done = done'[j]
    BY <1>1, <1>2, <1>3
  <2>3. \A j, k \in Registered' : Key(j)' = Key(k)' => j = k
    BY <1>1, <1>2, <1>3
  <2> QED
    BY <2>1, <2>2, <2>3 DEF TasksTracked, Key
<1> QED
  BY <1>1, <1>4 DEF RegistryInv

\* A result is stored only for the one goroutine that waits for it: its entry
\* becomes completed, its channel is closed, and nothing panics.
LEMMA ResultEffect ==
  ASSUME CoreInv, NEW c, NEW id, NEW slot, AnyResult(c, id, slot)
  PROVE  \/ UNCHANGED <<buffer, frameBatches, closed, panicked>>
         \/ \E i \in Registered :
              /\ Key(i) = <<c, id>> /\ Key(i) \in DOMAIN frameBatches
              /\ buffer' = [buffer EXCEPT ![Slot(head + i)] = slot]
              /\ frameBatches' = [frameBatches EXCEPT ![Key(i)].completed = TRUE]
              /\ closed' = closed \cup {head + i} /\ head + i \notin closed
              /\ UNCHANGED panicked
<1> DEFINE key == <<c, id>>
<1>1. CASE key \in DOMAIN frameBatches /\ ~ frameBatches[key].completed
  <2>1. PICK i \in Registered : key = Key(i)
    BY <1>1 DEF CoreInv, RegistryInv, TasksTracked, Key
  <2>2. frameBatches[key].start = startFrame[i] /\ frameBatches[key].done = done[i]
    BY <2>1 DEF CoreInv, RegistryInv, TasksTracked, Key
  <2>3. startFrame[i] = Slot(head + i) /\ done[i] = head + i /\ done[i] \notin closed
    BY <1>1, <2>1 DEF CoreInv, RoundInv, DoneInv, Registered
  <2>4. head + i # NilChannel
    BY <2>1, GoroutinesType DEF CoreInv, TypeInv, TypeOK, Registered, NilChannel
  <2>5. /\ buffer' = [buffer EXCEPT ![Slot(head + i)] = slot]
        /\ frameBatches' = [frameBatches EXCEPT ![Key(i)].completed = TRUE]
        /\ closed' = closed \cup {head + i}
        /\ panicked' = (panicked \/ head + i = NilChannel \/ head + i \in closed)
    BY <1>1, <2>1, <2>2, <2>3
    DEF AnyResult, SaveRenderResult, AddFramesToBuffer, CloseChannel
  <2>6. panicked' = panicked
    BY <2>3, <2>4, <2>5 DEF CoreInv, TypeInv, TypeOK
  <2> QED
    BY <1>1, <2>1, <2>3, <2>5, <2>6
<1>2. CASE ~ (key \in DOMAIN frameBatches /\ ~ frameBatches[key].completed)
  BY <1>2 DEF AnyResult, SaveRenderResult, bufferVars
<1> QED
  BY <1>1, <1>2

\* StoreInv: a result is copied to the slot it was rendered for.
LEMMA StoreStep == ASSUME Inv, Next PROVE StoreInv'
<1> USE DEF Inv, CoreInv, StoreInv
<1>1. CASE DispatcherNext
  BY <1>1, DispatcherFrame DEF mapVars
<1>2. CASE BroadcasterNext
  BY <1>2, BroadcasterFrame DEF mapVars
<1>3. ASSUME NEW i \in Goroutines, TaskNext(i) PROVE StoreInv'
  BY <1>3, TaskFrame DEF bufferVars
<1>4. ASSUME NEW r \in requests, HandleResult(r) PROVE StoreInv'
  <2>1. CASE UNCHANGED <<buffer, frameBatches, closed, panicked>>
    BY <2>1
  <2>2. ASSUME NEW i \in Registered,
               Key(i) = <<r.client, r.id>>,
               buffer' = [buffer EXCEPT ![Slot(head + i)] = r.start],
               closed' = closed \cup {head + i}
        PROVE  StoreInv'
    <3>1. r.start = startFrame[i] /\ startFrame[i] = Slot(head + i)
      BY <2>2 DEF RegistryInv, RoundInv, Registered, Key
    <3>2. head + i \in Int /\ \A p \in closed : p \in Int
      BY GoroutinesType DEF Registered, TypeInv, TypeOK, DoneInv
    <3> QED
      BY <2>2, <3>1, <3>2, SlotType DEF TypeInv, TypeOK
  <2>3. AnyResult(r.client, r.id, r.start)
    BY <1>4, HandlingIsAnswered
  <2> QED
    BY <2>1, <2>2, <2>3, ResultEffect
<1>5. CASE EnvironmentNext /\ ~ \E r \in requests : HandleResult(r)
  BY <1>5 DEF EnvironmentNext, Connect, Disconnect, Cancel, mapVars, bufferVars
<1> QED
  BY <1>1, <1>2, <1>3, <1>4, <1>5 DEF Next

\* NoPanic: what is removed was waited for, and a channel is closed once.
LEMMA PanicStep == ASSUME CoreInv, AnyNext PROVE NoPanic'
<1> USE DEF CoreInv, NoPanic
<1>1. CASE DispatcherNext
  BY <1>1, DispatcherFrame
<1>2. CASE BroadcasterNext
  <2>1. CASE RemoveFrames
    <3>1. seconds <= head - tail /\ seconds \in Nat /\ head \in Nat /\ tail \in Nat
      BY <2>1, GoroutinesType DEF RemoveFrames, RingInv, TypeInv, TypeOK
    <3> QED
      BY <2>1, <3>1 DEF RemoveFrames, RemoveSentFramesFromBuffer, GetLengthInBatches
  <2>2. CASE ~ RemoveFrames
    BY <1>2, <2>2 DEF BroadcasterNext, BroadcasterLoop, GetFrames, SendFrames,
         WaitUntilBufferSizeEnoughForBroadcast, BroadcasterWaitForAtLeastOne,
         BroadcasterNotify, BufferPark, BufferNotify
  <2> QED
    BY <2>1, <2>2
<1>3. ASSUME NEW i \in Goroutines, TaskNext(i) PROVE NoPanic'
  BY <1>3, TaskFrame
<1>4. CASE Answered
  BY <1>4, ResultEffect DEF Answered
<1>5. CASE EnvironmentNext /\ ~ \E r \in requests : HandleResult(r)
  BY <1>5 DEF EnvironmentNext, Connect, Disconnect, Cancel
<1> QED
  BY <1>1, <1>2, <1>3, <1>4, <1>5, HandlingIsAnswered DEF AnyNext, Next

\* RegistryInv: ids are never reused, so keys never collide.
LEMMA RegistryStep == ASSUME CoreInv, AnyNext PROVE RegistryInv'
<1>0. TypeInv /\ RegistryInv /\ RoundInv
  BY DEF CoreInv
<1>1. CASE DispatcherNext
  <2>1. UNCHANGED <<worker, renderTaskID, frameBatches, numRenderTasks, requests>>
    BY <1>1, DispatcherFrame DEF mapVars
  <2>2. CASE StartRound
    <3>1. Registered = {} /\ Registered' = {}
      BY <1>0, <2>2 DEF StartRound, RoundInv, Registered
    <3> QED
      BY <1>0, <2>1, <3>1 DEF RegistryInv, TasksTracked
  <2>3. CASE ~ StartRound
    <3>1. UNCHANGED <<gpc, startFrame, done>>
      BY <1>1, <2>3 DEF DispatcherNext, DispatcherLoop, WaitForRoom, EndRound,
           DispatcherWaitForAtLeastOne, DispatcherNotify, taskVars
    <3> QED
      BY <1>0, <2>1, <3>1 DEF RegistryInv, TasksTracked, Registered
  <2> QED
    BY <2>2, <2>3
<1>2. CASE BroadcasterNext
  BY <1>0, <1>2, BroadcasterFrame
  DEF RegistryInv, TasksTracked, mapVars, taskVars, Registered
<1>3. ASSUME NEW i \in Goroutines, TaskNext(i) PROVE RegistryInv'
  <2>1. CASE Register(i)
    BY <1>0, <2>1, RegisterEffect, TakesKeyKeepsRegistry
  <2>2. CASE Switch(i)
    BY <1>0, <2>2, SwitchEffect, TakesKeyKeepsRegistry
  <2>3. CASE Finish(i)
    BY <1>0, <2>3, FinishKeepsRegistry
  <2>4. CASE Request(i)
    <3>1. /\ UNCHANGED <<worker, renderTaskID, startFrame, done, frameBatches,
                         numRenderTasks>>
          /\ i \in Registered /\ Registered' = Registered
      BY <1>0, <2>4 DEF Request, Registered, mapVars, TypeInv, TypeOK
    <3>2. requests' \subseteq requests \cup
            {[client |-> worker[i], id |-> renderTaskID[i], start |-> startFrame[i]]}
      BY <2>4 DEF Request, RequestWork
    <3>3. ASSUME NEW r \in requests', r \notin requests
          PROVE  r.client = worker[i] /\ r.id = renderTaskID[i] /\ r.start = startFrame[i]
      BY <3>2, <3>3
    <3>4. TasksTracked'
      BY <1>0, <3>1 DEF RegistryInv, TasksTracked
    <3>5. \A r \in requests' : r.id < numRenderTasks'[r.client]
      BY <1>0, <3>1, <3>3 DEF RegistryInv
    <3>6. ASSUME NEW r \in requests', NEW j \in Registered',
                 r.client = worker'[j], r.id = renderTaskID'[j]
          PROVE  r.start = startFrame'[j]
      <4>1. CASE r \in requests
        BY <1>0, <3>1, <3>6, <4>1 DEF RegistryInv
      <4>2. CASE r \notin requests
        <5>1. worker[j] = worker[i] /\ renderTaskID[j] = renderTaskID[i]
          BY <3>1, <3>3, <3>6, <4>2
        <5>2. j = i
          BY <1>0, <3>1, <5>1 DEF RegistryInv, TasksTracked
        <5> QED
          BY <3>1, <3>3, <4>2, <5>2
      <4> QED
        BY <4>1, <4>2
    <3> QED
      BY <1>0, <3>1, <3>4, <3>5, <3>6 DEF RegistryInv
  <2>5. CASE (\E c \in clients : Pick(i, c) \/ Repick(i, c)) \/ Timeout(i) \/ PickPark(i)
    <3>1. /\ UNCHANGED <<renderTaskID, startFrame, done, frameBatches, numRenderTasks,
                         requests>>
          /\ Registered' = Registered
          /\ \A j \in Registered : worker'[j] = worker[j]
      BY <1>0, <2>5 DEF Pick, Repick, Timeout, PickPark, PoolPark, Registered, taskVars,
                  poolVars, mapVars, TypeInv, TypeOK
    <3> QED
      BY <1>0, <3>1 DEF RegistryInv, TasksTracked
  <2> QED
    BY <1>3, <2>1, <2>2, <2>3, <2>4, <2>5 DEF TaskNext
<1>4. CASE EnvironmentNext \/ Answered
  <2>1. /\ UNCHANGED <<worker, renderTaskID, startFrame, done, numRenderTasks, requests>>
        /\ Registered' = Registered
    BY <1>4, EnvironmentFrame, AnsweredFrame DEF pipelineVars, taskVars, poolVars, Registered
  <2>2. CASE UNCHANGED frameBatches
    BY <1>0, <2>1, <2>2 DEF RegistryInv, TasksTracked
  <2>3. ASSUME NEW i \in Registered, Key(i) \in DOMAIN frameBatches,
               frameBatches' = [frameBatches EXCEPT ![Key(i)].completed = TRUE]
        PROVE  RegistryInv'
    <3>1. /\ DOMAIN frameBatches' = DOMAIN frameBatches
          /\ \A k \in DOMAIN frameBatches :
               /\ frameBatches'[k].start = frameBatches[k].start
               /\ frameBatches'[k].done = frameBatches[k].done
      BY <1>0, <2>3 DEF TypeInv, TypeOK, FrameBatchMetadata
    <3>2. \A j \in Registered : <<worker[j], renderTaskID[j]>> \in DOMAIN frameBatches
      BY <1>0 DEF RegistryInv, TasksTracked
    <3> QED
      BY <1>0, <2>1, <3>1, <3>2 DEF RegistryInv, TasksTracked
  <2>4. CASE Answered
    BY <2>2, <2>3, <2>4, ResultEffect DEF Answered
  <2>5. CASE ~ Answered
    BY <1>0, <1>4, <2>2, <2>5, HandlingIsAnswered
    DEF EnvironmentNext, Connect, Disconnect, Cancel, mapVars
  <2> QED
    BY <2>4, <2>5
<1> QED
  BY <1>1, <1>2, <1>3, <1>4 DEF AnyNext, Next

\* DoneInv: a channel is closed with its task's completion, and head follows
\* the closed channels.
LEMMA DoneStep == ASSUME CoreInv, AnyNext PROVE DoneInv'
<1>0. /\ TypeInv /\ RegistryInv /\ RoundInv /\ DoneInv
      /\ head \in Nat /\ batchesToFetch \in Nat /\ Goroutines \subseteq Nat
  <2>1. TypeInv /\ RegistryInv /\ RoundInv /\ DoneInv
    BY DEF CoreInv
  <2>2. head \in Nat
    BY <2>1 DEF TypeInv, TypeOK
  <2>3. Goroutines \subseteq Nat /\ batchesToFetch \in 1..MaxBatches
    BY GoroutinesType
  <2>4. batchesToFetch \in Nat
    BY <2>3
  <2> QED
    BY <2>1, <2>2, <2>3, <2>4
<1>1. CASE DispatcherNext
  <2>0. UNCHANGED <<worker, renderTaskID, frameBatches, closed>>
    BY <1>1, DispatcherFrame DEF mapVars
  <2>1. CASE StartRound
    <3>1. /\ \A i \in Goroutines : gpc[i] = "idle"
          /\ \A p \in closed : p < head
          /\ dpc' = "join" /\ UNCHANGED <<head, isFirstRound>>
      BY <1>0, <2>1 DEF StartRound, RoundInv, DoneInv, bufferVars
    <3>2. Registered' = {}
      BY <2>1, <3>1 DEF StartRound, Registered
    <3>3. \A i \in Goroutines : gpc'[i] \in {"pick", "register"} => done'[i] = head + i
      BY <2>1, <3>1 DEF StartRound
    <3>4. \A i \in Goroutines : head + i \notin closed
      BY <1>0, <3>1
    <3>5. \A i \in Goroutines : i < batchesToFetch => gpc'[i] # "idle"
      BY <2>1 DEF StartRound
    <3> QED
      BY <1>0, <2>0, <3>1, <3>2, <3>3, <3>4, <3>5 DEF DoneInv, batchesToFetch
  <2>2. CASE EndRound
    <3>1. /\ \A i \in Goroutines : gpc[i] = "idle"
          /\ dpc = "join" /\ dpc' = "notify" /\ head' = head + batchesToFetch
          /\ UNCHANGED gpc
      BY <2>2 DEF EndRound, AdvanceHead, taskVars
    <3>2. Registered' = {}
      BY <3>1 DEF Registered
    <3>3. ASSUME NEW p \in Nat, p < head + batchesToFetch PROVE p \in closed
      <4>1. CASE p < head
        BY <1>0, <4>1 DEF DoneInv
      <4>2. CASE p >= head
        <5>1. p - head \in 0..(batchesToFetch - 1) /\ head + (p - head) = p
          BY <1>0, <3>3, <4>2
        <5>2. p - head \in Goroutines /\ p - head < batchesToFetch
          BY <1>0, <5>1, GoroutinesType
        <5> QED
          BY <1>0, <3>1, <5>1, <5>2 DEF DoneInv
      <4> QED
        BY <1>0, <4>1, <4>2
    <3>4. \A p \in closed : p \in Nat /\ p < head + batchesToFetch
      BY <1>0, <3>1 DEF DoneInv
    <3> QED
      BY <2>0, <3>1, <3>2, <3>3, <3>4 DEF DoneInv
  <2>3. CASE ~ StartRound /\ ~ EndRound
    <3>1. UNCHANGED <<gpc, startFrame, done, head>> /\ dpc # "join" /\ dpc' # "join"
      BY <1>1, <2>3 DEF DispatcherNext, DispatcherLoop, WaitForRoom, BufferPark,
           DispatcherWaitForAtLeastOne, DispatcherNotify, BufferNotify, taskVars,
           bufferVars
    <3> QED
      BY <1>0, <2>0, <3>1 DEF DoneInv, Registered, Key
  <2> QED
    BY <2>1, <2>2, <2>3
<1>2. CASE BroadcasterNext
  BY <1>0, <1>2, BroadcasterFrame
  DEF DoneInv, Registered, Key, batchesToFetch, mapVars, taskVars, dispatcherVars
<1>3. ASSUME NEW i \in Goroutines, TaskNext(i) PROVE DoneInv'
  <2>0. UNCHANGED <<dpc, isFirstRound, head, closed>>
    BY <1>0, <1>3, TaskFrame DEF dispatcherVars, bufferVars
  <2>1. ASSUME NEW c, TakesKey(i, c), UNCHANGED done,
               gpc' = [gpc EXCEPT ![i] = "request"],
               i \notin Registered => gpc[i] = "register"
        PROVE  DoneInv'
    <3>1. /\ Registered' = Registered \cup {i}
          /\ Key(i)' = <<c, numRenderTasks[c]>>
          /\ \A j \in Registered : j # i => Key(j)' = Key(j)
      BY <2>1 DEF TakesKey, Key
    <3>2. /\ frameBatches'[<<c, numRenderTasks[c]>>].completed =
                (i \in Registered /\ frameBatches[Key(i)].completed)
          /\ \A j \in Registered : j # i => frameBatches'[Key(j)] = frameBatches[Key(j)]
      BY <2>1 DEF TakesKey
    <3>3. frameBatches'[Key(i)'].completed <=> done[i] \in closed
      BY <1>0, <2>1, <3>1, <3>2 DEF DoneInv
    <3>4. \A j \in Registered' : frameBatches'[Key(j)'].completed <=> done[j] \in closed
      BY <1>0, <3>1, <3>2, <3>3 DEF DoneInv
    <3>5. \A j \in Goroutines : j # i => gpc'[j] = gpc[j]
      BY <1>0, <2>1 DEF TypeInv, TypeOK
    <3>6. gpc'[i] = "request"
      BY <1>0, <2>1 DEF TypeInv, TypeOK
    <3> QED
      BY <1>0, <2>0, <2>1, <3>4, <3>5, <3>6 DEF DoneInv, batchesToFetch
  <2>2. CASE Register(i)
    BY <1>0, <2>1, <2>2, RegisterEffect DEF Register
  <2>3. CASE Switch(i)
    BY <1>0, <2>1, <2>3, SwitchEffect DEF Switch
  <2>4. CASE Finish(i)
    <3>1. /\ i \in Registered /\ Registered' = Registered \ {i}
          /\ \A j \in Registered : j # i => Key(j)' = Key(j) /\ done'[j] = done[j]
          /\ \A k \in DOMAIN frameBatches \ {Key(i)} : frameBatches'[k] = frameBatches[k]
      BY <1>0, <2>4, FinishEffect DEF Key
    <3>2. \A j \in Registered : j # i => Key(j) \in DOMAIN frameBatches \ {Key(i)}
      BY <1>0, <3>1 DEF RegistryInv, TasksTracked, Key
    <3>3. \A j \in Registered' : frameBatches'[Key(j)'].completed <=> done'[j] \in closed
      BY <1>0, <3>1, <3>2 DEF DoneInv
    <3>4. done[i] = head + i /\ done[i] \in closed
      BY <1>0, <2>4 DEF Finish, RoundInv
    <3>5. \A j \in Goroutines : j # i => gpc'[j] = gpc[j] /\ done'[j] = done[j]
      BY <1>0, <2>4 DEF Finish, TypeInv, TypeOK
    <3>6. gpc'[i] = "idle"
      BY <1>0, <2>4 DEF Finish, TypeInv, TypeOK
    <3> QED
      BY <1>0, <2>0, <3>3, <3>4, <3>5, <3>6 DEF DoneInv, batchesToFetch
  <2>5. CASE (\E c \in clients : Pick(i, c) \/ Repick(i, c)) \/ Request(i) \/ Timeout(i)
               \/ PickPark(i)
    <3>1. /\ UNCHANGED <<renderTaskID, done, frameBatches>>
          /\ Registered' = Registered
          /\ \A j \in Registered : worker'[j] = worker[j]
          /\ \A j \in Goroutines :
               /\ gpc'[j] = "idle" <=> gpc[j] = "idle"
               /\ gpc'[j] \in {"pick", "register"} => gpc[j] \in {"pick", "register"}
      BY <1>0, <2>5 DEF Pick, Repick, Request, Timeout, PickPark, PoolPark, Registered,
                  taskVars, poolVars, mapVars, TypeInv, TypeOK
    <3>2. \A j \in Registered : Key(j)' = Key(j)
      BY <3>1 DEF Key
    <3> QED
      BY <1>0, <2>0, <3>1, <3>2 DEF DoneInv, batchesToFetch
  <2> QED
    BY <1>3, <2>2, <2>3, <2>4, <2>5 DEF TaskNext
<1>4. CASE EnvironmentNext \/ Answered
  <2>1. /\ UNCHANGED <<worker, renderTaskID, gpc, done, dpc, isFirstRound, head>>
        /\ Registered' = Registered /\ \A j \in Goroutines : Key(j)' = Key(j)
    BY <1>4, EnvironmentFrame, AnsweredFrame
    DEF pipelineVars, taskVars, dispatcherVars, Registered, Key
  <2>2. CASE UNCHANGED <<frameBatches, closed>>
    BY <1>0, <2>1, <2>2 DEF DoneInv, batchesToFetch, Registered
  <2>3. ASSUME NEW i \in Registered, Key(i) \in DOMAIN frameBatches,
               frameBatches' = [frameBatches EXCEPT ![Key(i)].completed = TRUE],
               closed' = closed \cup {head + i}
        PROVE  DoneInv'
    <3>1. /\ done[i] = head + i /\ i < batchesToFetch /\ dpc = "join"
          /\ i \in Goroutines /\ gpc[i] \notin {"idle", "pick", "register"}
      BY <1>0 DEF RoundInv, Registered
    <3>2. \A j \in Goroutines : gpc[j] # "idle" /\ j # i => done[j] # head + i
      BY <1>0, <3>1 DEF RoundInv
    <3>3. frameBatches'[Key(i)].completed
      BY <1>0, <2>3 DEF TypeInv, TypeOK, FrameBatchMetadata
    <3>4. \A j \in Registered : j # i => frameBatches'[Key(j)] = frameBatches[Key(j)]
      BY <1>0, <2>3 DEF TypeInv, TypeOK, RegistryInv, TasksTracked, Key
    <3>5. \A j \in Registered : frameBatches'[Key(j)].completed <=> done[j] \in closed'
      BY <1>0, <2>3, <3>1, <3>2, <3>3, <3>4 DEF DoneInv, Registered
    <3>6. \A j \in Goroutines : gpc[j] \in {"pick", "register"} => done[j] \notin closed'
      BY <1>0, <2>3, <3>1, <3>2 DEF DoneInv
    <3>7. \A p \in closed' : p \in Nat /\ (p < head \/ p < head + batchesToFetch)
      BY <1>0, <2>3, <3>1 DEF DoneInv
    <3> QED
      BY <1>0, <2>1, <2>3, <3>1, <3>5, <3>6, <3>7 DEF DoneInv, batchesToFetch, Registered
  <2>4. CASE Answered
    BY <2>2, <2>3, <2>4, ResultEffect DEF Answered
  <2>5. CASE ~ Answered
    BY <1>0, <1>4, <2>2, <2>5, HandlingIsAnswered
    DEF EnvironmentNext, Connect, Disconnect, Cancel, mapVars
  <2> QED
    BY <2>4, <2>5
<1> QED
  BY <1>1, <1>2, <1>3, <1>4 DEF AnyNext, Next

----------------------------------------------------------------------------
(* The theorems.                                                           *)

\* Every step keeps the core of the invariant, whatever clients answer.
LEMMA CoreStep == CoreInv /\ [AnyNext]_vars => CoreInv'
<1>1. ASSUME CoreInv, AnyNext PROVE CoreInv'
  <2>1. TypeInv'
    BY <1>1, TypeStep, TypeAnswered DEF CoreInv, AnyNext
  <2>2. RoundInv' /\ RingInv' /\ LengthInv' /\ ParkedInv' /\ PacingInv'
    BY <1>1, RoundStep, RingStep, LengthStep, ParkedStep, PacingStep DEF CoreInv
  <2>3. LoopsNeverBothParked'
    BY <1>1, BothParkedStep DEF CoreInv
  <2>4. RegistryInv' /\ DoneInv' /\ NoPanic'
    BY <1>1, RegistryStep, DoneStep, PanicStep
  <2> QED
    BY <2>1, <2>2, <2>3, <2>4 DEF CoreInv
<1>2. ASSUME CoreInv, UNCHANGED vars PROVE CoreInv'
  <2> USE DEF vars, bufferVars, poolVars, mapVars, pipelineVars, dispatcherVars,
              taskVars, broadcasterVars
  <2>1. TypeInv'
    BY <1>2, TypeStep DEF CoreInv
  <2>2. RoundInv' /\ RegistryInv' /\ DoneInv'
    BY <1>2 DEF CoreInv, RoundInv, RegistryInv, TasksTracked, DoneInv, Registered, Key,
                batchesToFetch
  <2>3. RingInv' /\ LengthInv' /\ PacingInv' /\ NoPanic' /\ LoopsNeverBothParked'
    BY <1>2 DEF CoreInv, RingInv, LengthInv, PacingInv, NoPanic, LoopsNeverBothParked,
                batchesToFetch, seconds
  <2>4. ParkedInv'
    BY <1>2 DEF CoreInv, ParkedInv, NoLostWakeup, HasRoomFor, batchesToFetch, seconds,
                frameBatchesRemainingToFullBuffer, isBufferFull, GetLengthInBatches,
                isBufferSizeEnoughForBroadcast
  <2> QED
    BY <2>1, <2>2, <2>3, <2>4 DEF CoreInv
<1> QED
  BY <1>1, <1>2

\* Every step of the pipeline preserves the invariant.
LEMMA InvStep == Inv /\ [Next]_vars => Inv'
<1>1. Inv /\ [Next]_vars => CoreInv'
  BY CoreStep DEF Inv, AnyNext
<1>2. ASSUME Inv, Next PROVE StoreInv' /\ StreamInv'
  BY <1>2, StoreStep, StreamStep DEF Inv, CoreInv
<1>3. ASSUME Inv, UNCHANGED vars PROVE StoreInv' /\ StreamInv'
  BY <1>3 DEF Inv, StoreInv, StreamInv, TimelineContiguous, seconds, vars, bufferVars,
              mapVars, pipelineVars, broadcasterVars
<1> QED
  BY <1>1, <1>2, <1>3 DEF Inv

\* The invariant holds in every reachable state.
LEMMA InvAlways == Spec => []Inv
  BY InvInit, InvStep, PTL DEF Spec

\* For every ring, round and fleet: the fleet is sent every batch in order,
\* without a gap, a repetition or an unrendered slot, whichever workers time
\* out, leave, or answer late or twice.
THEOREM TimelineIsContiguous == Spec => []TimelineContiguous
<1>1. Inv => TimelineContiguous
  BY DEF Inv, StreamInv
<1> QED
  BY <1>1, InvAlways, PTL

\* AdvanceHead never moves over a slot that was not stored.
THEOREM ReadyBatchesAreStored == Spec => []ReadyBatchesStored
<1>1. Inv => ReadyBatchesStored
  <2> SUFFICES ASSUME Inv, NEW p \in tail..(head - 1) PROVE buffer[Slot(p)] = Slot(p)
    BY DEF ReadyBatchesStored
  <2>1. p \in Nat /\ p < head
    BY DEF Inv, CoreInv, TypeInv, TypeOK
  <2> QED
    BY <2>1 DEF Inv, CoreInv, DoneInv, StoreInv
<1> QED
  BY <1>1, InvAlways, PTL

\* A task's slot lies between head and head plus the size of its round, and there is
\* room for that round: it is not one of those between tail and head, whatever the
\* clients answer.
LEMMA TasksAreAhead == CoreInv => NoTaskOnReadySlot
<1> SUFFICES ASSUME CoreInv, NEW key \in DOMAIN frameBatches,
                    NEW q \in tail..(tail + (head - tail) - 1)
             PROVE  frameBatches[key].start # Slot(q)
  BY DEF NoTaskOnReadySlot, SlotsFrom
<1>1. PICK i \in Registered : key = <<worker[i], renderTaskID[i]>>
  BY DEF CoreInv, RegistryInv, TasksTracked
<1>2. frameBatches[key].start = startFrame[i]
  BY <1>1 DEF CoreInv, RegistryInv, TasksTracked
<1>3. /\ startFrame[i] = Slot(head + i) /\ i < batchesToFetch /\ dpc = "join"
      /\ i \in Goroutines
  BY <1>1 DEF CoreInv, RoundInv, Registered
<1>4. head - tail + batchesToFetch <= MaxBatches
  BY <1>3 DEF CoreInv, RingInv
<1>5. /\ head \in Nat /\ tail \in Nat /\ i \in Nat /\ batchesToFetch \in Nat
      /\ MaxBatches \in Nat
  BY <1>3, GoroutinesType, MaxBatchesAssumption DEF CoreInv, TypeInv, TypeOK
<1>6. q \in Nat /\ head + i \in Nat /\ q < head + i /\ head + i < q + MaxBatches
  BY <1>3, <1>4, <1>5
<1> QED
  BY <1>2, <1>3, <1>6, SlotsDistinct

\* No outstanding task's slot is one that waits to be broadcast, so the
\* broadcaster never reads a slot a result may be copied into.
THEOREM ReadySlotsHaveNoTask == Spec => []NoTaskOnReadySlot
<1>1. Inv => NoTaskOnReadySlot
  BY TasksAreAhead DEF Inv
<1> QED
  BY <1>1, InvAlways, PTL

\* No panic of the pipeline is reachable.
THEOREM NeverPanics == Spec => []NoPanic
<1>1. Inv => NoPanic
  BY DEF Inv, CoreInv
<1> QED
  BY <1>1, InvAlways, PTL

\* The registry holds exactly the running goroutines' tasks.
THEOREM RegistryTracksTasks == Spec => []TasksTracked
<1>1. Inv => TasksTracked
  BY DEF Inv, CoreInv, RegistryInv
<1> QED
  BY <1>1, InvAlways, PTL

\* No goroutine sleeps through the change it waits for.
THEOREM NoWakeupIsLost == Spec => []NoLostWakeup
<1>1. Inv => NoLostWakeup
  BY DEF Inv, CoreInv, ParkedInv
<1> QED
  BY <1>1, InvAlways, PTL

\* The dispatcher and the broadcaster never wait for each other, as long as a
\* round fits the ring.
THEOREM LoopsDoNotDeadlock == Spec => []LoopsNeverBothParked
<1>1. Inv => LoopsNeverBothParked
  BY DEF Inv, CoreInv
<1> QED
  BY <1>1, InvAlways, PTL

----------------------------------------------------------------------------
(* The pipeline implements the abstract stream: AdvanceHead at the end of  *)
(* a round is a Produce, the call of Broadcast is a Broadcast, and every   *)
(* other step leaves both the number of batches and the timeline alone.    *)

\* A later head or tail is not zero.
LEMMA MultiplesArePositive ==
  ASSUME NEW f \in Nat, f > 0, NEW k \in Nat, NEW s \in Nat
  PROVE  f + k * s > 0
<1>1. k * s \in Nat
  OBVIOUS
<1> QED
  BY <1>1

\* A sequence is the function of its elements.
LEMMA SequenceIsFunction ==
  ASSUME NEW S, NEW t \in Seq(S), NEW n \in Nat, Len(t) = n
  PROVE  t = [k \in 1..n |-> t[k]]
  OBVIOUS

\* The end of a round, whatever the clients answered: the round has the size the
\* stream expects and there is room for it, since nobody but the dispatcher takes
\* room.
LEMMA EndRoundProduces ==
  ASSUME CoreInv, EndRound
  PROVE  LET n == IF head = 0 THEN FirstSecondsToBroadcast ELSE SecondsToBroadcast
         IN  /\ head + n - Len(timeline) <= MaxBatches
             /\ head' = head + n /\ timeline' = timeline
<1>0. /\ head \in Nat /\ tail \in Nat /\ MaxBatches \in Nat
      /\ FirstSecondsToBroadcast \in Nat /\ SecondsToBroadcast \in Nat
      /\ FirstSecondsToBroadcast > 0 /\ SecondsToBroadcast > 0
      /\ timeline \in Seq(Slots \cup {Blank}) /\ isFirstRound \in BOOLEAN
  BY MaxBatchesAssumption, OrchestratorAssumption DEF CoreInv, TypeInv, TypeOK
<1>1. /\ dpc = "join"
      /\ head' = head + batchesToFetch /\ timeline' = timeline
  BY DEF EndRound, AdvanceHead, broadcasterVars
<1>2. batchesToFetch = IF head = 0 THEN FirstSecondsToBroadcast ELSE SecondsToBroadcast
  <2>1. CASE isFirstRound
    BY <1>1, <2>1 DEF CoreInv, PacingInv, batchesToFetch
  <2>2. CASE ~ isFirstRound
    <3>1. PICK k \in Nat : head = FirstSecondsToBroadcast + k * SecondsToBroadcast
      BY <2>2 DEF CoreInv, PacingInv
    <3>2. head > 0
      BY <1>0, <3>1, MultiplesArePositive
    <3> QED
      BY <1>0, <2>2, <3>2 DEF batchesToFetch
  <2> QED
    BY <2>1, <2>2
<1>3. head - tail + batchesToFetch <= MaxBatches
  BY <1>1 DEF CoreInv, RingInv
<1>4. Len(timeline) \in Nat /\ Len(timeline) >= tail
  <2>1. Len(timeline) \in Nat
    BY <1>0
  <2>2. Len(timeline) = IF bpc = "remove" THEN tail + seconds ELSE tail
    BY DEF CoreInv, LengthInv
  <2> QED
    BY <1>0, <2>1, <2>2 DEF seconds
<1>5. batchesToFetch \in Nat
  BY <1>0 DEF batchesToFetch
<1>6. head + batchesToFetch - Len(timeline) <= MaxBatches
  BY <1>0, <1>3, <1>4, <1>5
<1> QED
  BY <1>1, <1>2, <1>6

\* A broadcast, whatever the clients answered, has the size the stream expects, and
\* all of it was produced.
LEMMA SendFramesBroadcasts ==
  ASSUME CoreInv, SendFrames
  PROVE  LET n == IF timeline = << >> THEN FirstSecondsToBroadcast ELSE SecondsToBroadcast
         IN  /\ n = seconds /\ n \in Nat /\ Len(timeline) = tail /\ Len(frames) = n
             /\ Len(timeline) + n <= head
             /\ timeline' = timeline \o frames /\ head' = head
<1>0. /\ head \in Nat /\ tail \in Nat
      /\ FirstSecondsToBroadcast \in Nat /\ SecondsToBroadcast \in Nat
      /\ FirstSecondsToBroadcast > 0 /\ SecondsToBroadcast > 0
      /\ timeline \in Seq(Slots \cup {Blank}) /\ isFirstBroadcast \in BOOLEAN
  BY MaxBatchesAssumption, OrchestratorAssumption DEF CoreInv, TypeInv, TypeOK
<1>1. /\ bpc = "send"
      /\ timeline' = timeline \o frames /\ head' = head
  BY DEF SendFrames, bufferVars
<1>2. Len(timeline) = tail /\ Len(frames) = seconds /\ seconds <= head - tail
  BY <1>1 DEF CoreInv, LengthInv, RingInv
<1>3. seconds \in Nat
  BY <1>0 DEF seconds
<1>4. seconds = IF timeline = << >> THEN FirstSecondsToBroadcast ELSE SecondsToBroadcast
  <2>1. timeline = << >> <=> tail = 0
    BY <1>0, <1>2
  <2>2. CASE isFirstBroadcast
    BY <1>1, <2>1, <2>2 DEF CoreInv, PacingInv, seconds
  <2>3. CASE ~ isFirstBroadcast
    <3>1. PICK j \in Nat : tail = FirstSecondsToBroadcast + j * SecondsToBroadcast
      BY <2>3 DEF CoreInv, PacingInv
    <3>2. tail > 0
      BY <1>0, <3>1, MultiplesArePositive
    <3> QED
      BY <1>0, <2>1, <2>3, <3>2 DEF seconds
  <2> QED
    BY <2>2, <2>3
<1>5. Len(timeline) + seconds <= head
  BY <1>0, <1>2, <1>3
<1> QED
  BY <1>1, <1>2, <1>3, <1>4, <1>5

\* With the copy that StreamInv describes, it is the stream's broadcast.
LEMMA SendFramesContents ==
  ASSUME Inv, SendFrames PROVE Stream!Broadcast
<1> DEFINE n == IF timeline = << >> THEN FirstSecondsToBroadcast ELSE SecondsToBroadcast
<1>1. /\ n = seconds /\ n \in Nat /\ Len(timeline) = tail /\ Len(frames) = n
      /\ Len(timeline) + n <= head
      /\ timeline' = timeline \o frames /\ head' = head
  BY SendFramesBroadcasts DEF Inv
<1>2. frames \in Seq(Slots \cup {Blank})
  BY DEF Inv, CoreInv, TypeInv, TypeOK
<1>3. bpc = "send" /\ \A k \in 1..seconds : frames[k] = Slot(tail + k - 1)
  BY DEF SendFrames, Inv, StreamInv
<1>4. frames = [k \in 1..n |-> (Len(timeline) + k - 1) % MaxBatches]
  <2> HIDE DEF n
  <2>1. frames = [k \in 1..n |-> frames[k]]
    BY <1>1, <1>2, SequenceIsFunction
  <2>2. \A k \in 1..n : frames[k] = (Len(timeline) + k - 1) % MaxBatches
    BY <1>1, <1>3 DEF Slot
  <2> QED
    BY <2>1, <2>2
<1> QED
  BY <1>1, <1>4 DEF Stream!Broadcast

\* Nothing but the end of a round and a broadcast moves the stream.
LEMMA StreamMoves ==
  ASSUME TypeInv, [AnyNext]_vars
  PROVE  EndRound \/ SendFrames \/ UNCHANGED <<head, timeline>>
<1>1. CASE DispatcherNext
  BY <1>1 DEF DispatcherNext, DispatcherLoop, WaitForRoom, StartRound,
       DispatcherWaitForAtLeastOne, DispatcherNotify, BufferPark, BufferNotify,
       bufferVars, broadcasterVars
<1>2. CASE BroadcasterNext
  BY <1>2 DEF BroadcasterNext, BroadcasterLoop, GetFrames, RemoveFrames,
       WaitUntilBufferSizeEnoughForBroadcast, BroadcasterWaitForAtLeastOne,
       BroadcasterNotify, BufferPark, BufferNotify, RemoveSentFramesFromBuffer,
       bufferVars
<1>3. ASSUME NEW i \in Goroutines, TaskNext(i) PROVE UNCHANGED <<head, timeline>>
  BY <1>3, TaskFrame DEF bufferVars, broadcasterVars
<1>4. CASE EnvironmentNext
  BY <1>4, EnvironmentFrame DEF pipelineVars, broadcasterVars
<1>5. CASE Answered
  BY <1>5, AnsweredFrame DEF pipelineVars, broadcasterVars
<1>6. CASE UNCHANGED vars
  BY <1>6 DEF vars, bufferVars, pipelineVars, broadcasterVars
<1> QED
  BY <1>1, <1>2, <1>3, <1>4, <1>5, <1>6 DEF AnyNext, Next

\* Every step of the pipeline is a step of the stream, or none.
LEMMA StreamSimulation == Inv /\ [Next]_vars => [Stream!Next]_Stream!vars
<1> SUFFICES ASSUME Inv, [Next]_vars PROVE [Stream!Next]_Stream!vars
  OBVIOUS
<1>1. EndRound \/ SendFrames \/ UNCHANGED <<head, timeline>>
  BY StreamMoves DEF Inv, CoreInv, AnyNext
<1>2. CASE EndRound
  BY <1>2, EndRoundProduces DEF Inv, Stream!Next, Stream!Produce
<1>3. CASE SendFrames
  BY <1>3, SendFramesContents DEF Stream!Next
<1> QED
  BY <1>1, <1>2, <1>3 DEF Stream!vars

\* For every ring, round size and fleet, whatever workers and connections do:
\* the dispatcher, its goroutines and the broadcaster together are the abstract
\* stream of FrameStream.
THEOREM PipelineImplementsStream == Spec => ImplementsFrameStream
<1>1. Init => Stream!Init
  BY DEF Init, NewFrameBuffer, Stream!Init
<1> QED
  BY <1>1, StreamSimulation, InvAlways, PTL DEF Spec, ImplementsFrameStream, Stream!Spec
=============================================================================
