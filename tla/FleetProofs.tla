---------------------------- MODULE FleetProofs ----------------------------
(***************************************************************************)
(* Proofs about the pipeline composed with its workers: pages that do not  *)
(* reconnect are the environment Orchestrator assumes; pages that do may   *)
(* answer a task nobody gave them, and what still holds of the pipeline    *)
(* then; and a page never goes back in the timeline.                       *)
(***************************************************************************)
EXTENDS Fleet, OrchestratorProofs

----------------------------------------------------------------------------
(* The invariants.                                                         *)

RenderTasks == [type : {"RenderTask"}, id : Nat, start : Slots]
FrameBroadcasts == [type : {"FrameBroadcast"}, position : Nat]
Messages == RenderTasks \cup FrameBroadcasts \cup {Telemetry}

FleetTypeInv ==
  /\ send \in [ClientIDs -> Seq(Messages)]
  /\ ws \in [Pages -> ClientIDs \cup {NoClient}]
  /\ jobs \in [Pages -> Seq(RenderTasks)]
  /\ played \in [Pages -> Int]
  /\ ticks \in Nat

\* What holds of every fleet: of the pipeline, whatever its clients answer, and
\* of the slots, which hold something once a result was stored.
RenderedInv ==
  /\ \A p \in closed : buffer[Slot(p)] # Blank
  /\ bpc = "send" => \A k \in 1..Len(frames) : frames[k] # Blank
  /\ NothingUnrendered

FleetInv == CoreInv /\ FleetTypeInv /\ RenderedInv

\* The request a task stands for when client c is asked for it.
RequestOf(c, task) == [client |-> c, id |-> task.id, start |-> task.start]

Known == clients \cup gone

\* Without reconnects: only connections that were opened hold anything, and
\* every task that is queued for a connected client, or posted to the Web Worker
\* of the page that holds the connection, is one that client was asked for.
AskedInv ==
  /\ \A i \in Goroutines :
       /\ gpc[i] \notin {"idle", "pick"} => worker[i] \in Known
       /\ gpc[i] = "switch" => next[i] \in Known
  /\ clients \cap gone = {}
  /\ \A c \in ClientIDs \ Known : send[c] = << >>
  /\ \A c \in clients : \A k \in 1..Len(send[c]) :
       send[c][k].type = "RenderTask" => RequestOf(c, send[c][k]) \in requests
  /\ \A p \in Pages : \A k \in 1..Len(jobs[p]) :
       RequestOf(ws[p], jobs[p][k]) \in requests

\* The broadcasts queued for a client are in order, none is ahead of the tail
\* and none behind what the page that will receive it was shown.
IsBroadcast(message) == message.type = "FrameBroadcast"

PlayedInv ==
  /\ \A p \in Pages : played[p] <= tail
  /\ \A c \in ClientIDs : \A k \in 1..Len(send[c]) : IsBroadcast(send[c][k]) =>
       /\ c \in Known
       /\ send[c][k].position <= tail
       /\ \A l \in 1..Len(send[c]) : l > k /\ IsBroadcast(send[c][l]) =>
            send[c][k].position <= send[c][l].position
       /\ \A p \in Pages : ws[p] = c => played[p] <= send[c][k].position

----------------------------------------------------------------------------
(* What a step of the fleet does to the pipeline, and to the queues.       *)

\* A task at the front of a Web Worker's queue has an id and a slot.
LEMMA HeadJob ==
  ASSUME FleetTypeInv, NEW p \in Pages, jobs[p] # << >>
  PROVE  /\ Head(jobs[p]) \in RenderTasks /\ Head(jobs[p]) = jobs[p][1]
         /\ 1 \in 1..Len(jobs[p])
         /\ Head(jobs[p]).id \in Nat /\ Head(jobs[p]).start \in Slots
<1>1. jobs[p] \in Seq(RenderTasks)
  BY DEF FleetTypeInv
<1>2. Head(jobs[p]) \in RenderTasks /\ Head(jobs[p]) = jobs[p][1] /\ 1 \in 1..Len(jobs[p])
  BY <1>1
<1> QED
  BY <1>2 DEF RenderTasks

\* A page answers with a result of the pipeline, or not at all.
LEMMA RenderIsAnswer ==
  ASSUME TypeInv, FleetTypeInv, NEW p \in Pages, Render(p)
  PROVE  \/ ws[p] \in clients /\ AnyResult(ws[p], Head(jobs[p]).id, Head(jobs[p]).start)
         \/ UNCHANGED vars
<1>1. CASE ws[p] \in clients
  BY <1>1 DEF Render, AnyResult
<1>2. CASE ws[p] \notin clients
  BY <1>2 DEF Render, vars
<1> QED
  BY <1>1, <1>2

\* Every step of the fleet is one of a pipeline whose clients answer anything.
LEMMA StepIsAny ==
  ASSUME TypeInv, FleetTypeInv, [FleetNext]_<<vars, fleetVars>>
  PROVE  [AnyNext]_vars
<1>1. CASE DispatcherNext \/ FleetBroadcasterNext \/ TelemetryBroadcaster \/ Cancel
  BY <1>1 DEF FleetBroadcasterNext, TelemetryBroadcaster, AnyNext, Next, EnvironmentNext
<1>2. ASSUME NEW i \in Goroutines, FleetTaskNext(i) PROVE Next
  BY <1>2 DEF FleetTaskNext, Next
<1>3. ASSUME NEW p \in Pages, WritePump(p) PROVE UNCHANGED vars
  BY <1>3 DEF WritePump
<1>4. ASSUME NEW p \in Pages, Render(p) PROVE [AnyNext]_vars
  <2>1. ASSUME ws[p] \in clients,
               AnyResult(ws[p], Head(jobs[p]).id, Head(jobs[p]).start)
        PROVE  Answered
    <3>1. jobs[p] # << >> /\ ws[p] \in ClientIDs
      BY <1>4, <2>1 DEF Render, TypeInv, TypeOK
    <3> QED
      BY <2>1, <3>1, HeadJob DEF Answered
  <2> QED
    BY <1>4, <2>1, RenderIsAnswer DEF AnyNext
<1>5. ASSUME NEW p \in Pages, NEW c \in ClientIDs, Open(p, c) PROVE Next
  BY <1>5 DEF Open, Next, EnvironmentNext
<1>6. ASSUME NEW c \in ClientIDs, CloseConnection(c) PROVE Next
  BY <1>6 DEF CloseConnection, Next, EnvironmentNext
<1>7. CASE UNCHANGED <<vars, fleetVars>>
  BY <1>7
<1> QED
  BY <1>1, <1>2, <1>3, <1>4, <1>5, <1>6, <1>7 DEF FleetNext, AnyNext

\* What may happen to the queue of client c in one step: nothing, one message at
\* its end, its first one taken, or the page leaving for another connection.
LEMMA QueueStep ==
  ASSUME TypeInv, FleetTypeInv, FleetNext, NEW c \in ClientIDs
  PROVE  \/ send'[c] = send[c]
         \/ \E i \in Goroutines :
              /\ Request(i) /\ worker[i] = c
              /\ send'[c] = Append(send[c], RenderTask(renderTaskID[i], startFrame[i]))
         \/ c \in clients /\ send'[c] = Append(send[c], FrameBroadcast(tail))
         \/ c \in clients /\ send'[c] = Append(send[c], Telemetry)
         \/ c \in clients /\ send[c] # << >> /\ send'[c] = Tail(send[c])
         \/ send'[c] = << >>
<1> USE DEF FleetTypeInv
<1>1. CASE DispatcherNext /\ UNCHANGED fleetVars
  BY <1>1 DEF fleetVars
<1>2. CASE FleetBroadcasterNext
  BY <1>2 DEF FleetBroadcasterNext, Queued, Enqueue
<1>3. CASE TelemetryBroadcaster
  BY <1>3 DEF TelemetryBroadcaster, Queued, Enqueue
<1>4. ASSUME NEW i \in Goroutines, FleetTaskNext(i)
      PROVE  \/ send'[c] = send[c]
             \/ /\ Request(i) /\ worker[i] = c
                /\ send'[c] = Append(send[c], RenderTask(renderTaskID[i], startFrame[i]))
  <2>1. CASE gpc[i] # "request"
    BY <1>4, <2>1 DEF FleetTaskNext
  <2>2. CASE gpc[i] = "request"
    <3>1. Request(i)
      BY <1>4, <2>2 DEF FleetTaskNext, TaskNext, Pick, Repick, Register, Finish,
           Timeout, Switch, PickPark
    <3>2. send' = [send EXCEPT ![worker[i]] =
                     Queued(worker[i], RenderTask(renderTaskID[i], startFrame[i]))]
      BY <1>4, <2>2 DEF FleetTaskNext
    <3> QED
      BY <3>1, <3>2 DEF Queued, Enqueue
  <2> QED
    BY <2>1, <2>2
<1>5. ASSUME NEW p \in Pages, WritePump(p)
      PROVE  \/ send'[c] = send[c]
             \/ c \in clients /\ send[c] # << >> /\ send'[c] = Tail(send[c])
  BY <1>5 DEF WritePump
<1>6. ASSUME NEW p \in Pages, Render(p) \/ \E d \in ClientIDs : Open(p, d)
      PROVE  send'[c] = send[c] \/ send'[c] = << >>
  BY <1>6 DEF Render, Open
<1>7. CASE (\E d \in ClientIDs : CloseConnection(d)) \/ (Cancel /\ UNCHANGED fleetVars)
  BY <1>7 DEF CloseConnection, fleetVars
<1> QED
  BY <1>1, <1>2, <1>3, <1>4, <1>5, <1>6, <1>7 DEF FleetNext

----------------------------------------------------------------------------
(* Types of the fleet.                                                     *)

\* The messages the server sends.
LEMMA MessageTypes ==
  /\ \A id \in Nat, slot \in Slots : RenderTask(id, slot) \in RenderTasks
  /\ \A position \in Nat : FrameBroadcast(position) \in FrameBroadcasts
  /\ RenderTasks \subseteq Messages /\ FrameBroadcasts \subseteq Messages
  /\ Telemetry \in Messages
  /\ \A m \in Messages : m.type = "RenderTask" => m \in RenderTasks
  /\ \A m \in Messages : m.type = "FrameBroadcast" => m \in FrameBroadcasts
  BY DEF RenderTask, FrameBroadcast, Telemetry, RenderTasks, FrameBroadcasts, Messages

\* Every step keeps the queues, sockets and Web Workers well typed.
LEMMA FleetTypeStep ==
  ASSUME TypeInv, FleetTypeInv, FleetNext PROVE FleetTypeInv'
<1>1. send' \in [ClientIDs -> Seq(Messages)]
  <2>1. DOMAIN send' = ClientIDs /\ send' = [c \in DOMAIN send' |-> send'[c]]
    <3> USE DEF FleetTypeInv
    <3>1. send' = send \/ (\E c \in ClientIDs : \E q : send' = [send EXCEPT ![c] = q])
            \/ (\E m : send' = [c \in ClientIDs |-> IF c \in clients
                                     THEN Queued(c, m) ELSE send[c]])
            \/ (\E d : send' = [c \in ClientIDs |-> IF c = d THEN << >> ELSE send[c]])
      <4>1. ASSUME NEW i \in Goroutines, FleetTaskNext(i), gpc[i] = "request"
            PROVE  worker[i] \in ClientIDs /\ \E q : send' = [send EXCEPT ![worker[i]] = q]
        BY <4>1 DEF FleetTaskNext, TypeInv, LocalsAssigned
      <4>2. ASSUME NEW p \in Pages, WritePump(p)
            PROVE  ws[p] \in ClientIDs /\ \E q : send' = [send EXCEPT ![ws[p]] = q]
        BY <4>2 DEF WritePump, TypeInv, TypeOK
      <4>3. ASSUME FleetBroadcasterNext
            PROVE  \/ send' = send
                   \/ send' = [c \in ClientIDs |-> IF c \in clients
                                   THEN Queued(c, FrameBroadcast(tail)) ELSE send[c]]
        BY <4>3 DEF FleetBroadcasterNext
      <4>4. ASSUME TelemetryBroadcaster
            PROVE  \/ send' = send
                   \/ send' = [c \in ClientIDs |-> IF c \in clients
                                   THEN Queued(c, Telemetry) ELSE send[c]]
        BY <4>4 DEF TelemetryBroadcaster
      <4>5. ASSUME NEW i \in Goroutines, FleetTaskNext(i), gpc[i] # "request"
            PROVE  send' = send
        BY <4>5 DEF FleetTaskNext
      <4>6. ASSUME NEW p \in Pages, Render(p) \/ \E c \in ClientIDs : Open(p, c)
            PROVE  \/ send' = send
                   \/ \E d : send' = [c \in ClientIDs |-> IF c = d THEN << >> ELSE send[c]]
        <5>1. ASSUME NEW c \in ClientIDs, Open(p, c)
              PROVE  send' = [k \in ClientIDs |-> IF k = ws[p] THEN << >> ELSE send[k]]
          BY <5>1 DEF Open
        <5>2. Render(p) => send' = send
          BY DEF Render
        <5> QED
          BY <4>6, <5>1, <5>2
      <4>7. ASSUME \/ UNCHANGED fleetVars
                   \/ \E c \in ClientIDs : CloseConnection(c)
            PROVE  send' = send
        BY <4>7 DEF CloseConnection, fleetVars
      <4> QED
        BY <4>1, <4>2, <4>3, <4>4, <4>5, <4>6, <4>7 DEF FleetNext
    <3> QED
      BY <3>1
  <2>2. ASSUME NEW c \in ClientIDs PROVE send'[c] \in Seq(Messages)
    <3>1. send[c] \in Seq(Messages) /\ tail \in Nat
      BY DEF FleetTypeInv, TypeInv, TypeOK
    <3>2. ASSUME NEW i \in Goroutines
          PROVE  RenderTask(renderTaskID[i], startFrame[i]) \in Messages
      BY MessageTypes DEF TypeInv, TypeOK
    <3>3. FrameBroadcast(tail) \in Messages /\ Telemetry \in Messages
      BY <3>1, MessageTypes
    <3>4. /\ \A m \in Messages : Append(send[c], m) \in Seq(Messages)
          /\ send[c] # << >> => Tail(send[c]) \in Seq(Messages)
          /\ << >> \in Seq(Messages)
      BY <3>1
    <3>5. \/ send'[c] = send[c]
          \/ \E m \in Messages : send'[c] = Append(send[c], m)
          \/ send[c] # << >> /\ send'[c] = Tail(send[c])
          \/ send'[c] = << >>
      BY <3>2, <3>3, QueueStep
    <3> QED
      BY <3>1, <3>4, <3>5
  <2> QED
    BY <2>1, <2>2
<1> USE DEF FleetTypeInv
<1>2. CASE \/ UNCHANGED <<ws, jobs, played, ticks>>
           \/ TelemetryBroadcaster
  BY <1>1, <1>2, FleetAssumption DEF TelemetryBroadcaster
<1>3. ASSUME NEW p \in Pages, WritePump(p) PROVE FleetTypeInv'
  <2>1. /\ send[ws[p]] \in Seq(Messages) /\ send[ws[p]] # << >>
        /\ OnMessage(p, Head(send[ws[p]])) /\ UNCHANGED <<ws, ticks>>
    BY <1>3 DEF WritePump, TypeInv, TypeOK
  <2>2. Head(send[ws[p]]) \in Messages
    BY <2>1
  <2> DEFINE m == Head(send[ws[p]])
  <2> HIDE DEF m
  <2>3. CASE m.type = "RenderTask" /\ jobs' = [jobs EXCEPT ![p] = Append(jobs[p], m)]
               /\ UNCHANGED played
    BY <1>1, <2>1, <2>2, <2>3, MessageTypes DEF m
  <2>4. CASE m.type = "FrameBroadcast" /\ played' = [played EXCEPT ![p] = m.position]
               /\ UNCHANGED jobs
    <3>1. m \in FrameBroadcasts
      BY <2>2, <2>4, MessageTypes DEF m
    <3>2. m.position \in Int
      BY <3>1 DEF FrameBroadcasts
    <3> QED
      BY <1>1, <2>1, <2>4, <3>2
  <2>5. CASE UNCHANGED <<jobs, played>>
    BY <1>1, <2>1, <2>5
  <2> QED
    BY <2>1, <2>3, <2>4, <2>5 DEF OnMessage, m
<1>4. ASSUME NEW p \in Pages, Render(p) PROVE FleetTypeInv'
  BY <1>1, <1>4 DEF Render
<1>5. ASSUME NEW p \in Pages, NEW c \in ClientIDs, Open(p, c) PROVE FleetTypeInv'
  BY <1>1, <1>5 DEF Open
<1> QED
  BY <1>2, <1>3, <1>4, <1>5
  DEF FleetNext, FleetBroadcasterNext, FleetTaskNext, CloseConnection, fleetVars

\* The initial state of the fleet.
LEMMA FleetTypeInit == FleetInit => FleetTypeInv
<1> SUFFICES ASSUME FleetInit PROVE FleetTypeInv
  OBVIOUS
<1>1. send \in [ClientIDs -> Seq(Messages)] /\ jobs \in [Pages -> Seq(RenderTasks)]
  BY DEF FleetInit
<1> QED
  BY <1>1, FleetAssumption DEF FleetInit, FleetTypeInv

----------------------------------------------------------------------------
(* Whatever clients answer, nothing unrendered is broadcast.               *)

\* A channel is closed only with a result in its slot, head moves only over
\* closed channels, and a slot never loses its frames.
LEMMA RenderedStep ==
  ASSUME CoreInv, RenderedInv, AnyNext PROVE RenderedInv'
<1> USE DEF RenderedInv, NothingUnrendered
<1>0. TypeInv /\ DoneInv /\ RingInv
  BY DEF CoreInv
<1>1. CASE DispatcherNext
  BY <1>1, DispatcherFrame DEF broadcasterVars, mapVars
<1>2. CASE BroadcasterNext
  <2>0. UNCHANGED <<buffer, closed>>
    BY <1>2, BroadcasterFrame DEF mapVars
  <2>1. CASE GetFrames
    <3>1. /\ seconds <= head - tail /\ seconds \in Nat /\ head \in Nat /\ tail \in Nat
          /\ UNCHANGED timeline
      BY <1>0, <2>1, GoroutinesType DEF GetFrames, RingInv, TypeInv, TypeOK
    <3>2. frames' = [k \in 1..seconds |-> buffer[Slot(tail + k - 1)]]
      BY <2>1, <3>1 DEF GetFrames, GetFramesToBroadcast, isBufferSizeEnoughForBroadcast,
                        GetLengthInBatches
    <3>3. \A k \in 1..seconds : tail + k - 1 \in Nat /\ tail + k - 1 < head
      BY <3>1
    <3>4. \A k \in 1..seconds : frames'[k] # Blank
      BY <1>0, <3>2, <3>3 DEF DoneInv
    <3>5. Len(frames') = seconds
      BY <3>1, <3>2
    <3> QED
      BY <2>0, <3>1, <3>4, <3>5
  <2>2. CASE SendFrames
    <3>1. /\ timeline' = timeline \o frames /\ bpc' = "remove"
          /\ timeline \in Seq(Slots \cup {Blank}) /\ frames \in Seq(Slots \cup {Blank})
          /\ \A k \in 1..Len(frames) : frames[k] # Blank
      BY <1>0, <2>2 DEF SendFrames, TypeInv, TypeOK
    <3>2. Len(timeline') = Len(timeline) + Len(frames)
      BY <3>1, LengthOfConcat
    <3>3. ASSUME NEW j \in 1..(Len(timeline) + Len(frames)) PROVE timeline'[j] # Blank
      <4>1. CASE j <= Len(timeline)
        BY <3>1, <4>1
      <4>2. CASE j > Len(timeline)
        BY <3>1, <4>2
      <4> QED
        BY <3>1, <4>1, <4>2
    <3> QED
      BY <2>0, <3>1, <3>2, <3>3
  <2>3. CASE ~ GetFrames /\ ~ SendFrames
    <3>1. UNCHANGED timeline /\ bpc' # "send"
      BY <1>2, <2>3 DEF BroadcasterNext, BroadcasterLoop, BroadcasterNotify, RemoveFrames,
           WaitUntilBufferSizeEnoughForBroadcast, BroadcasterWaitForAtLeastOne
    <3> QED
      BY <2>0, <3>1
  <2> QED
    BY <2>1, <2>2, <2>3
<1>3. ASSUME NEW i \in Goroutines, TaskNext(i) PROVE RenderedInv'
  BY <1>0, <1>3, TaskFrame DEF broadcasterVars, bufferVars
<1>4. CASE Answered
  <2>1. UNCHANGED <<bpc, frames, timeline, head>>
    BY <1>4, AnsweredFrame DEF pipelineVars, broadcasterVars
  <2>2. PICK c \in ClientIDs, id \in Nat, slot \in Slots : AnyResult(c, id, slot)
    BY <1>4 DEF Answered
  <2>3. ASSUME NEW i \in Registered,
               buffer' = [buffer EXCEPT ![Slot(head + i)] = slot],
               closed' = closed \cup {head + i}
        PROVE  \A p \in closed' : buffer'[Slot(p)] # Blank
    <3>1. /\ slot # Blank /\ head + i \in Int /\ buffer \in [Slots -> Slots \cup {Blank}]
          /\ \A p \in closed : p \in Int
      BY <1>0, GoroutinesType, MaxBatchesAssumption
      DEF Slots, Blank, Registered, TypeInv, TypeOK, DoneInv
    <3>2. \A p \in closed' : Slot(p) \in Slots
      BY <2>3, <3>1, SlotType
    <3> QED
      BY <2>3, <3>1, <3>2
  <2>4. \A p \in closed' : buffer'[Slot(p)] # Blank
    BY <2>2, <2>3, ResultEffect
  <2> QED
    BY <2>1, <2>4
<1>5. CASE EnvironmentNext /\ ~ Answered
  <2>1. UNCHANGED <<bpc, frames, timeline>>
    BY <1>5, EnvironmentFrame DEF pipelineVars, broadcasterVars
  <2>2. UNCHANGED <<buffer, closed>>
    BY <1>0, <1>5, HandlingIsAnswered
    DEF EnvironmentNext, Connect, Disconnect, Cancel, mapVars, bufferVars
  <2> QED
    BY <2>1, <2>2
<1> QED
  BY <1>1, <1>2, <1>3, <1>4, <1>5 DEF AnyNext, Next

\* The initial state.
LEMMA FleetInvInit == FleetInit => FleetInv
<1> SUFFICES ASSUME FleetInit PROVE FleetInv
  OBVIOUS
<1>1. CoreInv
  BY InvInit DEF FleetInit, Inv
<1>2. closed = {} /\ bpc = "loop" /\ timeline = << >>
  BY DEF FleetInit, Init, NewFrameBatchMap
<1>3. RenderedInv
  BY <1>2 DEF RenderedInv, NothingUnrendered
<1> QED
  BY <1>1, <1>3, FleetTypeInit DEF FleetInv

\* Every step of a fleet, reconnecting or not, preserves the invariant.
LEMMA FleetInvStep == FleetInv /\ [FleetNext]_<<vars, fleetVars>> => FleetInv'
<1> SUFFICES ASSUME FleetInv, [FleetNext]_<<vars, fleetVars>> PROVE FleetInv'
  OBVIOUS
<1>1. TypeInv /\ FleetTypeInv
  BY DEF FleetInv, CoreInv
<1>2. [AnyNext]_vars
  BY <1>1, StepIsAny
<1>3. CoreInv'
  BY <1>2, CoreStep DEF FleetInv
<1>4. FleetTypeInv'
  <2>1. CASE UNCHANGED <<vars, fleetVars>>
    BY <1>1, <2>1 DEF FleetTypeInv, fleetVars
  <2> QED
    BY <1>1, <2>1, FleetTypeStep
<1>5. RenderedInv'
  <2>1. CASE UNCHANGED vars
    BY <2>1 DEF FleetInv, RenderedInv, NothingUnrendered, vars, bufferVars, mapVars,
                pipelineVars, broadcasterVars
  <2> QED
    BY <1>2, <2>1, RenderedStep DEF FleetInv
<1> QED
  BY <1>3, <1>4, <1>5 DEF FleetInv

\* The invariant holds in every reachable state of every fleet.
LEMMA FleetInvAlways == FleetSpec => []FleetInv
  BY FleetInvInit, FleetInvStep, PTL DEF FleetSpec

\* For every fleet, reconnecting pages that answer what their connection was
\* never asked included: no slot is broadcast before some result was stored in it.
THEOREM FleetSendsNothingUnrendered == FleetSpec => []NothingUnrendered
<1>1. FleetInv => NothingUnrendered
  BY DEF FleetInv, RenderedInv
<1> QED
  BY <1>1, FleetInvAlways, PTL

\* For every fleet: no panic is reachable.  An answer under an id of another
\* task of the same client closes that task's channel, once.
THEOREM FleetNeverPanics == FleetSpec => []NoPanic
<1>1. FleetInv => NoPanic
  BY DEF FleetInv, CoreInv
<1> QED
  BY <1>1, FleetInvAlways, PTL

\* For every fleet: the registry stays exact, no task may write to a slot that
\* waits to be broadcast, no wakeup is lost and the loops never wait for each other.
THEOREM FleetKeepsPipelineSound ==
  FleetSpec => [](TasksTracked /\ NoTaskOnReadySlot /\ NoLostWakeup /\ LoopsNeverBothParked)
<1>1. FleetInv =>
        TasksTracked /\ NoTaskOnReadySlot /\ NoLostWakeup /\ LoopsNeverBothParked
  BY TasksAreAhead DEF FleetInv, CoreInv, RegistryInv, ParkedInv
<1> QED
  BY <1>1, FleetInvAlways, PTL

----------------------------------------------------------------------------
(* Whatever clients answer, the stream keeps its rhythm.                   *)

\* The first n batches of the animation, as the stream numbers them.
Animation(n) == [j \in 1..n |-> Slot(j - 1)]

LEMMA AnimationGrows ==
  ASSUME NEW m \in Nat, NEW n \in Nat
  PROVE  /\ Len(Animation(m)) = m
         /\ Animation(m) = << >> <=> m = 0
         /\ Animation(m + n) = Animation(m) \o [k \in 1..n |-> (m + k - 1) % MaxBatches]
<1> DEFINE more == [k \in 1..n |-> (m + k - 1) % MaxBatches]
<1>1. Animation(m) \in Seq(Slots) /\ Len(Animation(m)) = m
  <2>1. Animation(m) \in [1..m -> Slots]
    BY SlotType DEF Animation
  <2> QED
    BY <2>1, FunctionIsSeq
<1>2. more \in Seq(Slots) /\ Len(more) = n
  <2>1. \A k \in 1..n : m + k - 1 \in Int
    OBVIOUS
  <2>2. more \in [1..n -> Slots]
    BY <2>1, SlotType DEF Slot
  <2> QED
    BY <2>2, FunctionIsSeq
<1>3. Animation(m) = << >> <=> m = 0
  BY <1>1
<1>4. Animation(m + n) \in Seq(Slots) /\ Len(Animation(m + n)) = m + n
  <2>1. m + n \in Nat /\ Animation(m + n) \in [1..(m + n) -> Slots]
    BY SlotType DEF Animation
  <2> QED
    BY <2>1, FunctionIsSeq
<1> HIDE DEF more
<1>5. ASSUME NEW j \in 1..(m + n) PROVE Animation(m + n)[j] = (Animation(m) \o more)[j]
  <2>0. (Animation(m) \o more)[j] = IF j <= m THEN Animation(m)[j] ELSE more[j - m]
    BY <1>1, <1>2, ElementOfConcat
  <2>1. CASE j <= m
    <3>1. j \in 1..m
      BY <2>1
    <3> QED
      BY <2>0, <2>1, <3>1 DEF Animation
  <2>2. CASE ~ (j <= m)
    <3>1. j - m \in 1..n /\ m + (j - m) - 1 = j - 1
      BY <2>2
    <3>2. more[j - m] = (j - 1) % MaxBatches
      BY <3>1 DEF more
    <3> QED
      BY <2>0, <2>2, <3>2 DEF Animation, Slot
  <2> QED
    BY <2>1, <2>2
<1>6. Animation(m) \o more \in Seq(Slots)
  BY <1>1, <1>2
<1>7. Len(Animation(m) \o more) = m + n
  BY <1>1, <1>2, LengthOfConcat
<1>8. Animation(m + n) = Animation(m) \o more
  BY <1>4, <1>5, <1>6, <1>7, EqualSequences
<1> QED
  BY <1>1, <1>3, <1>8 DEF more

LEMMA RhythmSimulation ==
  ASSUME CoreInv, [AnyNext]_vars PROVE [Rhythm!Next]_Rhythm!vars
<1> DEFINE m == Len(timeline)
<1>0. timeline \in Seq(Slots \cup {Blank}) /\ m \in Nat
  BY DEF CoreInv, TypeInv, TypeOK
<1>1. EndRound \/ SendFrames \/ UNCHANGED <<head, timeline>>
  BY StreamMoves DEF CoreInv
<1>2. Len(Animation(m)) = m /\ (Animation(m) = << >> <=> timeline = << >>)
  <2>1. Len(Animation(m)) = m /\ (Animation(m) = << >> <=> m = 0)
    BY <1>0, AnimationGrows
  <2>2. m = 0 <=> timeline = << >>
    BY <1>0
  <2> QED
    BY <2>1, <2>2
<1>3. CASE EndRound
  BY <1>2, <1>3, EndRoundProduces DEF Rhythm!Next, Rhythm!Produce, Animation
<1>4. CASE SendFrames
  <2> DEFINE n == IF timeline = << >> THEN FirstSecondsToBroadcast ELSE SecondsToBroadcast
  <2>1. /\ n \in Nat /\ Len(frames) = n /\ m + n <= head
        /\ timeline' = timeline \o frames /\ head' = head
    BY <1>4, SendFramesBroadcasts
  <2>2. Len(timeline') = m + n
    <3>1. frames \in Seq(Slots \cup {Blank})
      BY DEF CoreInv, TypeInv, TypeOK
    <3> QED
      BY <1>0, <2>1, <3>1, LengthOfConcat
  <2>3. Animation(m + n) = Animation(m) \o [k \in 1..n |-> (m + k - 1) % MaxBatches]
    BY <1>0, <2>1, AnimationGrows
  <2>4. Animation(Len(timeline')) = Animation(m) \o [k \in 1..n |-> (m + k - 1) % MaxBatches]
    BY <2>2, <2>3
  <2>5. Rhythm!Broadcast
    BY <1>2, <2>1, <2>4 DEF Rhythm!Broadcast, Animation
  <2> QED
    BY <2>5 DEF Rhythm!Next
<1>5. CASE UNCHANGED <<head, timeline>>
  BY <1>5 DEF Rhythm!vars
<1> QED
  BY <1>1, <1>3, <1>4, <1>5

\* For every fleet, with pages that reconnect and answer under ids of another
\* connection: rounds and broadcasts are those of the abstract stream, in size,
\* number and order.  A wrong answer costs the contents of a slot, and nothing else.
THEOREM FleetKeepsTheRhythm == FleetSpec => KeepsTheRhythm
<1>1. FleetInit => Rhythm!Init
  BY DEF FleetInit, Init, NewFrameBuffer, Rhythm!Init
<1>2. FleetInv /\ [FleetNext]_<<vars, fleetVars>> => [Rhythm!Next]_Rhythm!vars
  <2>1. ASSUME FleetInv, [FleetNext]_<<vars, fleetVars>> PROVE [Rhythm!Next]_Rhythm!vars
    <3>1. CoreInv /\ TypeInv /\ FleetTypeInv
      BY <2>1 DEF FleetInv, CoreInv
    <3>2. [AnyNext]_vars
      BY <2>1, <3>1, StepIsAny
    <3> QED
      BY <3>1, <3>2, RhythmSimulation
  <2> QED
    BY <2>1
<1> QED
  BY <1>1, <1>2, FleetInvAlways, PTL DEF FleetSpec, KeepsTheRhythm, Rhythm!Spec

----------------------------------------------------------------------------
(* Pages that do not reconnect ask nothing else of the pipeline than       *)
(* Orchestrator assumes.                                                   *)

\* A client that was opened stays known, and what was asked stays asked.
LEMMA KnownStep ==
  ASSUME TypeInv, AnyNext
  PROVE  Known \subseteq Known' /\ requests \subseteq requests'
<1>1. CASE DispatcherNext \/ BroadcasterNext
  <2>1. UNCHANGED gone
    BY <1>1 DEF DispatcherNext, DispatcherLoop, WaitForRoom, DispatcherWaitForAtLeastOne,
         StartRound, EndRound, DispatcherNotify, BroadcasterNext, BroadcasterLoop,
         WaitUntilBufferSizeEnoughForBroadcast, BroadcasterWaitForAtLeastOne, GetFrames,
         SendFrames, RemoveFrames, BroadcasterNotify, PoolPark, poolVars
  <2> QED
    BY <1>1, <2>1, DispatcherFrame, BroadcasterFrame DEF Known
<1>2. ASSUME NEW i \in Goroutines, TaskNext(i)
      PROVE  Known \subseteq Known' /\ requests \subseteq requests'
  BY <1>2 DEF TaskNext, Pick, Repick, Register, Request, RequestWork, Finish, Timeout,
              Switch, PickPark, PoolPark, poolVars, Known
<1>3. CASE EnvironmentNext
  BY <1>3 DEF EnvironmentNext, Connect, Disconnect, HandleResult, Cancel, AddClient,
              RemoveClient, poolVars, Known
<1>4. CASE Answered
  BY <1>4, AnsweredFrame DEF poolVars, Known
<1> QED
  BY <1>1, <1>2, <1>3, <1>4 DEF AnyNext, Next

\* Pages: a client is connected by Open only, once, and closed once.
LEMMA MembershipStep ==
  ASSUME TypeInv, FleetTypeInv, FleetNext
  PROVE  \/ UNCHANGED <<clients, gone>>
         \/ \E p \in Pages, c \in ClientIDs : Open(p, c)
         \/ \E c \in clients : clients' = clients \ {c} /\ gone' = gone \cup {c}
<1>1. CASE DispatcherNext \/ FleetBroadcasterNext
  BY <1>1 DEF FleetBroadcasterNext, DispatcherNext, DispatcherLoop, WaitForRoom,
       DispatcherWaitForAtLeastOne, StartRound, EndRound, DispatcherNotify,
       BroadcasterNext, BroadcasterLoop, WaitUntilBufferSizeEnoughForBroadcast,
       BroadcasterWaitForAtLeastOne, GetFrames, SendFrames, RemoveFrames,
       BroadcasterNotify, PoolPark, poolVars
<1>2. ASSUME NEW i \in Goroutines, FleetTaskNext(i) PROVE UNCHANGED <<clients, gone>>
  BY <1>2 DEF FleetTaskNext, TaskNext, Pick, Repick, Register, Request, Finish, Timeout,
              Switch, PickPark, PoolPark, poolVars
<1>3. CASE TelemetryBroadcaster \/ Cancel \/ (\E p \in Pages : WritePump(p) \/ Render(p))
  BY <1>3 DEF TelemetryBroadcaster, Cancel, WritePump, Render, vars, poolVars
<1>4. ASSUME NEW c \in ClientIDs, CloseConnection(c)
      PROVE  c \in clients /\ clients' = clients \ {c} /\ gone' = gone \cup {c}
  BY <1>4 DEF CloseConnection, Disconnect, RemoveClient
<1> QED
  BY <1>1, <1>2, <1>3, <1>4 DEF FleetNext

\* AskedInv is preserved while no page reconnects.
LEMMA AskedStep ==
  ASSUME Reconnects = FALSE, TypeInv, FleetTypeInv, AskedInv, FleetNext PROVE AskedInv'
<1>0. Known \subseteq Known' /\ requests \subseteq requests'
  <2>1. [AnyNext]_vars
    BY StepIsAny
  <2>2. CASE UNCHANGED vars
    BY <2>2 DEF vars, poolVars, Known
  <2> QED
    BY <2>1, <2>2, KnownStep
<1>1. ASSUME NEW i \in Goroutines
      PROVE  /\ gpc'[i] \notin {"idle", "pick"} => worker'[i] \in Known'
             /\ gpc'[i] = "switch" => next'[i] \in Known'
  <2>1. CASE UNCHANGED <<gpc, worker, next>>
    BY <1>0, <2>1 DEF AskedInv
  <2>2. CASE StartRound
    BY <1>0, <2>2 DEF StartRound, AskedInv
  <2>3. ASSUME NEW j \in Goroutines, TaskNext(j)
        PROVE  /\ gpc'[i] \notin {"idle", "pick"} => worker'[i] \in Known'
               /\ gpc'[i] = "switch" => next'[i] \in Known'
    <3>1. /\ gpc'[i] \notin {"idle", "pick"} => worker'[i] \in Known
          /\ gpc'[i] = "switch" => next'[i] \in Known
      BY <2>3 DEF TaskNext, Pick, Repick, Register, Request, Finish, Timeout, Switch,
           PickPark, taskVars, AskedInv, Known, TypeInv, TypeOK
    <3> QED
      BY <1>0, <3>1
  <2>4. DispatcherNext => StartRound \/ UNCHANGED <<gpc, worker, next>>
    BY DEF DispatcherNext, DispatcherLoop, WaitForRoom, DispatcherWaitForAtLeastOne,
           EndRound, DispatcherNotify, taskVars
  <2>5. (\E j \in Goroutines : FleetTaskNext(j)) \/ DispatcherNext
          \/ UNCHANGED <<gpc, worker, next>>
    BY BroadcasterFrame
    DEF FleetNext, FleetBroadcasterNext, TelemetryBroadcaster, WritePump, Render, Open,
        Connect, CloseConnection, Disconnect, Cancel, vars, pipelineVars, taskVars
  <2> QED
    BY <2>1, <2>2, <2>3, <2>4, <2>5 DEF FleetTaskNext
<1>2. clients' \cap gone' = {}
  BY MembershipStep DEF AskedInv, Open, Connect, AddClient
<1>3. ASSUME NEW c \in ClientIDs \ Known' PROVE send'[c] = << >>
  <2>1. c \notin Known /\ c \notin clients /\ send[c] = << >>
    BY <1>0, <1>3 DEF AskedInv, Known
  <2>2. ASSUME NEW i \in Goroutines, Request(i) PROVE worker[i] # c
    BY <2>1, <2>2 DEF Request, AskedInv
  <2> QED
    BY <2>1, <2>2, QueueStep
<1>4. ASSUME NEW c \in clients', NEW k \in 1..Len(send'[c]),
             send'[c][k].type = "RenderTask"
      PROVE  RequestOf(c, send'[c][k]) \in requests'
  <2>0. c \in ClientIDs /\ send[c] \in Seq(Messages)
    <3>1. TypeInv'
      BY StepIsAny, TypeStep, TypeAnswered DEF AnyNext
    <3> QED
      BY <3>1 DEF TypeInv, TypeOK, FleetTypeInv
  <2>1. CASE c \notin clients
    <3>1. PICK p \in Pages, d \in ClientIDs : Open(p, d)
      BY <1>4, <2>1, MembershipStep
    <3>2. c \notin Known
      BY <1>4, <2>1, <3>1 DEF Open, Connect, AddClient, Known
    <3>3. send'[c] = << >>
      BY <2>0, <3>1, <3>2 DEF AskedInv, Open
    <3> QED
      BY <1>4, <3>3
  <2>2. CASE c \in clients
    <3>1. \A l \in 1..Len(send[c]) :
            send[c][l].type = "RenderTask" => RequestOf(c, send[c][l]) \in requests'
      BY <1>0, <2>2 DEF AskedInv
    <3>2. CASE send'[c] = send[c]
      BY <1>4, <3>1, <3>2
    <3>3. ASSUME NEW m, send'[c] = Append(send[c], m),
                 m.type = "RenderTask" => RequestOf(c, m) \in requests'
          PROVE  RequestOf(c, send'[c][k]) \in requests'
      <4>1. k \in 1..Len(send[c]) \/ k = Len(send[c]) + 1
        BY <1>4, <2>0, <3>3
      <4>2. k \in 1..Len(send[c]) => send'[c][k] = send[c][k]
        BY <2>0, <3>3
      <4>3. k = Len(send[c]) + 1 => send'[c][k] = m
        BY <2>0, <3>3
      <4> QED
        BY <1>4, <3>1, <3>3, <4>1, <4>2, <4>3
    <3>4. CASE send[c] # << >> /\ send'[c] = Tail(send[c])
      <4>1. k + 1 \in 1..Len(send[c]) /\ send'[c][k] = send[c][k + 1]
        BY <1>4, <2>0, <3>4
      <4> QED
        BY <1>4, <3>1, <4>1
    <3>5. ASSUME NEW i \in Goroutines, Request(i), worker[i] = c
          PROVE  RequestOf(c, RenderTask(renderTaskID[i], startFrame[i])) \in requests'
      BY <2>2, <3>5 DEF Request, RequestWork, RequestOf, RenderTask
    <3>6. FrameBroadcast(tail).type # "RenderTask" /\ Telemetry.type # "RenderTask"
      BY DEF FrameBroadcast, Telemetry
    <3>7. CASE send'[c] = << >>
      BY <1>4, <3>7
    <3> QED
      BY <2>0, <3>2, <3>3, <3>4, <3>5, <3>6, <3>7, QueueStep
  <2> QED
    BY <2>1, <2>2
<1>5. ASSUME NEW p \in Pages, NEW k \in 1..Len(jobs'[p])
      PROVE  RequestOf(ws'[p], jobs'[p][k]) \in requests'
  <2>0. jobs[p] \in Seq(RenderTasks)
    BY DEF FleetTypeInv
  <2>1. CASE UNCHANGED <<ws, jobs>>
    BY <1>0, <1>5, <2>1 DEF AskedInv
  <2>2. ASSUME NEW q \in Pages, Render(q)
        PROVE  RequestOf(ws'[p], jobs'[p][k]) \in requests'
    <3>1. /\ UNCHANGED ws /\ jobs[q] # << >>
          /\ jobs' = [jobs EXCEPT ![q] = Tail(jobs[q])]
      BY <2>2 DEF Render
    <3>2. CASE p # q
      BY <1>0, <1>5, <3>1, <3>2 DEF AskedInv, FleetTypeInv
    <3>3. CASE p = q
      <4>1. jobs'[p] = Tail(jobs[p]) /\ jobs[p] # << >>
        BY <3>1, <3>3 DEF FleetTypeInv
      <4>2. k + 1 \in 1..Len(jobs[p]) /\ jobs'[p][k] = jobs[p][k + 1]
        BY <1>5, <2>0, <4>1
      <4> QED
        BY <1>0, <3>1, <4>2 DEF AskedInv
    <3> QED
      BY <3>2, <3>3
  <2>3. ASSUME NEW q \in Pages, NEW c \in ClientIDs, Open(q, c)
        PROVE  RequestOf(ws'[p], jobs'[p][k]) \in requests'
    <3>1. UNCHANGED jobs /\ ws' = [ws EXCEPT ![q] = c] /\ ws[q] = NoClient
      BY <2>3 DEF Open
    <3>2. RequestOf(ws[p], jobs[p][k]) \in requests
      BY <1>5, <3>1 DEF AskedInv
    <3>3. ws[p] # NoClient
      BY <3>2, ClientPoolAssumption DEF RequestOf, TypeInv, TypeOK, Requests
    <3>4. ws'[p] = ws[p]
      BY <3>1, <3>3 DEF FleetTypeInv
    <3> QED
      BY <1>0, <3>1, <3>2, <3>4
  <2>4. ASSUME NEW q \in Pages, WritePump(q)
        PROVE  RequestOf(ws'[p], jobs'[p][k]) \in requests'
    <3> DEFINE c == ws[q]
               m == Head(send[c])
    <3>1. /\ c \in clients /\ c \in ClientIDs /\ send[c] # << >> /\ OnMessage(q, m)
          /\ UNCHANGED ws /\ send[c] \in Seq(Messages)
      BY <2>4 DEF WritePump, TypeInv, TypeOK, FleetTypeInv
    <3>2. m = send[c][1] /\ 1 \in 1..Len(send[c])
      BY <3>1
    <3>3. m.type = "RenderTask" => RequestOf(c, m) \in requests
      BY <3>1, <3>2 DEF AskedInv
    <3> HIDE DEF m
    <3>4. CASE UNCHANGED jobs
      BY <1>0, <1>5, <3>1, <3>4 DEF AskedInv
    <3>5. CASE m.type = "RenderTask" /\ jobs' = [jobs EXCEPT ![q] = Append(jobs[q], m)]
      <4>1. CASE p # q
        BY <1>0, <1>5, <3>1, <3>5, <4>1 DEF AskedInv, FleetTypeInv
      <4>2. CASE p = q
        <5>1. jobs'[p] = Append(jobs[p], m)
          BY <3>5, <4>2 DEF FleetTypeInv
        <5>2. k \in 1..Len(jobs[p]) \/ k = Len(jobs[p]) + 1
          BY <1>5, <2>0, <5>1
        <5>3. k \in 1..Len(jobs[p]) => jobs'[p][k] = jobs[p][k]
          BY <2>0, <5>1
        <5>4. k = Len(jobs[p]) + 1 => jobs'[p][k] = m
          BY <2>0, <5>1
        <5> QED
          BY <1>0, <3>1, <3>3, <3>5, <4>2, <5>2, <5>3, <5>4 DEF AskedInv
      <4> QED
        BY <4>1, <4>2
    <3> QED
      BY <3>1, <3>4, <3>5 DEF OnMessage
  <2> QED
    BY <2>1, <2>2, <2>3, <2>4
    DEF FleetNext, FleetBroadcasterNext, FleetTaskNext, TelemetryBroadcaster,
        CloseConnection, fleetVars
<1> QED
  BY <1>1, <1>2, <1>3, <1>4, <1>5 DEF AskedInv

\* What a page answers, it was asked for.
LEMMA StepIsNext ==
  ASSUME TypeInv, FleetTypeInv, AskedInv, [FleetNext]_<<vars, fleetVars>>
  PROVE  [Next]_vars
<1>1. ASSUME NEW p \in Pages, Render(p) PROVE [Next]_vars
  <2>1. CASE UNCHANGED vars
    BY <2>1
  <2>2. CASE AnyResult(ws[p], Head(jobs[p]).id, Head(jobs[p]).start)
    <3> DEFINE r == RequestOf(ws[p], Head(jobs[p]))
    <3>1. jobs[p] # << >>
      BY <1>1 DEF Render
    <3>2. r \in requests
      BY <3>1, HeadJob DEF AskedInv
    <3>3. HandleResult(r)
      BY <2>2, <3>2 DEF AnyResult, HandleResult, RequestOf
    <3> QED
      BY <3>2, <3>3 DEF Next, EnvironmentNext
  <2> QED
    BY <1>1, <2>1, <2>2, RenderIsAnswer
<1>2. CASE FleetNext /\ ~ \E p \in Pages : Render(p)
  BY <1>2 DEF FleetNext, FleetBroadcasterNext, FleetTaskNext, TelemetryBroadcaster,
       WritePump, Open, CloseConnection, Next, EnvironmentNext
<1> QED
  BY <1>1, <1>2

\* The fleet implements the pipeline: with pages that do not reconnect, for
\* every number of pages and connections, every queue size and whatever is
\* dropped, lost or closed, every step is a step of Orchestrator.
THEOREM FleetImplementsOrchestrator ==
  ASSUME Reconnects = FALSE
  PROVE  FleetSpec => ImplementsOrchestrator
<1> DEFINE Asked == TypeInv /\ FleetTypeInv /\ AskedInv
<1>1. FleetInit => Init /\ Asked
  <2> SUFFICES ASSUME FleetInit PROVE Init /\ Asked
    OBVIOUS
  <2>1. /\ \A i \in Goroutines : gpc[i] = "idle"
        /\ clients = {} /\ \A c \in ClientIDs : Len(send[c]) = 0 /\ send[c] = << >>
        /\ \A p \in Pages : Len(jobs[p]) = 0
    BY DEF FleetInit, Init, NewClientPool
  <2>2. AskedInv
    BY <2>1 DEF AskedInv
  <2> QED
    BY <2>2, TypeInit, FleetTypeInit DEF FleetInit
<1>2. Asked /\ [FleetNext]_<<vars, fleetVars>> => [Next]_vars
  BY StepIsNext
<1>3. Asked /\ [FleetNext]_<<vars, fleetVars>> => Asked'
  <2> SUFFICES ASSUME Asked, [FleetNext]_<<vars, fleetVars>> PROVE Asked'
    OBVIOUS
  <2>1. TypeInv'
    BY <1>2, TypeStep
  <2>2. CASE FleetNext
    BY <2>1, <2>2, FleetTypeStep, AskedStep
  <2>3. CASE UNCHANGED <<vars, fleetVars>>
    <3>1. FleetTypeInv'
      BY <2>3 DEF FleetTypeInv, fleetVars
    <3>2. AskedInv'
      BY <2>3 DEF AskedInv, Known, vars, fleetVars, poolVars, pipelineVars, taskVars
    <3> QED
      BY <2>1, <3>1, <3>2
  <2> QED
    BY <2>2, <2>3
<1> HIDE DEF Asked
<1> QED
  BY <1>1, <1>2, <1>3, PTL DEF FleetSpec, ImplementsOrchestrator, Spec

\* Hence, without reconnects, what the whole fleet is sent is contiguous.
THEOREM FleetTimelineIsContiguous ==
  ASSUME Reconnects = FALSE
  PROVE  FleetSpec => []TimelineContiguous
  BY FleetImplementsOrchestrator, TimelineIsContiguous, PTL DEF ImplementsOrchestrator

\* And the whole, with its send queues, sockets and Web Workers, is the abstract
\* stream, contents included.
THEOREM FleetImplementsStream ==
  ASSUME Reconnects = FALSE
  PROVE  FleetSpec => ImplementsFrameStream
  BY FleetImplementsOrchestrator, PipelineImplementsStream, PTL DEF ImplementsOrchestrator

----------------------------------------------------------------------------
(* A page never goes back in the timeline.                                 *)

\* The tail only moves forward, and it is a natural number.
LEMMA TailStep ==
  ASSUME TypeInv, [AnyNext]_vars
  PROVE  tail \in Nat /\ tail' \in Nat /\ tail <= tail'
<1>1. tail \in Nat
  BY DEF TypeInv, TypeOK
<1>2. TypeInv'
  BY TypeStep, TypeAnswered DEF AnyNext
<1>3. tail' \in Nat
  BY <1>2 DEF TypeInv, TypeOK
<1>4. CASE BroadcasterNext
  <2>1. UNCHANGED tail \/ tail' = tail + seconds
    BY <1>4 DEF BroadcasterNext, BroadcasterLoop, WaitUntilBufferSizeEnoughForBroadcast,
         BroadcasterWaitForAtLeastOne, GetFrames, SendFrames, RemoveFrames,
         BroadcasterNotify, BufferPark, BufferNotify, RemoveSentFramesFromBuffer,
         bufferVars
  <2> QED
    BY <1>1, <1>3, <2>1, GoroutinesType
<1>5. CASE ~ BroadcasterNext
  <2>1. UNCHANGED tail
    BY <1>5, DispatcherFrame, TaskFrame, EnvironmentFrame, AnsweredFrame
    DEF AnyNext, Next, bufferVars, vars
  <2> QED
    BY <1>1, <1>3, <2>1
<1> QED
  BY <1>1, <1>3, <1>4, <1>5

\* What a page is shown: nothing new, or the broadcast at the front of its
\* client's queue.
LEMMA ShownStep ==
  ASSUME TypeInv, FleetTypeInv, FleetNext, NEW p \in Pages
  PROVE  \/ played'[p] = played[p]
         \/ /\ ws[p] \in ClientIDs /\ send[ws[p]] # << >> /\ UNCHANGED ws
            /\ IsBroadcast(Head(send[ws[p]]))
            /\ played'[p] = Head(send[ws[p]]).position
            /\ send' = [send EXCEPT ![ws[p]] = Tail(send[ws[p]])]
<1>1. CASE UNCHANGED played
  BY <1>1
<1>2. ASSUME NEW q \in Pages, WritePump(q)
      PROVE  \/ played'[p] = played[p]
             \/ /\ ws[p] \in ClientIDs /\ send[ws[p]] # << >> /\ UNCHANGED ws
                /\ IsBroadcast(Head(send[ws[p]]))
                /\ played'[p] = Head(send[ws[p]]).position
                /\ send' = [send EXCEPT ![ws[p]] = Tail(send[ws[p]])]
  <2>1. /\ ws[q] \in ClientIDs /\ send[ws[q]] # << >> /\ OnMessage(q, Head(send[ws[q]]))
        /\ send' = [send EXCEPT ![ws[q]] = Tail(send[ws[q]])] /\ UNCHANGED ws
    BY <1>2 DEF WritePump, TypeInv, TypeOK
  <2>2. CASE UNCHANGED played
    BY <2>2
  <2>3. CASE /\ Head(send[ws[q]]).type = "FrameBroadcast"
             /\ played' = [played EXCEPT ![q] = Head(send[ws[q]]).position]
    BY <2>1, <2>3 DEF FleetTypeInv, IsBroadcast
  <2> QED
    BY <2>1, <2>2, <2>3 DEF OnMessage
<1> QED
  BY <1>1, <1>2 DEF FleetNext, FleetBroadcasterNext, FleetTaskNext, TelemetryBroadcaster,
       Render, Open, CloseConnection, fleetVars

\* The broadcasts queued for a client after a step: the ones queued before, in
\* their order, and possibly one at the end, for the position of the tail.
Carried(c, d) ==
  \A k \in 1..Len(send'[c]) : IsBroadcast(send'[c][k]) =>
    \/ k + d \in 1..Len(send[c]) /\ send'[c][k] = send[c][k + d]
    \/ k = Len(send'[c]) /\ c \in clients /\ send'[c][k].position = tail

\* Every step carries the queued broadcasts over.
LEMMA BroadcastStep ==
  ASSUME TypeInv, FleetTypeInv, FleetNext, NEW c \in ClientIDs
  PROVE  \E d \in {0, 1} : Carried(c, d)
<1>0. send[c] \in Seq(Messages)
  BY DEF FleetTypeInv
<1>1. CASE send'[c] = send[c]
  <2>1. \A k \in 1..Len(send'[c]) :
          k + 0 \in 1..Len(send[c]) /\ send'[c][k] = send[c][k + 0]
    BY <1>0, <1>1
  <2> QED
    BY <2>1 DEF Carried
<1>2. ASSUME NEW m, send'[c] = Append(send[c], m),
             IsBroadcast(m) => c \in clients /\ m.position = tail
      PROVE  Carried(c, 0)
  <2>1. Len(send'[c]) = Len(send[c]) + 1 /\ Len(send[c]) \in Nat
    BY <1>0, <1>2
  <2>2. \A k \in 1..Len(send[c]) : send'[c][k] = send[c][k]
    BY <1>0, <1>2
  <2>3. send'[c][Len(send'[c])] = m
    BY <1>0, <1>2
  <2>4. \A k \in 1..Len(send'[c]) : k + 0 = k /\ (k \in 1..Len(send[c]) \/ k = Len(send'[c]))
    BY <2>1
  <2> QED
    BY <1>2, <2>2, <2>3, <2>4 DEF Carried
<1>3. CASE send[c] # << >> /\ send'[c] = Tail(send[c])
  <2>1. \A k \in 1..Len(send'[c]) :
          k + 1 \in 1..Len(send[c]) /\ send'[c][k] = send[c][k + 1]
    BY <1>0, <1>3
  <2> QED
    BY <2>1 DEF Carried
<1>4. /\ IsBroadcast(FrameBroadcast(tail)) /\ FrameBroadcast(tail).position = tail
      /\ ~ IsBroadcast(Telemetry)
      /\ \A i \in Goroutines : ~ IsBroadcast(RenderTask(renderTaskID[i], startFrame[i]))
  BY DEF IsBroadcast, FrameBroadcast, Telemetry, RenderTask
<1>5. CASE send'[c] = << >>
  <2>1. 1..Len(send'[c]) = {}
    BY <1>5
  <2> QED
    BY <2>1 DEF Carried
<1> QED
  BY <1>1, <1>2, <1>3, <1>4, <1>5, QueueStep

\* PlayedInv: queues keep the order in which the broadcaster moves the tail, and a
\* page that opens a connection finds nothing queued on it.
LEMMA PlayedStep ==
  ASSUME TypeInv, FleetTypeInv, PlayedInv, FleetNext
  PROVE  PlayedInv' /\ \A p \in Pages : played'[p] >= played[p]
<1>0. tail \in Nat /\ tail' \in Nat /\ tail <= tail' /\ Known \subseteq Known'
  <2>1. [AnyNext]_vars
    BY StepIsAny
  <2>2. UNCHANGED vars => Known \subseteq Known'
    BY DEF vars, poolVars, Known
  <2> QED
    BY <2>1, <2>2, TailStep, KnownStep
<1>1. \A c \in ClientIDs : \A k \in 1..Len(send[c]) : IsBroadcast(send[c][k]) =>
        send[c][k].position \in Int
  <2> SUFFICES ASSUME NEW c \in ClientIDs, NEW k \in 1..Len(send[c]),
                      IsBroadcast(send[c][k])
               PROVE  send[c][k].position \in Int
    OBVIOUS
  <2>1. send[c][k] \in Messages
    BY DEF FleetTypeInv
  <2>2. send[c][k] \in FrameBroadcasts
    BY <2>1, MessageTypes DEF IsBroadcast
  <2>3. \A m \in FrameBroadcasts : m.position \in Int
    BY DEF FrameBroadcasts
  <2> QED
    BY <2>2, <2>3
<1>2. ASSUME NEW p \in Pages PROVE played'[p] >= played[p] /\ played'[p] <= tail'
  <2>1. played[p] \in Int /\ played[p] <= tail
    BY DEF PlayedInv, FleetTypeInv
  <2>2. CASE played'[p] = played[p]
    BY <1>0, <2>1, <2>2
  <2>3. CASE /\ ws[p] \in ClientIDs /\ send[ws[p]] # << >>
             /\ IsBroadcast(Head(send[ws[p]]))
             /\ played'[p] = Head(send[ws[p]]).position
    <3>1. send[ws[p]] \in Seq(Messages)
      BY <2>3 DEF FleetTypeInv
    <3>2. Head(send[ws[p]]) = send[ws[p]][1] /\ 1 \in 1..Len(send[ws[p]])
      BY <2>3, <3>1
    <3>3. /\ send[ws[p]][1].position \in Int /\ send[ws[p]][1].position <= tail
          /\ played[p] <= send[ws[p]][1].position
      BY <1>1, <2>3, <3>2 DEF PlayedInv
    <3> QED
      BY <1>0, <2>1, <2>3, <3>2, <3>3
  <2> QED
    BY <2>2, <2>3, ShownStep
<1>3. ASSUME NEW c \in ClientIDs, NEW k \in 1..Len(send'[c]), IsBroadcast(send'[c][k])
      PROVE  /\ c \in Known'
             /\ send'[c][k].position <= tail'
             /\ \A l \in 1..Len(send'[c]) : l > k /\ IsBroadcast(send'[c][l]) =>
                  send'[c][k].position <= send'[c][l].position
             /\ \A p \in Pages : ws'[p] = c => played'[p] <= send'[c][k].position
  <2>0. send[c] \in Seq(Messages) /\ Len(send[c]) \in Nat /\ Len(send'[c]) \in Nat
    <3>1. send'[c] \in Seq(Messages)
      BY FleetTypeStep DEF FleetTypeInv
    <3> QED
      BY <3>1 DEF FleetTypeInv
  <2>1. PICK d \in {0, 1} : Carried(c, d)
    BY BroadcastStep
  <2>2. c \in Known' /\ send'[c][k].position <= tail'
    <3>1. CASE k + d \in 1..Len(send[c]) /\ send'[c][k] = send[c][k + d]
      <4>1. /\ c \in Known /\ send[c][k + d].position <= tail
            /\ send[c][k + d].position \in Int
        BY <1>1, <1>3, <3>1 DEF PlayedInv
      <4> QED
        BY <1>0, <3>1, <4>1
    <3>2. CASE c \in clients /\ send'[c][k].position = tail
      BY <1>0, <3>2 DEF Known
    <3> QED
      BY <1>3, <2>1, <3>1, <3>2 DEF Carried
  <2>3. ASSUME NEW l \in 1..Len(send'[c]), l > k, IsBroadcast(send'[c][l])
        PROVE  send'[c][k].position <= send'[c][l].position
    <3>1. k + d \in 1..Len(send[c]) /\ send'[c][k] = send[c][k + d]
      BY <1>3, <2>0, <2>1, <2>3 DEF Carried
    <3>2. CASE l + d \in 1..Len(send[c]) /\ send'[c][l] = send[c][l + d]
      <4>1. l + d > k + d
        BY <2>0, <2>3
      <4> QED
        BY <1>3, <2>3, <3>1, <3>2, <4>1 DEF PlayedInv
    <3>3. CASE send'[c][l].position = tail
      BY <1>3, <3>1, <3>3 DEF PlayedInv
    <3> QED
      BY <2>1, <2>3, <3>2, <3>3 DEF Carried
  <2>4. ASSUME NEW p \in Pages, ws'[p] = c PROVE played'[p] <= send'[c][k].position
    <3>1. CASE ws[p] # c
      <4>1. PICK q \in Pages, e \in ClientIDs : Open(q, e)
        BY <2>4, <3>1 DEF FleetNext, FleetBroadcasterNext, FleetTaskNext, WritePump,
             TelemetryBroadcaster, Render, CloseConnection, fleetVars
      <4>2. c = e /\ c \notin Known
        BY <2>4, <3>1, <4>1 DEF Open, Connect, AddClient, Known, FleetTypeInv
      <4>3. send'[c] = send[c] \/ send'[c] = << >>
        BY <4>1 DEF Open
      <4> QED
        BY <1>3, <4>2, <4>3 DEF PlayedInv
    <3>2. CASE ws[p] = c /\ played'[p] = played[p]
      <4>1. CASE k + d \in 1..Len(send[c]) /\ send'[c][k] = send[c][k + d]
        BY <1>3, <3>2, <4>1 DEF PlayedInv
      <4>2. CASE send'[c][k].position = tail
        BY <3>2, <4>2 DEF PlayedInv
      <4> QED
        BY <1>3, <2>1, <4>1, <4>2 DEF Carried
    <3>3. CASE /\ ws[p] = c /\ send[c] # << >> /\ IsBroadcast(Head(send[c]))
               /\ played'[p] = Head(send[c]).position
               /\ send' = [send EXCEPT ![c] = Tail(send[c])]
      <4>1. send'[c] = Tail(send[c]) /\ send[c] # << >>
        BY <3>3 DEF FleetTypeInv
      <4>2. /\ k + 1 \in 1..Len(send[c]) /\ send'[c][k] = send[c][k + 1] /\ k + 1 > 1
            /\ Head(send[c]) = send[c][1] /\ 1 \in 1..Len(send[c])
        BY <2>0, <4>1
      <4>3. IsBroadcast(send[c][1]) /\ IsBroadcast(send[c][k + 1])
        BY <1>3, <3>3, <4>2
      <4>4. send[c][1].position <= send[c][k + 1].position
        BY <4>2, <4>3 DEF PlayedInv
      <4> QED
        BY <3>3, <4>2, <4>4
    <3> QED
      BY <3>1, <3>2, <3>3, ShownStep
  <2> QED
    BY <2>2, <2>3, <2>4
<1> QED
  BY <1>2, <1>3 DEF PlayedInv

\* For every fleet, and across full queues, closed connections and reconnects:
\* a page is never shown frames from before those it was shown last.
THEOREM PagesNeverGoBack == FleetSpec => NeverPlaysBackwards
<1> DEFINE Playing == TypeInv /\ FleetTypeInv /\ PlayedInv
           Onward == \A p \in Pages : played'[p] >= played[p]
<1>1. FleetInit => Playing
  <2> SUFFICES ASSUME FleetInit PROVE Playing
    OBVIOUS
  <2>1. tail = 0 /\ (\A c \in ClientIDs : Len(send[c]) = 0) /\ \A p \in Pages : played[p] = -1
    BY DEF FleetInit, Init, NewFrameBuffer
  <2>2. PlayedInv
    BY <2>1 DEF PlayedInv
  <2> QED
    BY <2>2, TypeInit, FleetTypeInit DEF FleetInit
<1>2. Playing /\ [FleetNext]_<<vars, fleetVars>> => Playing' /\ [Onward]_played
  <2> SUFFICES ASSUME Playing, [FleetNext]_<<vars, fleetVars>>
               PROVE  Playing' /\ [Onward]_played
    OBVIOUS
  <2>1. TypeInv'
    BY StepIsAny, TypeStep, TypeAnswered DEF AnyNext
  <2>2. CASE FleetNext
    BY <2>1, <2>2, FleetTypeStep, PlayedStep
  <2>3. CASE UNCHANGED <<vars, fleetVars>>
    <3>1. FleetTypeInv' /\ UNCHANGED played
      BY <2>3 DEF FleetTypeInv, fleetVars
    <3>2. PlayedInv'
      BY <2>3 DEF PlayedInv, Known, vars, fleetVars, poolVars, bufferVars
    <3> QED
      BY <2>1, <3>1, <3>2
  <2> QED
    BY <2>2, <2>3
<1>3. NeverPlaysBackwards <=> [][Onward]_played
  BY DEF NeverPlaysBackwards
<1> HIDE DEF Playing, Onward
<1> QED
  BY <1>1, <1>2, <1>3, PTL DEF FleetSpec
=============================================================================
