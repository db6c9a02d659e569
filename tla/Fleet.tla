------------------------------- MODULE Fleet -------------------------------
(***************************************************************************)
(* The pipeline composed with its workers: each client's bounded send      *)
(* queue and writer goroutine (internal/client/client.go, pool.go), its    *)
(* connection handler (internal/server/server.go), and the browser page at *)
(* the other end (web/static/script.js, donut-worker.js): one WebSocket    *)
(* that reconnects and one Web Worker that renders in order and outlives   *)
(* the socket.                                                             *)
(*                                                                         *)
(* A message is written, carried and received in one step; whatever is     *)
(* still queued when a connection closes is lost.  The same holds for the  *)
(* way back.  The server may keep a client whose page has left for a new   *)
(* connection; what it queues for that client reaches nobody and is not    *)
(* kept here.                                                              *)
(***************************************************************************)
EXTENDS Orchestrator

CONSTANTS
  Pages,                 \* browser pages
  Reconnects,            \* pages open a new socket when theirs closes
  clientSendQueueSize,   \* outbound messages buffered per client
  MaxJobs,               \* bound: tasks posted to a Web Worker at once
  MaxTelemetry           \* bound: telemetry broadcasts; 0 when it is disabled

ASSUME FleetAssumption ==
  /\ Pages # {}
  /\ Reconnects \in BOOLEAN
  /\ clientSendQueueSize \in Nat \ {0}
  /\ MaxJobs \in Nat /\ MaxTelemetry \in Nat

VARIABLES
  send,      \* client -> messages queued for its writer that a page will receive
  ws,        \* page -> the connection its script holds, or NoClient
  jobs,      \* page -> tasks posted to its Web Worker and not yet rendered
  played,    \* page -> position of the last batch it was shown, -1 at first
  ticks      \* ticks left to the telemetry loop, 0 once it stopped

fleetVars == <<send, ws, jobs, played, ticks>>

\* Messages: a render task, the broadcast of the batches from a position on, and
\* telemetry (ClientCount, BufferFullness).
RenderTask(id, start) == [type |-> "RenderTask", id |-> id, start |-> start]
FrameBroadcast(position) == [type |-> "FrameBroadcast", position |-> position]
Telemetry == [type |-> "Telemetry"]

FleetInit ==
  /\ Init
  /\ send = [c \in ClientIDs |-> << >>]
  /\ ws = [p \in Pages |-> NoClient]
  /\ jobs = [p \in Pages |-> << >>]
  /\ played = [p \in Pages |-> -1]
  /\ ticks = MaxTelemetry

----------------------------------------------------------------------------
(* The send queue.                                                         *)

\* Mutant: the newest message goes first.
EnqueueFirst(queue, message) ==
  IF Len(queue) < clientSendQueueSize THEN <<message>> \o queue ELSE queue

\* enqueue: a full queue drops the message.
Enqueue(queue, message) ==
  IF Len(queue) < clientSendQueueSize THEN Append(queue, message) ELSE queue

\* The queue of c after a message to it; no page listens at the end of a
\* connection that was left.
Queued(c, message) ==
  IF \E p \in Pages : ws[p] = c THEN Enqueue(send[c], message) ELSE send[c]

\* RequestWork, with its one recipient.
FleetTaskNext(i) ==
  /\ TaskNext(i)
  /\ send' = IF gpc[i] = "request"
             THEN [send EXCEPT ![worker[i]] =
                     Queued(worker[i], RenderTask(renderTaskID[i], startFrame[i]))]
             ELSE send
  /\ UNCHANGED <<ws, jobs, played, ticks>>

\* Broadcast, to a snapshot of the pool; the frames start at tail.
FleetBroadcasterNext ==
  /\ BroadcasterNext
  /\ send' = IF bpc = "send"
             THEN [c \in ClientIDs |->
                     IF c \in clients THEN Queued(c, FrameBroadcast(tail))
                     ELSE send[c]]
             ELSE send
  /\ UNCHANGED <<ws, jobs, played, ticks>>

\* telemetryBroadcaster: on a tick of either interval the figure goes to a
\* snapshot of the pool, through the same queues; the loop ends with the context.
TelemetryBroadcaster ==
  /\ ticks > 0
  /\ \/ /\ ctxDone /\ ticks' = 0 /\ UNCHANGED send
     \/ /\ ticks' = ticks - 1
        /\ send' = [c \in ClientIDs |->
                      IF c \in clients THEN Queued(c, Telemetry) ELSE send[c]]
  /\ UNCHANGED <<ws, jobs, played, vars>>

----------------------------------------------------------------------------
(* A page.                                                                 *)

\* setupWebSocket, at load or, for a page that reconnects, after onclose, which may
\* be before the server has noticed and removed the old client; the server's handler
\* creates the client and asks the pool to admit it.
Open(p, c) ==
  /\ ws[p] = NoClient \/ Reconnects
  /\ Connect(c)
  /\ ws' = [ws EXCEPT ![p] = c]
  /\ send' = [k \in ClientIDs |-> IF k = ws[p] THEN << >> ELSE send[k]]
  /\ UNCHANGED <<jobs, played, ticks>>

\* Either end closes the connection: Client.Close.
CloseConnection(c) ==
  /\ Disconnect(c)
  /\ UNCHANGED fleetVars

\* ws.onmessage: a task is posted to the Web Worker, frames go to playback.
OnMessage(p, message) ==
  \/ /\ message.type = "RenderTask"
     /\ Len(jobs[p]) < MaxJobs
     /\ jobs' = [jobs EXCEPT ![p] = Append(@, message)]
     /\ UNCHANGED played
  \/ /\ message.type = "FrameBroadcast"
     /\ played' = [played EXCEPT ![p] = message.position]
     /\ UNCHANGED jobs
  \/ /\ message.type = "Telemetry"    \* only displayed
     /\ UNCHANGED <<jobs, played>>

\* WritePump takes the next message and writes it; the page receives it.
WritePump(p) ==
  LET c == ws[p] IN
  /\ c \in clients /\ send[c] # << >>
  /\ OnMessage(p, Head(send[c]))
  /\ send' = [send EXCEPT ![c] = Tail(@)]
  /\ UNCHANGED <<ws, ticks, vars>>

\* Mutant: the Web Worker answers under the id of the latest task posted to it.
RenderUnderLatestID(p) ==
  /\ jobs[p] # << >>
  /\ jobs' = [jobs EXCEPT ![p] = Tail(@)]
  /\ IF ws[p] \in clients
     THEN SaveRenderResult(ws[p], jobs[p][Len(jobs[p])].id, Head(jobs[p]).start)
     ELSE UNCHANGED <<bufferVars, panicked, mapVars>>
  /\ UNCHANGED <<send, ws, played, ticks, poolVars, ctxDone, pipelineVars>>

\* The Web Worker renders its oldest task, and worker.onmessage sends the result
\* on the socket the page holds by then; one that is not open discards it.
Render(p) ==
  /\ jobs[p] # << >>
  /\ jobs' = [jobs EXCEPT ![p] = Tail(@)]
  /\ IF ws[p] \in clients
     THEN SaveRenderResult(ws[p], Head(jobs[p]).id, Head(jobs[p]).start)
     ELSE UNCHANGED <<bufferVars, panicked, mapVars>>
  /\ UNCHANGED <<send, ws, played, ticks, poolVars, ctxDone, pipelineVars>>

----------------------------------------------------------------------------

FleetNext ==
  \/ DispatcherNext /\ UNCHANGED fleetVars
  \/ FleetBroadcasterNext \/ TelemetryBroadcaster
  \/ \E i \in Goroutines : FleetTaskNext(i)
  \/ \E p \in Pages : WritePump(p) \/ Render(p) \/ \E c \in ClientIDs : Open(p, c)
  \/ \E c \in ClientIDs : CloseConnection(c)
  \/ Cancel /\ UNCHANGED fleetVars

FleetSpec == FleetInit /\ [][FleetNext]_<<vars, fleetVars>>

\* The fleet of workers behaves as the pipeline's environment assumes: with
\* pages that do not reconnect, queues that overflow and connections that close
\* at any moment included, every step is a step of Orchestrator, so that its
\* properties hold of the whole (RequestWork, WritePump, HandleReceivedMessage).
\* Telemetry "never touches the frame timeline": it takes room in the queues, but
\* its steps change nothing of the pipeline (telemetryBroadcaster).
ImplementsOrchestrator == Spec

\* A page never goes back in the timeline, across dropped messages, closed
\* connections and reconnects (enqueue, WritePump, ws.onmessage).
NeverPlaysBackwards == [][\A p \in Pages : played'[p] >= played[p]]_played

\* Whatever a reconnecting page answers, no slot is broadcast before some
\* result was stored in it (SaveRenderResult, AdvanceHead).
NothingUnrendered == \A j \in 1..Len(timeline) : timeline[j] # Blank

\* The stream with the contents of its batches left out: whatever a slot held when
\* it was broadcast stands for the batch that belongs there.
Rhythm ==
  INSTANCE FrameStream WITH First <- FirstSecondsToBroadcast,
                            Later <- SecondsToBroadcast,
                            produced <- head,
                            sent <- [j \in 1..Len(timeline) |-> Slot(j - 1)]

\* What a reconnecting page gets wrong is the contents of a slot and nothing else:
\* rounds and broadcasts are those of the abstract stream, in size, number and
\* order, and none is broadcast before it is complete (SaveRenderResult, AdvanceHead,
\* RemoveSentFramesFromBuffer).
KeepsTheRhythm == Rhythm!Spec
=============================================================================
