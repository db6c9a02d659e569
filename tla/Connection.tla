----------------------------- MODULE Connection -----------------------------
(***************************************************************************)
(* One connection in time (internal/client/client.go and the handler in    *)
(* internal/server/server.go): the handler that admits it and reads from   *)
(* it, the WritePump goroutine, the send queue everybody else fills        *)
(* without blocking, ping and pong, the read and write deadlines, and the  *)
(* teardown either goroutine may begin.                                    *)
(*                                                                         *)
(* Time passes in Tick; code takes no time, only writes to the network do. *)
(* Timers are kept as the ticks that remain.                               *)
(***************************************************************************)
EXTENDS Integers

CONSTANTS
  pongWait, pingPeriod, writeTimeout,   \* 60 s, 54 s, 30 s
  clientSendQueueSize,                  \* 15 messages
  MaxPerTick      \* bound: messages queued for the client per tick

ASSUME ConnectionAssumption ==
  /\ {pongWait, pingPeriod, writeTimeout, clientSendQueueSize} \subseteq Nat \ {0}
  /\ MaxPerTick \in Nat

\* pingPeriod "must be shorter than pongWait".
ASSUME KeepaliveAssumption == pingPeriod < pongWait

VARIABLES
  rpc,            \* handler: "new", "admitted", "loop", "read", "close", "done"
  wpc,            \* WritePump: "none", "select", "write", "ping", "close", "stopped"
  teardown,       \* Close: "none", then after its steps "quit", "conn", "done"
  inPool,
  queue,          \* messages in c.send
  queued,         \* messages queued in this tick
  readLeft,       \* until the read deadline
  pingLeft, pingTick,   \* until the ticker fires; a tick waits in ping.C
  writeLeft,      \* until the deadline of the write in progress
  pingAtPeer,     \* the peer received a ping and has not answered it
  peerGone,       \* the peer closed the connection
  ctxDone,
  healthy,        \* the peer answers every ping that reaches it at once
  slowest,        \* the longest a write on this link takes before it completes
  reason          \* why the handler stopped reading

closeVars == <<teardown, inPool>>
queueVars == <<queue, queued>>
timerVars == <<readLeft, pingLeft, pingTick, writeLeft>>
peerVars == <<pingAtPeer, peerGone, healthy, slowest>>
vars == <<rpc, wpc, closeVars, queueVars, timerVars, peerVars, ctxDone, reason>>

quitClosed == teardown # "none"
connClosed == teardown \in {"conn", "done"}

\* Mutant: the read deadline is not armed before the first pong.
NewClientUnarmed == readLeft = -1 /\ queue = 0 /\ teardown = "none"

NewClient == readLeft = pongWait /\ queue = 0 /\ teardown = "none"

Init ==
  /\ NewClient
  /\ rpc = "new" /\ wpc = "none" /\ inPool = FALSE /\ queued = 0
  /\ pingLeft = pingPeriod /\ pingTick = FALSE /\ writeLeft = 0
  /\ pingAtPeer = FALSE /\ peerGone = FALSE
  /\ healthy \in BOOLEAN /\ slowest \in {0, writeTimeout}
  /\ ctxDone = FALSE /\ reason = "none"

----------------------------------------------------------------------------
(* The handler, handleNewConnection.                                       *)

\* AddClient, or the rejection of a connection when the pool is full.
Admit ==
  /\ rpc = "new"
  /\ \/ rpc' = "admitted" /\ inPool' = TRUE /\ UNCHANGED reason
     \/ rpc' = "done" /\ reason' = "rejected" /\ UNCHANGED inPool
  /\ UNCHANGED <<wpc, teardown, queueVars, timerVars, peerVars, ctxDone>>

\* go c.WritePump(), which starts its ticker.
StartWriter ==
  /\ rpc = "admitted"
  /\ rpc' = "loop" /\ wpc' = "select"
  /\ pingLeft' = pingPeriod
  /\ UNCHANGED <<closeVars, queueVars, readLeft, pingTick, writeLeft, peerVars,
                 ctxDone, reason>>

ReaderLoop ==
  /\ rpc = "loop"
  /\ IF ctxDone THEN rpc' = "close" /\ reason' = "shutdown"
                ELSE rpc' = "read" /\ UNCHANGED reason
  /\ UNCHANGED <<wpc, closeVars, queueVars, timerVars, peerVars, ctxDone>>

CanRead == rpc = "read" /\ ~ connClosed /\ ~ peerGone /\ readLeft # 0

\* The pong handler runs inside ReadMessage, which goes on reading.  A pong need
\* not answer a ping; while a ping is unanswered, any pong passes for its answer.
ReadPong ==
  /\ CanRead
  /\ readLeft' = pongWait
  /\ pingAtPeer' = FALSE
  /\ UNCHANGED <<rpc, wpc, closeVars, queueVars, pingLeft, pingTick, writeLeft,
                 peerGone, healthy, slowest, ctxDone, reason>>

\* A message, and HandleReceivedMessage: one that is empty or malformed, or
\* whose result cannot be saved, ends the connection; any other is handled or
\* ignored.
ReadMessage ==
  /\ CanRead
  /\ \/ rpc' = "loop" /\ UNCHANGED reason
     \/ rpc' = "close" /\ reason' = "invalid"
  /\ UNCHANGED <<wpc, closeVars, queueVars, timerVars, peerVars, ctxDone>>

ReadFails ==
  /\ rpc = "read" /\ ~ CanRead
  /\ rpc' = "close"
  /\ reason' = IF connClosed \/ peerGone THEN "closed" ELSE "deadline"
  /\ UNCHANGED <<wpc, closeVars, queueVars, timerVars, peerVars, ctxDone>>

----------------------------------------------------------------------------
(* WritePump.                                                              *)

\* select: any ready case may be chosen.
WriterSelect ==
  /\ wpc = "select"
  /\ \/ quitClosed /\ wpc' = "stopped" /\ UNCHANGED <<queue, pingTick, writeLeft>>
     \/ /\ queue > 0 /\ queue' = queue - 1
        /\ wpc' = "write" /\ writeLeft' = writeTimeout /\ UNCHANGED pingTick
     \/ /\ pingTick /\ pingTick' = FALSE
        /\ wpc' = "ping" /\ writeLeft' = writeTimeout /\ UNCHANGED queue
  /\ UNCHANGED <<rpc, closeVars, queued, readLeft, pingLeft, peerVars, ctxDone, reason>>

WriteDone ==
  /\ wpc \in {"write", "ping"} /\ ~ connClosed /\ writeLeft > 0
  /\ wpc' = "select" /\ writeLeft' = 0
  /\ pingAtPeer' = (pingAtPeer \/ (wpc = "ping" /\ ~ peerGone))
  /\ UNCHANGED <<rpc, closeVars, queueVars, readLeft, pingLeft, pingTick, peerGone,
                 healthy, slowest, ctxDone, reason>>

WriteFails ==
  /\ wpc \in {"write", "ping"}
  /\ connClosed \/ peerGone \/ writeLeft = 0
  /\ wpc' = "close" /\ writeLeft' = 0
  /\ UNCHANGED <<rpc, closeVars, queueVars, readLeft, pingLeft, pingTick, peerVars,
                 ctxDone, reason>>

----------------------------------------------------------------------------
(* Close: the goroutine that enters closeOnce.Do first runs its three      *)
(* calls; one that comes later waits until they are done.                  *)

\* Mutant: the socket is closed only after the writer has stopped.
CloseAfterWriterStopped ==
  /\ "close" \in {rpc, wpc}
  /\ \/ teardown = "none" /\ teardown' = "quit" /\ UNCHANGED inPool
     \/ teardown = "quit" /\ wpc = "stopped" /\ teardown' = "conn" /\ UNCHANGED inPool
     \/ teardown = "conn" /\ teardown' = "done" /\ inPool' = FALSE
  /\ UNCHANGED <<rpc, wpc, queueVars, timerVars, peerVars, ctxDone, reason>>

\* Mutant: the client leaves the pool before its socket is closed.
CloseRemovesFirst ==
  /\ "close" \in {rpc, wpc}
  /\ \/ teardown = "none" /\ teardown' = "quit" /\ inPool' = FALSE
     \/ teardown = "quit" /\ teardown' = "conn" /\ UNCHANGED inPool
     \/ teardown = "conn" /\ teardown' = "done" /\ UNCHANGED inPool
  /\ UNCHANGED <<rpc, wpc, queueVars, timerVars, peerVars, ctxDone, reason>>

CloseStep ==
  /\ "close" \in {rpc, wpc}
  /\ \/ teardown = "none" /\ teardown' = "quit" /\ UNCHANGED inPool
     \/ teardown = "quit" /\ teardown' = "conn" /\ UNCHANGED inPool
     \/ teardown = "conn" /\ teardown' = "done" /\ inPool' = FALSE
  /\ UNCHANGED <<rpc, wpc, queueVars, timerVars, peerVars, ctxDone, reason>>

ReaderReturns ==
  /\ rpc = "close" /\ teardown = "done"
  /\ rpc' = "done"
  /\ UNCHANGED <<wpc, closeVars, queueVars, timerVars, peerVars, ctxDone, reason>>

WriterReturns ==
  /\ wpc = "close" /\ teardown = "done"
  /\ wpc' = "stopped"
  /\ UNCHANGED <<rpc, closeVars, queueVars, timerVars, peerVars, ctxDone, reason>>

----------------------------------------------------------------------------
(* Everybody else.                                                         *)

\* enqueue: a render task, a frame broadcast or telemetry, from a goroutine
\* that has the client from the pool, now or earlier; dropped when full.
Enqueue ==
  /\ rpc # "new" /\ reason # "rejected" /\ queued < MaxPerTick
  /\ queued' = queued + 1
  /\ queue' = IF queue < clientSendQueueSize THEN queue + 1 ELSE queue
  /\ UNCHANGED <<rpc, wpc, closeVars, timerVars, peerVars, ctxDone, reason>>

PeerLeaves ==
  /\ ~ peerGone /\ peerGone' = TRUE
  /\ UNCHANGED <<rpc, wpc, closeVars, queueVars, timerVars, pingAtPeer, healthy,
                 slowest, ctxDone, reason>>

Cancel ==
  /\ ~ ctxDone /\ ctxDone' = TRUE
  /\ UNCHANGED <<rpc, wpc, closeVars, queueVars, timerVars, peerVars, reason>>

\* Both goroutines are blocked: the handler reading, the writer on an empty
\* select or on the network.
Waiting ==
  /\ rpc = "read" /\ CanRead
  /\ teardown \in {"none", "done"}
  /\ \/ wpc = "stopped"
     \/ wpc = "select" /\ ~ quitClosed /\ queue = 0 /\ ~ pingTick
     \/ wpc \in {"write", "ping"} /\ writeLeft > writeTimeout - slowest
  /\ ~ (healthy /\ pingAtPeer)

\* Mutant: the ticker's period is as long as the deadline it must beat.
TickSlowPing ==
  /\ Waiting
  /\ readLeft' = readLeft - 1
  /\ IF pingLeft > 1 THEN pingLeft' = pingLeft - 1 /\ UNCHANGED pingTick
                     ELSE pingLeft' = pongWait /\ pingTick' = TRUE
  /\ writeLeft' = IF writeLeft > 0 THEN writeLeft - 1 ELSE 0
  /\ queued' = 0
  /\ UNCHANGED <<rpc, wpc, closeVars, queue, peerVars, ctxDone, reason>>

\* A tick nobody took from ping.C is not repeated.
Tick ==
  /\ Waiting
  /\ readLeft' = IF readLeft > 0 THEN readLeft - 1 ELSE readLeft
  /\ IF pingLeft > 1 THEN pingLeft' = pingLeft - 1 /\ UNCHANGED pingTick
                     ELSE pingLeft' = pingPeriod /\ pingTick' = TRUE
  /\ writeLeft' = IF writeLeft > 0 THEN writeLeft - 1 ELSE 0
  /\ queued' = 0
  /\ UNCHANGED <<rpc, wpc, closeVars, queue, peerVars, ctxDone, reason>>

ReaderNext == Admit \/ StartWriter \/ ReaderLoop \/ ReadFails \/ ReaderReturns
WriterNext == WriterSelect \/ WriteFails \/ WriterReturns
PeerNext == ReadPong \/ ReadMessage \/ PeerLeaves

Next ==
  \/ ReaderNext \/ WriterNext \/ WriteDone \/ CloseStep
  \/ PeerNext \/ Enqueue \/ Cancel \/ Tick

\* The scheduler runs both goroutines, a write in progress completes or fails,
\* and time diverges: only finitely much happens within a tick.  A healthy
\* peer answers, after finitely many other messages; nothing is assumed of any
\* other peer.
Spec ==
  /\ Init /\ [][Next]_vars
  /\ WF_vars(ReaderNext) /\ WF_vars(WriterNext) /\ WF_vars(CloseStep)
  /\ WF_vars(WriteDone \/ WriteFails) /\ SF_vars(Tick)
  /\ SF_vars(healthy /\ pingAtPeer /\ ReadPong)

----------------------------------------------------------------------------
(* Properties.                                                             *)

\* A failure on either side "tears the client down and unblocks both of its
\* goroutines": once Close has begun, or the writer has met an error, both
\* goroutines end, whatever each of them was blocked in, and the client is out
\* of the pool.
TornDown ==
  (quitClosed \/ wpc = "close" \/ wpc = "stopped")
    ~> (rpc = "done" /\ wpc = "stopped" /\ ~ inPool)

\* The keepalive "reaps connections that stop answering": a connection that is
\* served for ever is one whose read deadline pongs push out for ever, also when
\* the peer goes on sending messages or the writer is stuck in a write.
SilentClientReaped == []<>(rpc = "read" /\ readLeft = pongWait) \/ <>(rpc = "done")

\* The read deadline ends the connection of a peer that answers its pings only if
\* writes take time on its link and the server itself holds back the ping: it waits
\* behind other writes, is being written, or was written too late (pingPeriod <
\* pongWait, one ticker, one writer).  On a link where writes take no time it never
\* does, however busy the queue is.
HealthyClientSurvives ==
  /\ healthy /\ reason = "deadline" => slowest > 0
  /\ healthy /\ rpc = "read" /\ readLeft = 0 /\ ~ connClosed /\ ~ peerGone
       => pingTick \/ pingAtPeer \/ wpc \in {"ping", "close"}

\* The pool, from which the cap, the client count and every choice of a worker are
\* taken, has exactly the connections that are served: nothing is read from or
\* written to one that is not in it, or no longer, and one that is in it has a
\* handler that will take it out, whichever goroutine runs Close at the moment.
PoolIsServed ==
  /\ CanRead \/ (wpc \in {"write", "ping"} /\ ~ connClosed) => inPool
  /\ inPool => rpc \notin {"new", "done"}
=============================================================================
