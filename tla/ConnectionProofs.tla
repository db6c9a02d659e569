-------------------------- MODULE ConnectionProofs --------------------------
(***************************************************************************)
(* Proofs, for every deadline, period, queue length and load, that the     *)
(* keepalive takes a healthy client for a dead one only when the server    *)
(* could not send its ping in time, and that the pool has exactly the      *)
(* connections that are served.                                            *)
(***************************************************************************)
EXTENDS Connection, TLAPS

----------------------------------------------------------------------------
(* The inductive invariant.                                                *)

TypeInv ==
  /\ readLeft \in Int /\ pingLeft \in 1..pingPeriod /\ writeLeft \in Int
  /\ pingTick \in BOOLEAN /\ pingAtPeer \in BOOLEAN /\ peerGone \in BOOLEAN
  /\ queue \in Nat /\ slowest \in Nat

\* Until the writer runs, no time passes and no ping is under way.
StartInv ==
  /\ rpc \in {"new", "admitted"}
       => wpc = "none" /\ pingLeft = pingPeriod /\ ~ pingTick /\ ~ pingAtPeer
  /\ wpc = "stopped" => quitClosed

\* A ping is under way, from the ticker to the pong: in the ticker's channel, in
\* the writer, or at the peer.
Pinging == pingTick \/ wpc = "ping" \/ pingAtPeer

Margin == pongWait - pingPeriod

\* Unless a ping is under way, the read deadline is at least Margin behind the next
\* ping: every tick so far was followed by a pong.
GapInv ==
  Pinging \/ peerGone \/ connClosed \/ wpc = "close" \/ readLeft >= pingLeft + Margin

\* Where writes take no time, none passes while a ping is under way, so the pong
\* comes at least Margin before the deadline; a write fails only on a connection
\* that is closed.
FastInv ==
  /\ wpc \in {"write", "ping"} => writeLeft = writeTimeout
  /\ wpc = "close" => peerGone \/ connClosed
  /\ Pinging => readLeft >= Margin
  /\ reason # "deadline"

KeepaliveInv == healthy => GapInv /\ (slowest = 0 => FastInv)

Inv == TypeInv /\ StartInv /\ KeepaliveInv

\* A client is in the pool from its admission to the last step of Close; the
\* writer exists, and Close may begin, only after admission; an admitted client's
\* handler ends only after Close.
PoolInv ==
  /\ inPool = (rpc # "new" /\ reason # "rejected" /\ teardown # "done")
  /\ rpc = "new" \/ reason = "rejected" => wpc = "none" /\ teardown = "none"
  /\ rpc = "new" => reason = "none"
  /\ reason = "rejected" => rpc = "done"
  /\ rpc = "done" /\ reason # "rejected" => teardown = "done"

----------------------------------------------------------------------------
(* The steps.                                                              *)

LEMMA Constants ==
  /\ pongWait \in Nat \ {0} /\ pingPeriod \in Nat \ {0} /\ writeTimeout \in Nat \ {0}
  /\ pingPeriod < pongWait
  BY ConnectionAssumption, KeepaliveAssumption

\* The handler's steps leave the timers alone, and it reports a deadline only when
\* the read timer has run out, which the invariant rules out.
LEMMA ReaderStep ==
  ASSUME Inv, [ReaderNext \/ ReadMessage]_vars
  PROVE  Inv'
<1> USE DEF vars, closeVars, queueVars, timerVars, peerVars
<1>1. /\ UNCHANGED <<readLeft, pingTick, writeLeft, pingAtPeer, peerGone, healthy,
                     slowest, queue, teardown>>
      /\ pingLeft' = pingLeft
      /\ wpc' = wpc \/ (rpc = "admitted" /\ wpc' = "select")
      /\ rpc' \in {"new", "admitted"} => rpc \in {"new", "admitted"} /\ wpc' = wpc
      /\ reason' = "deadline" =>
           \/ reason = "deadline"
           \/ ~ connClosed /\ ~ peerGone /\ readLeft = 0
  <2>1. CASE Admit
    BY <2>1 DEF Admit
  <2>2. CASE StartWriter
    BY <2>2 DEF StartWriter, Inv, StartInv
  <2>3. CASE ReaderLoop
    BY <2>3 DEF ReaderLoop
  <2>4. CASE ReadFails
    BY <2>4 DEF ReadFails, CanRead
  <2>5. CASE ReaderReturns
    BY <2>5 DEF ReaderReturns
  <2>6. CASE ReadMessage
    BY <2>6 DEF ReadMessage
  <2>7. CASE UNCHANGED vars
    BY <2>7
  <2> QED
    BY <2>1, <2>2, <2>3, <2>4, <2>5, <2>6, <2>7 DEF ReaderNext
<1>2. TypeInv'
  BY <1>1 DEF Inv, TypeInv
<1>3. StartInv'
  BY <1>1 DEF Inv, StartInv, quitClosed
<1>4. KeepaliveInv'
  <2> SUFFICES ASSUME healthy PROVE GapInv' /\ (slowest = 0 => FastInv')
    BY <1>1 DEF KeepaliveInv
  <2>1. GapInv /\ (slowest = 0 => FastInv)
    BY DEF Inv, KeepaliveInv
  <2>2. /\ (wpc' = "ping") = (wpc = "ping") /\ (wpc' = "write" => wpc = "write")
        /\ (wpc' = "close") = (wpc = "close")
    BY <1>1 DEF Inv, StartInv
  <2>3. Pinging' <=> Pinging
    BY <1>1, <2>2 DEF Pinging
  <2>4. GapInv'
    BY <1>1, <2>1, <2>2, <2>3 DEF GapInv, connClosed, Margin
  <2>5. ASSUME FastInv PROVE FastInv'
    <3>1. reason' # "deadline"
      <4> SUFFICES ASSUME ~ connClosed, ~ peerGone PROVE readLeft # 0
        BY <1>1, <2>5 DEF FastInv
      <4>1. readLeft >= Margin \/ readLeft >= pingLeft + Margin
        BY <2>1, <2>5 DEF GapInv, FastInv
      <4>2. pingLeft \in 1..pingPeriod /\ readLeft \in Int
        BY DEF Inv, TypeInv
      <4> QED
        BY <4>1, <4>2, Constants DEF Margin
    <3> QED
      BY <1>1, <2>2, <2>3, <2>5, <3>1 DEF FastInv, connClosed, Margin
  <2> QED
    BY <2>1, <2>4, <2>5
<1> QED
  BY <1>2, <1>3, <1>4 DEF Inv

\* The teardown, a peer that leaves, a message for the queue and the shutdown:
\* none of them moves a timer or a ping.
LEMMA BystanderStep ==
  ASSUME Inv, CloseStep \/ PeerLeaves \/ Enqueue \/ Cancel
  PROVE  Inv'
<1> USE DEF closeVars, queueVars, timerVars, peerVars
<1>1. /\ UNCHANGED <<rpc, wpc, reason, readLeft, pingLeft, pingTick, writeLeft,
                     pingAtPeer, healthy, slowest>>
      /\ queue' \in Nat /\ peerGone' \in BOOLEAN
      /\ peerGone => peerGone'
      /\ quitClosed => quitClosed'
      /\ connClosed => connClosed'
  <2>1. CASE CloseStep
    BY <2>1 DEF CloseStep, Inv, TypeInv, quitClosed, connClosed
  <2>2. CASE PeerLeaves
    BY <2>2 DEF PeerLeaves, Inv, TypeInv, quitClosed, connClosed
  <2>3. CASE Enqueue
    BY <2>3 DEF Enqueue, Inv, TypeInv, quitClosed, connClosed
  <2>4. CASE Cancel
    BY <2>4 DEF Cancel, Inv, TypeInv, quitClosed, connClosed
  <2> QED
    BY <2>1, <2>2, <2>3, <2>4
<1>2. TypeInv'
  BY <1>1 DEF Inv, TypeInv
<1>3. StartInv'
  BY <1>1 DEF Inv, StartInv
<1>4. KeepaliveInv'
  <2>1. Pinging' <=> Pinging
    BY <1>1 DEF Pinging
  <2>2. GapInv => GapInv'
    BY <1>1, <2>1 DEF GapInv, Margin
  <2>3. FastInv => FastInv'
    BY <1>1, <2>1 DEF FastInv, Margin
  <2> QED
    BY <1>1, <2>2, <2>3 DEF Inv, KeepaliveInv
<1> QED
  BY <1>2, <1>3, <1>4 DEF Inv

\* The writer carries a ping from the ticker's channel to the peer; it loses one
\* only on a connection that is closed or whose peer is gone.
LEMMA WriterStep ==
  ASSUME Inv, WriterNext \/ WriteDone
  PROVE  Inv'
<1> USE DEF closeVars, queueVars, timerVars, peerVars
<1>1. UNCHANGED <<rpc, teardown, reason, readLeft, pingLeft, peerGone, healthy, slowest>>
  BY DEF WriterNext, WriterSelect, WriteFails, WriterReturns, WriteDone
<1>2. /\ wpc # "none" /\ wpc' # "none"
      /\ wpc' = "stopped" => quitClosed
  BY DEF WriterNext, WriterSelect, WriteFails, WriterReturns, WriteDone, quitClosed
<1>3. TypeInv'
  <2>1. /\ writeLeft' \in Int /\ queue' \in Nat
        /\ pingTick' \in BOOLEAN /\ pingAtPeer' \in BOOLEAN
    <3>1. CASE WriterSelect
      <4>1. pingTick' \in BOOLEAN /\ pingAtPeer' \in BOOLEAN
        BY <3>1 DEF WriterSelect, Inv, TypeInv
      <4>2. /\ queue' = queue \/ (queue > 0 /\ queue' = queue - 1)
            /\ writeLeft' \in {writeLeft, writeTimeout}
        BY <3>1 DEF WriterSelect
      <4>3. writeLeft' \in Int /\ queue' \in Nat
        BY <4>2, Constants DEF Inv, TypeInv
      <4> QED
        BY <4>1, <4>3
    <3>2. CASE WriteFails
      BY <3>2 DEF WriteFails, Inv, TypeInv
    <3>3. CASE WriterReturns
      BY <3>3 DEF WriterReturns, Inv, TypeInv
    <3>4. CASE WriteDone
      BY <3>4 DEF WriteDone, Inv, TypeInv
    <3> QED
      BY <3>1, <3>2, <3>3, <3>4 DEF WriterNext
  <2> QED
    BY <1>1, <2>1 DEF Inv, TypeInv
<1>4. StartInv'
  BY <1>1, <1>2 DEF Inv, StartInv, quitClosed
<1>5. KeepaliveInv'
  <2> SUFFICES ASSUME healthy PROVE GapInv' /\ (slowest = 0 => FastInv')
    BY <1>1 DEF KeepaliveInv
  <2>1. GapInv /\ (slowest = 0 => FastInv)
    BY DEF Inv, KeepaliveInv
  <2>2. /\ Pinging' => Pinging
        /\ Pinging => Pinging' \/ peerGone \/ wpc' = "close"
        /\ wpc = "close" => wpc' = "close" \/ connClosed
    <3>1. CASE WriterSelect
      BY <3>1 DEF WriterSelect, Pinging
    <3>2. CASE WriteFails
      BY <3>2 DEF WriteFails, Pinging
    <3>3. CASE WriterReturns
      BY <3>3 DEF WriterReturns, Pinging, connClosed
    <3>4. CASE WriteDone
      BY <3>4 DEF WriteDone, Pinging
    <3> QED
      BY <3>1, <3>2, <3>3, <3>4 DEF WriterNext
  <2>3. GapInv'
    BY <1>1, <2>1, <2>2 DEF GapInv, connClosed, Margin
  <2>4. ASSUME FastInv PROVE FastInv'
    <3>1. /\ wpc' \in {"write", "ping"} => writeLeft' = writeTimeout
          /\ wpc' = "close" => peerGone \/ connClosed
      <4>1. CASE WriterSelect
        BY <4>1 DEF WriterSelect
      <4>2. CASE WriteFails
        BY <2>4, <4>2, Constants DEF WriteFails, FastInv
      <4>3. CASE WriterReturns
        BY <4>3 DEF WriterReturns
      <4>4. CASE WriteDone
        BY <4>4 DEF WriteDone
      <4> QED
        BY <4>1, <4>2, <4>3, <4>4 DEF WriterNext
    <3> QED
      BY <1>1, <2>2, <2>4, <3>1 DEF FastInv, connClosed, Margin
  <2> QED
    BY <2>1, <2>3, <2>4
<1> QED
  BY <1>3, <1>4, <1>5 DEF Inv

\* A pong moves the deadline to at least Margin behind the next ping, whenever it
\* comes.
LEMMA PongStep ==
  ASSUME Inv, ReadPong
  PROVE  Inv'
<1> USE DEF closeVars
<1>1. /\ rpc = "read" /\ readLeft' = pongWait /\ pingAtPeer' = FALSE
      /\ UNCHANGED <<rpc, wpc, teardown, queue, queued, pingLeft, pingTick, writeLeft,
                     peerGone, healthy, slowest, reason>>
  BY DEF ReadPong, CanRead, queueVars
<1>2. TypeInv'
  <2>1. readLeft' \in Int
    BY <1>1, Constants
  <2> QED
    BY <1>1, <2>1 DEF Inv, TypeInv
<1>3. StartInv'
  BY <1>1 DEF Inv, StartInv, quitClosed
<1>4. KeepaliveInv'
  <2>1. readLeft' >= pingLeft' + Margin /\ readLeft' >= Margin
    BY <1>1, Constants DEF Inv, TypeInv, Margin
  <2>2. GapInv'
    BY <2>1 DEF GapInv, Margin
  <2>3. FastInv => FastInv'
    BY <1>1, <2>1 DEF FastInv, connClosed, Margin
  <2> QED
    BY <1>1, <2>2, <2>3 DEF Inv, KeepaliveInv
<1> QED
  BY <1>2, <1>3, <1>4 DEF Inv

\* Both timers lose one tick, or the ticker fires.  Where writes take no time, time
\* passes only while no ping is under way and no write is in progress.
LEMMA TickStep ==
  ASSUME Inv, Tick
  PROVE  Inv'
<1> USE DEF closeVars, peerVars
<1>1. /\ rpc = "read" /\ Waiting
      /\ readLeft' = IF readLeft > 0 THEN readLeft - 1 ELSE readLeft
      /\ \/ pingLeft > 1 /\ pingLeft' = pingLeft - 1 /\ pingTick' = pingTick
         \/ pingLeft <= 1 /\ pingLeft' = pingPeriod /\ pingTick' = TRUE
      /\ writeLeft' = IF writeLeft > 0 THEN writeLeft - 1 ELSE 0
      /\ UNCHANGED <<rpc, wpc, teardown, queue, pingAtPeer, peerGone, healthy, slowest,
                     reason>>
  BY DEF Tick, Waiting, Inv, TypeInv
<1>2. TypeInv'
  <2>1. pingTick' \in BOOLEAN
    BY <1>1 DEF Inv, TypeInv
  <2>2. readLeft' \in Int /\ pingLeft' \in 1..pingPeriod /\ writeLeft' \in Int
    BY <1>1, Constants DEF Inv, TypeInv
  <2> QED
    BY <1>1, <2>1, <2>2 DEF Inv, TypeInv
<1>3. StartInv'
  BY <1>1 DEF Inv, StartInv, quitClosed
<1>4. KeepaliveInv'
  <2> SUFFICES ASSUME healthy PROVE GapInv' /\ (slowest = 0 => FastInv')
    BY <1>1 DEF KeepaliveInv
  <2>0. readLeft \in Int /\ pingLeft \in 1..pingPeriod
    BY DEF Inv, TypeInv
  <2>1. GapInv /\ (slowest = 0 => FastInv)
    BY DEF Inv, KeepaliveInv
  <2>2. ~ connClosed /\ ~ peerGone /\ ~ pingAtPeer /\ wpc \notin {"close", "stopped"}
    <3>1. /\ ~ connClosed /\ ~ peerGone /\ ~ pingAtPeer /\ teardown \in {"none", "done"}
          /\ wpc # "close"
      BY <1>1 DEF Waiting, CanRead
    <3> QED
      BY <3>1 DEF connClosed, Inv, StartInv, quitClosed
  <2>3. ASSUME slowest = 0 PROVE wpc \notin {"write", "ping"}
    <3> SUFFICES ASSUME wpc \in {"write", "ping"} PROVE FALSE
      OBVIOUS
    <3>1. writeLeft = writeTimeout
      BY <2>1, <2>3 DEF FastInv
    <3>2. writeLeft > writeTimeout - slowest
      BY <1>1, <2>2 DEF Waiting
    <3> QED
      BY <2>3, <3>1, <3>2, Constants
  <2>4. CASE Pinging
    <3>1. Pinging'
      BY <1>1, <2>4 DEF Pinging
    <3>2. slowest # 0
      BY <1>1, <2>2, <2>3, <2>4 DEF Waiting, Pinging
    <3> QED
      BY <3>1, <3>2 DEF GapInv
  <2>5. CASE ~ Pinging
    <3>1. readLeft >= pingLeft + Margin
      BY <2>1, <2>2, <2>5 DEF GapInv
    <3>2. readLeft' = readLeft - 1
      BY <1>1, <2>0, <3>1, Constants DEF Margin
    <3>3. Pinging' => readLeft' >= Margin
      BY <2>0, <3>1, <3>2, Constants DEF Margin
    <3>4. Pinging' \/ readLeft' >= pingLeft' + Margin
      <4>1. CASE pingTick'
        BY <4>1 DEF Pinging
      <4>2. CASE ~ pingTick'
        BY <1>1, <2>0, <3>1, <3>2, <4>2, Constants DEF Margin
      <4> QED
        BY <4>1, <4>2
    <3>5. GapInv'
      BY <3>4 DEF GapInv, Margin
    <3>6. ASSUME slowest = 0 PROVE FastInv'
      <4>1. wpc \notin {"write", "ping"}
        BY <2>3, <3>6
      <4> QED
        BY <1>1, <2>1, <2>2, <3>3, <3>6, <4>1 DEF FastInv, Margin
    <3> QED
      BY <3>5, <3>6
  <2> QED
    BY <2>4, <2>5
<1> QED
  BY <1>2, <1>3, <1>4 DEF Inv

----------------------------------------------------------------------------
(* The theorem.                                                            *)

LEMMA InvInit == Init => Inv
<1> SUFFICES ASSUME Init PROVE Inv
  OBVIOUS
<1>1. TypeInv
  <2>1. pingTick \in BOOLEAN /\ pingAtPeer \in BOOLEAN /\ peerGone \in BOOLEAN
    BY DEF Init
  <2>2. /\ readLeft \in Int /\ pingLeft \in 1..pingPeriod /\ writeLeft \in Int
        /\ queue \in Nat /\ slowest \in Nat
    <3>1. /\ readLeft = pongWait /\ pingLeft = pingPeriod /\ writeLeft = 0 /\ queue = 0
          /\ slowest \in {0, writeTimeout}
      BY DEF Init, NewClient
    <3> QED
      BY <3>1, Constants
  <2> QED
    BY <2>1, <2>2 DEF TypeInv
<1>2. StartInv
  BY DEF Init, StartInv
<1>3. KeepaliveInv
  <2>1. ~ Pinging
    BY DEF Init, Pinging
  <2>2. readLeft >= pingLeft + Margin
    BY Constants DEF Init, NewClient, Margin
  <2>3. GapInv
    BY <2>2 DEF GapInv
  <2>4. FastInv
    BY <2>1 DEF Init, FastInv
  <2> QED
    BY <2>3, <2>4 DEF KeepaliveInv
<1> QED
  BY <1>1, <1>2, <1>3 DEF Inv

LEMMA InvStep == Inv /\ [Next]_vars => Inv'
  BY ReaderStep, BystanderStep, WriterStep, PongStep, TickStep
     DEF Next, PeerNext

\* For every ping period shorter than the read deadline: the deadline ends the
\* connection of a client that answers its pings only while the server still holds
\* the ping that would have kept it, or sent it too late, on a link where writes
\* take time; whatever is queued for the client, whatever it sends, and in whichever
\* order the writer's select takes its ready cases.
THEOREM HealthyClientAlwaysSurvives == Spec => []HealthyClientSurvives
<1>1. Inv => HealthyClientSurvives
  <2> SUFFICES ASSUME Inv, healthy PROVE HealthyClientSurvives
    BY DEF HealthyClientSurvives
  <2>1. GapInv /\ (slowest = 0 => FastInv) /\ slowest \in Nat /\ pingLeft \in 1..pingPeriod
    BY DEF Inv, KeepaliveInv, TypeInv
  <2>2. reason = "deadline" => slowest > 0
    BY <2>1 DEF FastInv
  <2>3. ASSUME readLeft = 0, ~ connClosed, ~ peerGone
        PROVE  pingTick \/ pingAtPeer \/ wpc \in {"ping", "close"}
    <3>1. ~ (readLeft >= pingLeft + Margin)
      BY <2>1, <2>3, Constants DEF Margin
    <3> QED
      BY <2>1, <2>3, <3>1 DEF GapInv, Pinging
  <2> QED
    BY <2>2, <2>3 DEF HealthyClientSurvives
<1> QED
  BY <1>1, InvInit, InvStep, PTL DEF Spec

----------------------------------------------------------------------------
(* The pool.                                                               *)

\* Only admission puts a client into the pool and only the last step of Close,
\* after the socket was closed, takes it out.
LEMMA PoolStep == PoolInv /\ [Next]_vars => PoolInv'
<1> SUFFICES ASSUME PoolInv, [Next]_vars PROVE PoolInv'
  OBVIOUS
<1> USE DEF PoolInv, vars, closeVars, queueVars, timerVars, peerVars
<1>1. CASE Admit
  BY <1>1 DEF Admit
<1>2. CASE StartWriter
  BY <1>2 DEF StartWriter
<1>3. CASE ReaderLoop \/ ReadFails \/ ReadMessage
  BY <1>3 DEF ReaderLoop, ReadFails, ReadMessage, CanRead
<1>4. CASE ReaderReturns
  BY <1>4 DEF ReaderReturns
<1>5. CASE WriterNext \/ WriteDone
  BY <1>5 DEF WriterNext, WriterSelect, WriteFails, WriterReturns, WriteDone
<1>6. CASE CloseStep
  BY <1>6 DEF CloseStep
<1>7. CASE ReadPong \/ PeerLeaves \/ Enqueue \/ Cancel \/ Tick
  BY <1>7 DEF ReadPong, PeerLeaves, Enqueue, Cancel, Tick
<1>8. CASE UNCHANGED vars
  BY <1>8
<1> QED
  BY <1>1, <1>2, <1>3, <1>4, <1>5, <1>6, <1>7, <1>8 DEF Next, ReaderNext, PeerNext

\* The pool has exactly the connections that are served, through admission and
\* rejection, failures of either goroutine or of both at once, and every
\* interleaving of Close with reads, writes and shutdown.
THEOREM PoolIsAlwaysServed == Spec => []PoolIsServed
<1>1. Init => PoolInv
  BY DEF Init, NewClient, PoolInv
<1>2. PoolInv => PoolIsServed
  BY DEF PoolInv, PoolIsServed, CanRead, connClosed
<1> QED
  BY <1>1, <1>2, PoolStep, PTL DEF Spec
=============================================================================
