------------------------- MODULE HarnessWorkerProofs -------------------------
(***************************************************************************)
(* Proofs about the harness's worker, for every number of messages, frames *)
(* and wanted frames: what its counters say, when it stops answering, and  *)
(* what WaitForFrames's error means.                                       *)
(***************************************************************************)
EXTENDS HarnessWorker, TLAPS

TypeInv ==
  /\ cfg \in [silent : BOOLEAN, mayDrop : BOOLEAN, disconnectAfter : 0..MaxDisconnect,
              collects : BOOLEAN]
  /\ link \in {"up", "peerGone", "closed"}
  /\ rpc \in {"read", "task", "render", "collect", "notify", "exited"}
  /\ {payload, received, wanted} \subseteq Nat
  /\ {tasksReceived, resultsSent, resultsDropped} \subseteq Nat

\* A task that was counted and is neither sent nor dropped yet.
InHand == IF rpc = "render" THEN 1 ELSE 0

\* No more results than tasks; on a live connection, exactly one for every task
\* but the one in hand; and a task in hand comes before the Nth.
CountInv ==
  /\ resultsSent + resultsDropped + InHand <= tasksReceived
  /\ link = "up" => tasksReceived = resultsSent + resultsDropped + InHand
  /\ rpc = "render" /\ cfg.disconnectAfter > 0 => tasksReceived < cfg.disconnectAfter

\* "connection closed" stands until the next call, and the read loop, which
\* alone collects frames, has ended.
ClosedInv ==
  outcome = "closed" => wpc = "idle" /\ rpc = "exited" /\ received < wanted

Inv == TypeInv /\ CountInv /\ ClosedInv /\ StopsBeforeNth

\* The initial state.
LEMMA InvInit == Init => Inv
  BY HarnessAssumption
  DEF Init, Inv, TypeInv, CountInv, InHand, ClosedInv, StopsBeforeNth

\* Every step of the read loop preserves the invariant.
LEMMA RunStep == ASSUME Inv, Run PROVE Inv'
<1> USE DEF Inv, TypeInv, CountInv, InHand, ClosedInv, StopsBeforeNth, counters, waiter
<1>1. CASE ReadMessage
  BY <1>1, HarnessAssumption DEF ReadMessage
<1>2. CASE ReadFails
  BY <1>2 DEF ReadFails
<1>3. CASE HandleTask
  BY <1>3 DEF HandleTask, Disconnects
<1>4. CASE FinishTask
  BY <1>4 DEF FinishTask
<1>5. CASE CollectBroadcast
  BY <1>5 DEF CollectBroadcast
<1> QED
  BY <1>1, <1>2, <1>3, <1>4, <1>5 DEF Run

\* Every step of a test's calls, and of the server, preserves the invariant.
LEMMA CallStep ==
  ASSUME Inv, WaitForFrames \/ Deadline \/ CallWaitForFrames \/ CallClose
                \/ CloseReturns \/ PeerLeaves
  PROVE  Inv'
<1> USE DEF Inv, TypeInv, CountInv, InHand, ClosedInv, StopsBeforeNth, counters, waiter,
            Return
<1>1. CASE CheckFrames \/ TakeNotify \/ Deadline
  BY <1>1 DEF CheckFrames, TakeNotify, Deadline
<1>2. CASE TakeDone
  BY <1>2 DEF TakeDone
<1>3. CASE CallWaitForFrames
  BY <1>3, HarnessAssumption DEF CallWaitForFrames
<1>4. CASE CallClose \/ CloseReturns \/ PeerLeaves
  BY <1>4 DEF CallClose, CloseReturns, PeerLeaves
<1> QED
  BY <1>1, <1>2, <1>3, <1>4 DEF WaitForFrames

\* The invariant holds in every reachable state.
LEMMA InvAlways == Spec => []Inv
<1>1. Inv /\ UNCHANGED vars => Inv'
  BY DEF Inv, TypeInv, CountInv, InHand, ClosedInv, StopsBeforeNth, vars, counters, waiter
<1>2. Inv /\ [Next]_vars => Inv'
  BY <1>1, RunStep, CallStep DEF Next
<1> QED
  BY <1>2, InvInit, PTL DEF Spec

\* WaitForFrames reports a closed connection only when too few frames were ever
\* collected, whichever of its ready cases select takes first.
THEOREM ClosedIsShort == Spec => []ClosedMeansShort
<1>1. Inv => ClosedMeansShort
  BY DEF Inv, ClosedInv, ClosedMeansShort
<1> QED
  BY <1>1, InvAlways, PTL

\* On a live connection every task is answered or deliberately skipped, once.
THEOREM TasksAreAccounted == Spec => []TasksAccounted
<1>1. Inv => TasksAccounted
  BY DEF Inv, TypeInv, CountInv, InHand, TasksAccounted
<1> QED
  BY <1>1, InvAlways, PTL

\* A worker told to disconnect at its Nth task handles none from the Nth on.
THEOREM WorkerStopsBeforeNth == Spec => []StopsBeforeNth
<1>1. Inv => StopsBeforeNth
  BY DEF Inv
<1> QED
  BY <1>1, InvAlways, PTL
=============================================================================
