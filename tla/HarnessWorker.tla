---------------------------- MODULE HarnessWorker ----------------------------
(***************************************************************************)
(* The test harness's worker (internal/harness/worker.go): its read loop,  *)
(* deliberate misbehaviour and counters, and the two calls a test makes on *)
(* it from another goroutine, WaitForFrames and Close.                     *)
(***************************************************************************)
EXTENDS Integers

CONSTANTS
  MaxMessages,   \* bound: messages the worker reads from its connection
  MaxPayload,    \* bound: frames in one broadcast
  MaxWanted,     \* bound: n of WaitForFrames
  MaxDisconnect  \* bound: N of DisconnectAfter

ASSUME HarnessAssumption ==
  /\ MaxMessages \in Nat /\ MaxDisconnect \in Nat
  /\ MaxPayload \in Nat \ {0} /\ MaxWanted \in Nat \ {0}

VARIABLES
  cfg,       \* WorkerConfig, fixed at Connect
  link,      \* "up", "peerGone" (server closed) or "closed" (worker closed)
  messages,  \* messages read so far
  rpc,       \* where run is: "read", "task", "render", "collect", "notify", "exited"
  payload,   \* frames of the broadcast being collected
  received,  \* frames collected
  notify,    \* token in the notify channel
  tasksReceived, resultsSent, resultsDropped,
  wpc,       \* WaitForFrames: "idle", "check" or "select"
  wanted,    \* its n
  outcome,   \* what the last call returned: "ok", "timeout", "closed"
  cpc        \* Close: "idle", "waiting", "returned"

counters == <<tasksReceived, resultsSent, resultsDropped>>
waiter == <<wpc, wanted, outcome>>
vars == <<cfg, link, messages, rpc, payload, received, notify, counters, waiter, cpc>>

Init ==
  /\ cfg \in [silent : BOOLEAN, mayDrop : BOOLEAN, disconnectAfter : 0..MaxDisconnect,
              collects : BOOLEAN]
  /\ link = "up" /\ messages = 0
  /\ rpc = "read" /\ payload = 0 /\ received = 0 /\ notify = FALSE
  /\ tasksReceived = 0 /\ resultsSent = 0 /\ resultsDropped = 0
  /\ wpc = "idle" /\ wanted = 0 /\ outcome = "none" /\ cpc = "idle"

----------------------------------------------------------------------------
(* The read loop.                                                          *)

\* ReadMessage returns; what the connection had buffered is still read after a
\* close. Anything but a task, or a broadcast of a collecting worker, is skipped.
ReadMessage ==
  /\ rpc = "read" /\ messages < MaxMessages
  /\ messages' = messages + 1
  /\ \/ rpc' = "task" /\ UNCHANGED payload
     \/ /\ cfg.collects
        /\ \E k \in 1..MaxPayload : payload' = k
        /\ rpc' = "collect"
     \/ UNCHANGED <<rpc, payload>>
  /\ UNCHANGED <<cfg, link, received, notify, counters, waiter, cpc>>

\* Mutant: run goes on after a read error.
ReadFailsRetried ==
  rpc = "read" /\ link # "up" /\ UNCHANGED vars

\* A read error ends run, which closes done.
ReadFails ==
  /\ rpc = "read" /\ link # "up"
  /\ rpc' = "exited"
  /\ UNCHANGED <<cfg, link, messages, payload, received, notify, counters, waiter, cpc>>

\* Mutant: only the Nth task itself disconnects.
DisconnectsExactly(n) == cfg.disconnectAfter > 0 /\ n = cfg.disconnectAfter

Disconnects(n) == cfg.disconnectAfter > 0 /\ n >= cfg.disconnectAfter

\* handleTask up to the render delay: count the task, perhaps disconnect.
HandleTask ==
  /\ rpc = "task"
  /\ tasksReceived' = tasksReceived + 1
  /\ IF Disconnects(tasksReceived')
     THEN link' = "closed" /\ rpc' = "read"
     ELSE rpc' = "render" /\ UNCHANGED link
  /\ UNCHANGED <<cfg, messages, payload, received, notify, resultsSent,
                 resultsDropped, waiter, cpc>>

\* Mutant: a skipped result is not counted.
FinishTaskSilently ==
  /\ rpc = "render" /\ rpc' = "read"
  /\ \/ (cfg.silent \/ cfg.mayDrop) /\ UNCHANGED <<resultsSent, resultsDropped>>
     \/ /\ ~ cfg.silent /\ link # "closed"
        /\ resultsSent' = resultsSent + 1 /\ UNCHANGED resultsDropped
     \/ ~ cfg.silent /\ link # "up" /\ UNCHANGED <<resultsSent, resultsDropped>>
  /\ UNCHANGED <<cfg, link, messages, payload, received, notify, tasksReceived,
                 waiter, cpc>>

\* The rest of handleTask: skip the result, or write it; a failed write counts
\* as neither.
FinishTask ==
  /\ rpc = "render" /\ rpc' = "read"
  /\ \/ /\ cfg.silent \/ cfg.mayDrop
        /\ resultsDropped' = resultsDropped + 1 /\ UNCHANGED resultsSent
     \/ /\ ~ cfg.silent /\ link # "closed"
        /\ resultsSent' = resultsSent + 1 /\ UNCHANGED resultsDropped
     \/ ~ cfg.silent /\ link # "up" /\ UNCHANGED <<resultsSent, resultsDropped>>
  /\ UNCHANGED <<cfg, link, messages, payload, received, notify, tasksReceived,
                 waiter, cpc>>

\* Mutant: the token is put in before the frames are appended.
CollectAfterNotify ==
  \/ /\ rpc = "collect" /\ rpc' = "notify" /\ notify' = TRUE
     /\ UNCHANGED <<cfg, link, messages, payload, received, counters, waiter, cpc>>
  \/ /\ rpc = "notify" /\ rpc' = "read" /\ received' = received + payload
     /\ payload' = 0
     /\ UNCHANGED <<cfg, link, messages, notify, counters, waiter, cpc>>

\* collectBroadcast: append under the lock, then a send that never blocks.
CollectBroadcast ==
  \/ /\ rpc = "collect" /\ rpc' = "notify"
     /\ received' = received + payload /\ payload' = 0
     /\ UNCHANGED <<cfg, link, messages, notify, counters, waiter, cpc>>
  \/ /\ rpc = "notify" /\ rpc' = "read" /\ notify' = TRUE
     /\ UNCHANGED <<cfg, link, messages, payload, received, counters, waiter, cpc>>

----------------------------------------------------------------------------
(* A test's calls, one goroutine each.                                     *)

\* A test calls WaitForFrames, again and again if it likes.
CallWaitForFrames ==
  /\ wpc = "idle"
  /\ wpc' = "check" /\ \E n \in 1..MaxWanted : wanted' = n
  /\ outcome' = "none"
  /\ UNCHANGED <<cfg, link, messages, rpc, payload, received, notify, counters, cpc>>

Return(result) == wpc' = "idle" /\ outcome' = result

\* The head of WaitForFrames's loop.
CheckFrames ==
  /\ wpc = "check"
  /\ IF received >= wanted THEN Return("ok") ELSE wpc' = "select" /\ UNCHANGED outcome
  /\ UNCHANGED <<cfg, link, messages, rpc, payload, received, notify, counters,
                 wanted, cpc>>

\* select takes the token and goes round the loop.
TakeNotify ==
  /\ wpc = "select" /\ notify
  /\ notify' = FALSE /\ wpc' = "check"
  /\ UNCHANGED <<cfg, link, messages, rpc, payload, received, counters, wanted,
                 outcome, cpc>>

\* The deadline passes, whatever has been collected by then.
Deadline ==
  /\ wpc = "select"
  /\ Return("timeout")
  /\ UNCHANGED <<cfg, link, messages, rpc, payload, received, notify, counters,
                 wanted, cpc>>

\* Mutant: a closed connection is reported without looking at the frames again.
TakeDoneWithoutRecheck ==
  /\ wpc = "select" /\ rpc = "exited"
  /\ Return("closed")
  /\ UNCHANGED <<cfg, link, messages, rpc, payload, received, notify, counters,
                 wanted, cpc>>

\* done is closed: enough frames may have come since the last look.
TakeDone ==
  /\ wpc = "select" /\ rpc = "exited"
  /\ Return(IF received >= wanted THEN "ok" ELSE "closed")
  /\ UNCHANGED <<cfg, link, messages, rpc, payload, received, notify, counters,
                 wanted, cpc>>

\* Close: close the connection, then wait for done.
CallClose ==
  /\ cpc = "idle" /\ cpc' = "waiting" /\ link' = "closed"
  /\ UNCHANGED <<cfg, messages, rpc, payload, received, notify, counters, waiter>>

CloseReturns ==
  /\ cpc = "waiting" /\ rpc = "exited" /\ cpc' = "returned"
  /\ UNCHANGED <<cfg, link, messages, rpc, payload, received, notify, counters, waiter>>

\* The server closes the connection.
PeerLeaves ==
  /\ link = "up" /\ link' = "peerGone"
  /\ UNCHANGED <<cfg, messages, rpc, payload, received, notify, counters, waiter, cpc>>

Run == ReadMessage \/ ReadFails \/ HandleTask \/ FinishTask \/ CollectBroadcast
WaitForFrames == CheckFrames \/ TakeNotify \/ TakeDone

Next ==
  \/ Run
  \/ WaitForFrames \/ Deadline \/ CallWaitForFrames
  \/ CallClose \/ CloseReturns
  \/ PeerLeaves

\* The read loop, a call in progress and a Close in progress go on. No deadline,
\* server or test is relied on.
Spec ==
  /\ Init /\ [][Next]_vars
  /\ WF_vars(Run) /\ WF_vars(WaitForFrames) /\ WF_vars(CloseReturns)

----------------------------------------------------------------------------
(* Properties.                                                             *)

\* WaitForFrames ends without the help of its deadline once enough frames are
\* collected or the read loop has ended: the one-place notify channel, written
\* without blocking, loses no news.
WaitEnds ==
  (wpc # "idle" /\ (received >= wanted \/ rpc = "exited")) ~> (wpc = "idle")

\* "connection closed" is reported only if fewer frames than wanted were ever
\* collected, although select may take done while a token is pending.
ClosedMeansShort == outcome = "closed" => received < wanted

\* On a live connection every task is answered or deliberately skipped, once.
TasksAccounted ==
  link = "up" /\ rpc = "read" => tasksReceived = resultsSent + resultsDropped

\* "closes the connection just before handling the Nth task": no task from the
\* Nth on is handled, also those that were already buffered.
StopsBeforeNth ==
  cfg.disconnectAfter > 0 => resultsSent + resultsDropped < cfg.disconnectAfter

\* Close "waits for its read loop to exit", and gets there.
CloseEnds == (cpc = "waiting") ~> (cpc = "returned")
=============================================================================
