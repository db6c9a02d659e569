--------------------------- MODULE FrameBatchMap ---------------------------
(***************************************************************************)
(* The registry of outstanding render tasks                                *)
(* (internal/orchestrator/batch_map.go, batch_metadata.go): which batch    *)
(* each (client, task id) was given, whether it was stored, and the        *)
(* channel that wakes the goroutine waiting for it.                        *)
(*                                                                         *)
(* The code's map of maps is one function over pairs here: an inner map is *)
(* made with its first entry and dropped with its last under the same      *)
(* lock.  Each method holds fbMap.mutex throughout and is one operator.    *)
(***************************************************************************)
EXTENDS FrameBuffer, ClientPool, Functions

VARIABLES
  frameBatches,   \* <<client, task id>> -> [start, completed, done]
  closed          \* done channels that were closed

mapVars == <<frameBatches, closed>>

\* A channel is named by the absolute number of the batch it was made for.
NilChannel == -1

Channels == Nat \cup {NilChannel}

FrameBatchMetadata ==
  [start : Slots, completed : BOOLEAN, done : Channels]

\* What Go reads from a map that has no such entry.
ZeroMetadata == [start |-> 0, completed |-> FALSE, done |-> NilChannel]

NewFrameBatchMetadata(startFrame, channel) ==
  [start |-> startFrame, completed |-> FALSE, done |-> channel]

NewFrameBatchMap == frameBatches = << >> /\ closed = {}

Lookup(key) ==
  IF key \in DOMAIN frameBatches THEN frameBatches[key] ELSE ZeroMetadata

\* f with key mapped to value, whether or not f had the key.
Put(f, key, value) ==
  [k \in DOMAIN f \cup {key} |-> IF k = key THEN value ELSE f[k]]

----------------------------------------------------------------------------
(* Operations.                                                             *)

AddFrameBatch(clientID, renderTaskID, frameBatch) ==
  frameBatches' = Put(frameBatches, <<clientID, renderTaskID>>, frameBatch)

\* Mutant: the old executor's entry stays.
SwitchKeepingOldEntry(renderTaskID, clientID, newClient) ==
  /\ GenerateNewRenderTaskID(newClient)
  /\ frameBatches' = Put(frameBatches, <<newClient, NewRenderTaskID(newClient)>>,
                         Lookup(<<clientID, renderTaskID>>))
  /\ UNCHANGED panicked

\* The task moves to newClient under a fresh id of newClient's; its metadata,
\* completed flag and channel included, travels unchanged.
SwitchRenderTaskExecutor(renderTaskID, clientID, newClient) ==
  IF clientID = newClient
  THEN panicked' = TRUE /\ UNCHANGED <<frameBatches, numRenderTasks>>
  ELSE LET oldKey == <<clientID, renderTaskID>>
           newKey == <<newClient, NewRenderTaskID(newClient)>>
           moved  == Put(frameBatches, newKey, Lookup(oldKey))
       IN  /\ GenerateNewRenderTaskID(newClient)
           /\ frameBatches' = Restrict(moved, DOMAIN moved \ {oldKey})
           /\ UNCHANGED panicked

DeleteRenderTask(clientID, renderTaskID) ==
  frameBatches' =
    Restrict(frameBatches, DOMAIN frameBatches \ {<<clientID, renderTaskID>>})

\* Closing a channel twice, or a nil one, panics.
CloseChannel(channel) ==
  /\ closed' = closed \cup {channel}
  /\ panicked' = (panicked \/ channel = NilChannel \/ channel \in closed)

\* Mutant: a duplicate result is stored again.
SaveDuplicateResult(clientID, renderTaskID, data) ==
  LET key == <<clientID, renderTaskID>>
  IN  IF key \in DOMAIN frameBatches
      THEN /\ AddFramesToBuffer(frameBatches[key].start, data)
           /\ frameBatches' = [frameBatches EXCEPT ![key].completed = TRUE]
           /\ CloseChannel(frameBatches[key].done)
      ELSE UNCHANGED <<bufferVars, frameBatches, closed, panicked>>

\* A result for a task that is not assigned to this client, or that was
\* already stored, is ignored.
SaveRenderResult(clientID, renderTaskID, data) ==
  LET key == <<clientID, renderTaskID>>
  IN  IF key \in DOMAIN frameBatches /\ ~ frameBatches[key].completed
      THEN /\ AddFramesToBuffer(frameBatches[key].start, data)
           /\ frameBatches' = [frameBatches EXCEPT ![key].completed = TRUE]
           /\ CloseChannel(frameBatches[key].done)
      ELSE UNCHANGED <<bufferVars, frameBatches, closed, panicked>>
=============================================================================
