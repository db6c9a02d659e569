---------------------------- MODULE FrameBuffer ----------------------------
(***************************************************************************)
(* The server's circular frame buffer (internal/buffer/frame_buffer.go):   *)
(* a fixed ring of rendered frames with a head the dispatcher advances and *)
(* a tail the broadcaster advances, one mutex and one condition variable.  *)
(*                                                                         *)
(* The unit is the batch.  The code keeps head and tail as byte positions, *)
(* but every update of either adds a whole number of batches (AdvanceHead  *)
(* and RemoveSentFramesFromBuffer both take a number of batches, and one   *)
(* second of frames is one batch), and the capacity MaxFrames is a whole   *)
(* number of batches; so a position is a batch number and a slot of the    *)
(* ring holds one batch.                                                   *)
(*                                                                         *)
(* Every method runs under fb.mu and is one operator here.  What a slot    *)
(* holds is the ring-relative number of the batch whose frames were copied *)
(* into it: frames are a pure function of the frame number, and the frame  *)
(* numbers the server hands out are ring-relative.                         *)
(***************************************************************************)
EXTENDS Integers, Sequences

CONSTANT MaxBatches        \* capacity of the ring in batches (1800 in the code)

ASSUME MaxBatchesAssumption == MaxBatches \in Nat \ {0}

VARIABLES
  buffer,     \* slot -> the batch whose frames it holds, or Blank
  head,       \* number of batches made available so far (monotonic)
  tail,       \* number of batches broadcast and dropped so far (monotonic)
  bufWait,    \* goroutines parked in fb.cond.Wait()
  panicked    \* some goroutine panicked (it stays so)

bufferVars == <<buffer, head, tail, bufWait>>

Slots == 0..(MaxBatches - 1)

\* The bytes of a slot nothing was ever copied into.
Blank == -1

\* Mutant: the reduction modulo the size of the ring is forgotten.
SlotUnreduced(position) == position

\* Position -> slot: the "% BufferSize" and "% MaxFrames" of the code.
Slot(position) == position % MaxBatches

\* The slots of the n positions that follow position p.
SlotsFrom(p, n) == {Slot(q) : q \in p..(p + n - 1)}

NewFrameBuffer ==
  /\ buffer = [s \in Slots |-> Blank]
  /\ head = 0
  /\ tail = 0
  /\ bufWait = {}

----------------------------------------------------------------------------
(* Reading the state of the ring (the lower-case helpers of the code).     *)

\* Mutant: what was already sent is counted as well.
LengthFromStart == head

GetLengthInBatches == head - tail

isBufferSizeEnoughForBroadcast(seconds) == GetLengthInBatches >= seconds

isBufferFull == GetLengthInBatches = MaxBatches

frameBatchesRemainingToFullBuffer ==
  IF isBufferFull THEN 0 ELSE MaxBatches - GetLengthInBatches

\* Mutants: off by one in either direction.
HasRoomForOneLess(batches) == frameBatchesRemainingToFullBuffer + 1 >= batches
HasRoomForOneMore(batches) == frameBatchesRemainingToFullBuffer > batches

\* The predicate WaitForRoom waits for.
HasRoomFor(batches) == frameBatchesRemainingToFullBuffer >= batches

\* Ring-relative number of the next batch to render.
GetNextFrameNumber == Slot(head)

\* Mutant: what lies past the end of the ring is not copied.
GetFramesUpToRingEnd(seconds) ==
  IF isBufferSizeEnoughForBroadcast(seconds)
  THEN [k \in 1..seconds |->
          IF Slot(tail) + k - 1 \in Slots THEN buffer[Slot(tail) + k - 1] ELSE Blank]
  ELSE <<>>

\* The next `seconds` batches from the tail, wrapping at the end of the ring;
\* nil when that many are not buffered.
GetFramesToBroadcast(seconds) ==
  IF isBufferSizeEnoughForBroadcast(seconds)
  THEN [k \in 1..seconds |-> buffer[Slot(tail + k - 1)]]
  ELSE <<>>

----------------------------------------------------------------------------
(* Operations.                                                             *)

AddFramesToBuffer(startFrame, data) ==
  /\ buffer' = [buffer EXCEPT ![startFrame] = data]
  /\ UNCHANGED <<head, tail, bufWait>>

AdvanceHead(batches) ==
  /\ head' = head + batches
  /\ UNCHANGED <<buffer, tail, bufWait, panicked>>

RemoveSentFramesFromBuffer(seconds) ==
  /\ IF seconds > GetLengthInBatches
     THEN panicked' = TRUE /\ UNCHANGED tail
     ELSE tail' = tail + seconds /\ UNCHANGED panicked
  /\ UNCHANGED <<buffer, head, bufWait>>

\* fb.cond.Wait(): the caller found its predicate false under the lock.
BufferPark(thread) ==
  /\ bufWait' = bufWait \cup {thread}
  /\ UNCHANGED <<buffer, head, tail, panicked>>

\* fb.cond.Broadcast(), called by AdvanceHead and RemoveSentFramesFromBuffer
\* after they released the lock.
BufferNotify ==
  /\ bufWait' = {}
  /\ UNCHANGED <<buffer, head, tail, panicked>>
=============================================================================
