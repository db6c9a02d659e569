----------------------------- MODULE ByteBuffer -----------------------------
(***************************************************************************)
(* The frame buffer as the code lays it out: an array of bytes, head and   *)
(* tail as byte positions in machine words, and the conversions between    *)
(* int, uint64, frames and bytes.  Around it, the two loops of the         *)
(* orchestrator reduced to the calls they make on the buffer (somebody is  *)
(* always connected and every render task is answered), run with whatever  *)
(* round sizes the command line gives: the program does not validate them. *)
(*                                                                         *)
(* A byte is named by its position in the animation, modulo the ring.      *)
(***************************************************************************)
EXTENDS Integers, Sequences

CONSTANTS
  FrameSize,        \* bytes per frame (880 in the code)
  FramesPerBatch,   \* frames per batch (60)
  MaxBatches,       \* capacity of the ring in batches (1800)
  Word,             \* 2^64: unsigned arithmetic is modulo this
  Word32,           \* 2^32: frame numbers are uint32
  DefaultConfig,    \* the two built-in round sizes (6 and 4)
  Settings,         \* values tried for either on the command line
  MaxDispatched     \* bound: no round starts once this many batches were made

BatchSize == FramesPerBatch * FrameSize
MaxFrames == MaxBatches * FramesPerBatch
BufferSize == MaxFrames * FrameSize

ASSUME ByteBufferAssumption ==
  /\ {FrameSize, FramesPerBatch, MaxBatches} \subseteq Nat \ {0}
  /\ Word \in Nat /\ Word >= 2 * (MaxDispatched + MaxBatches) * BatchSize
  /\ Word32 \in Nat /\ Word32 >= 2 * BufferSize
  /\ Settings \subseteq -(Word \div 2) .. (Word \div 2 - 1)
  /\ DefaultConfig \in Settings \X Settings
  /\ MaxDispatched \in Nat

VARIABLES
  first, later,           \* FirstSecondsToBroadcast, SecondsToBroadcast
  buffer,                 \* byte index -> the byte stored there, or Blank
  head, tail,             \* byte positions
  panicked,
  dpc, isFirstRound, pending,            \* dispatcher; start frames in flight
  bpc, isFirstBroadcast, frames, sent    \* broadcaster; all bytes broadcast

bufferVars == <<buffer, head, tail, panicked>>
dispatcherVars == <<dpc, isFirstRound, pending>>
broadcasterVars == <<bpc, isFirstBroadcast, frames, sent>>
vars == <<first, later, bufferVars, dispatcherVars, broadcasterVars>>

Blank == -1
Addresses == 0..(BufferSize - 1)

\* uint64(n) of a signed n, and the reduction of every unsigned result.
U64(n) == n % Word

U32(n) == n % Word32

\* int arithmetic: the signed value with the same bits.
I64(n) == LET u == U64(n) IN IF u < Word \div 2 THEN u ELSE u - Word

GetLengthInFrames == U64(head - tail) \div FrameSize

isBufferSizeEnoughForBroadcast(seconds) ==
  GetLengthInFrames >= U64(U64(seconds) * FramesPerBatch)

frameBatchesRemainingToFullBuffer ==
  IF GetLengthInFrames = MaxFrames
  THEN 0 ELSE U64(MaxFrames - GetLengthInFrames) \div FramesPerBatch

\* Mutant: off by one, one batch is always kept free.
HasRoomForOneMore(batches) == frameBatchesRemainingToFullBuffer > U64(batches)

\* Mutant: compared in frames, as isBufferSizeEnoughForBroadcast does.
HasRoomForFrames(batches) ==
  MaxFrames - GetLengthInFrames >= U64(U64(batches) * FramesPerBatch)

HasRoomFor(batches) == frameBatchesRemainingToFullBuffer >= U64(batches)

GetNextFrameNumber == (head \div FrameSize) % MaxFrames

\* Mutant: what was already sent is counted as well.
FullnessOfHead ==
  LET percent == ((head \div FrameSize) * 100) \div MaxFrames
  IN  IF percent < 100 THEN percent ELSE 100

FullnessPercent ==
  LET percent == (GetLengthInFrames * 100) \div MaxFrames
  IN  IF percent < 100 THEN percent ELSE 100

\* Mutant: the second copy starts where the first one ended.
GetFramesUnwrapped(seconds) ==
  LET delta == U64(I64(seconds * BatchSize))
      tailIdx == tail % BufferSize
      n == IF BufferSize - tailIdx < delta THEN BufferSize - tailIdx ELSE delta
  IN  [k \in 1..delta |->
         IF k <= n THEN buffer[tailIdx + k - 1] ELSE buffer[(k - 1) % BufferSize]]

\* The two copies: n bytes up to the end of the ring, the rest from its start.
GetFramesToBroadcast(seconds) ==
  LET delta == U64(I64(seconds * BatchSize))
      tailIdx == tail % BufferSize
      n == IF BufferSize - tailIdx < delta THEN BufferSize - tailIdx ELSE delta
  IN  IF isBufferSizeEnoughForBroadcast(seconds)
      THEN [k \in 1..delta |->
              IF k <= n THEN buffer[tailIdx + k - 1] ELSE buffer[k - 1 - n]]
      ELSE << >>

\* Mutant: the frame number is used as the byte index.
AddFramesByNumber(startFrame, endFrame, data) ==
  LET batchStartIndex == startFrame % BufferSize
  IN  IF startFrame > endFrame
      THEN UNCHANGED buffer
      ELSE buffer' = [a \in Addresses |->
             IF a \in batchStartIndex..(batchStartIndex + BatchSize - 1)
             THEN data[a - batchStartIndex + 1] ELSE buffer[a]]

\* An end before the start is refused.
AddFramesToBuffer(startFrame, endFrame, data) ==
  LET batchStartIndex == U32(startFrame * FrameSize) % BufferSize
  IN  IF startFrame > endFrame
      THEN UNCHANGED buffer
      ELSE buffer' = [a \in Addresses |->
             IF a \in batchStartIndex..(batchStartIndex + BatchSize - 1)
             THEN data[a - batchStartIndex + 1] ELSE buffer[a]]

AdvanceHead(batches) ==
  /\ head' = U64(head + U64(I64(batches * BatchSize)))
  /\ UNCHANGED <<buffer, tail, panicked>>

RemoveSentFramesFromBuffer(seconds) ==
  LET framesToRemove == U64(I64(seconds * FramesPerBatch))
  IN  /\ IF framesToRemove > GetLengthInFrames
         THEN panicked' = TRUE /\ UNCHANGED tail
         ELSE tail' = U64(tail + U64(framesToRemove * FrameSize)) /\ UNCHANGED panicked
      /\ UNCHANGED <<buffer, head>>

----------------------------------------------------------------------------
(* The two loops.                                                          *)

batchesToFetch == IF isFirstRound THEN first ELSE later
seconds == IF isFirstBroadcast THEN first ELSE later

\* A flag or variable that is not given is << >>; so is a variable that is empty
\* or does not parse, which only costs a warning.
Optional == {<< >>} \cup {<<n>> : n \in Settings}

envInt(variable, def) == IF variable = << >> THEN def ELSE variable[1]

flagInt(flag, def) == IF flag = << >> THEN def ELSE flag[1]

\* main reads flags before the environment before the defaults, and hands the
\* values to New as they are.
Init ==
  /\ \E flag, variable \in Optional :
       first = flagInt(flag, envInt(variable, DefaultConfig[1]))
  /\ \E flag, variable \in Optional :
       later = flagInt(flag, envInt(variable, DefaultConfig[2]))
  /\ buffer = [a \in Addresses |-> Blank] /\ head = 0 /\ tail = 0
  /\ panicked = FALSE
  /\ dpc = "room" /\ isFirstRound = TRUE /\ pending = {}
  /\ bpc = "frames" /\ isFirstBroadcast = TRUE /\ frames = << >> /\ sent = << >>

\* WaitForRoom returned: one task per batch ("for range" of an int that is not
\* positive runs no iteration).
StartRound ==
  /\ dpc = "room"
  /\ head < MaxDispatched * BatchSize
  /\ HasRoomFor(batchesToFetch)
  /\ pending' = {U32(U32(GetNextFrameNumber) + i * FramesPerBatch) % MaxFrames :
                   i \in 0..(batchesToFetch - 1)}
  /\ dpc' = "join"
  /\ UNCHANGED <<isFirstRound, first, later, bufferVars, broadcasterVars>>

\* A worker's batch arrives; those of one round arrive in any order.
StoreBatch(startFrame) ==
  LET endFrame == (startFrame + FramesPerBatch - 1) % MaxFrames
      data == [k \in 1..BatchSize |-> startFrame * FrameSize + k - 1]
  IN  /\ startFrame \in pending
      /\ AddFramesToBuffer(startFrame, endFrame, data)
      /\ pending' = pending \ {startFrame}
      /\ UNCHANGED <<head, tail, panicked, dpc, isFirstRound, first, later,
                     broadcasterVars>>

EndRound ==
  /\ dpc = "join" /\ pending = {}
  /\ AdvanceHead(batchesToFetch)
  /\ dpc' = "room" /\ isFirstRound' = FALSE
  /\ UNCHANGED <<pending, first, later, broadcasterVars>>

\* WaitUntilBufferSizeEnoughForBroadcast returned.
GetFrames ==
  /\ bpc = "frames"
  /\ isBufferSizeEnoughForBroadcast(seconds)
  /\ frames' = GetFramesToBroadcast(seconds)
  /\ bpc' = "send"
  /\ UNCHANGED <<isFirstBroadcast, sent, first, later, bufferVars, dispatcherVars>>

\* Broadcast, then RemoveSentFramesFromBuffer.
SendAndRemove ==
  /\ bpc = "send"
  /\ sent' = sent \o frames
  /\ RemoveSentFramesFromBuffer(seconds)
  /\ bpc' = "frames" /\ isFirstBroadcast' = FALSE /\ frames' = << >>
  /\ UNCHANGED <<first, later, dispatcherVars>>

DispatcherNext ==
  StartRound \/ EndRound \/ \E startFrame \in pending : StoreBatch(startFrame)
BroadcasterNext == GetFrames \/ SendAndRemove

Next == DispatcherNext \/ BroadcasterNext

Spec == Init /\ [][Next]_vars /\ WF_vars(DispatcherNext) /\ WF_vars(BroadcasterNext)

----------------------------------------------------------------------------
(* Properties.                                                             *)

\* At the level of bytes, across the end of the ring, the fleet is sent the
\* animation from its start: the byte offsets of AddFramesToBuffer, the two
\* copies of GetFramesToBroadcast and the two cursors agree.
StreamBytesContiguous ==
  \A j \in 1..Len(sent) : sent[j] = (j - 1) % BufferSize

\* The batch whose bytes fill slot s, or Blank; -2 for a torn slot.
SlotHolds(s) ==
  LET bytes == [k \in 1..BatchSize |-> buffer[s * BatchSize + k - 1]]
  IN  IF \A k \in 1..BatchSize : bytes[k] = Blank THEN Blank
      ELSE IF \E b \in 0..(MaxBatches - 1) :
                \A k \in 1..BatchSize : bytes[k] = b * BatchSize + k - 1
           THEN bytes[1] \div BatchSize ELSE -2

Batches ==
  INSTANCE FrameBuffer WITH
    buffer <- [s \in 0..(MaxBatches - 1) |-> SlotHolds(s)],
    head <- head \div BatchSize, tail <- tail \div BatchSize, bufWait <- {}

\* A step of the byte buffer, in batches: the cursors stand at whole batches, each
\* method is the method of that name in FrameBuffer, and what GetFramesToBroadcast
\* copies is those batches' bytes.
BatchStep ==
  /\ head % BatchSize = 0 /\ tail % BatchSize = 0
  /\ \/ \E s \in Batches!Slots : Batches!AddFramesToBuffer(s, s)
     \/ \E n \in 0..MaxBatches :
          Batches!AdvanceHead(n) \/ Batches!RemoveSentFramesFromBuffer(n)
     \/ /\ UNCHANGED bufferVars
        /\ frames' # << >> =>
             LET batches == Batches!GetFramesToBroadcast(seconds)
             IN  frames' = [k \in 1..(Len(batches) * BatchSize) |->
                   batches[(k - 1) \div BatchSize + 1] * BatchSize
                     + ((k - 1) % BatchSize)]

\* Whatever the settings, the byte buffer does what FrameBuffer says in units of
\* one batch.
ImplementsFrameBuffer ==
  Batches!NewFrameBuffer /\ [][BatchStep]_<<bufferVars, frames>>

\* Telemetry's percentage lies in 0..100, reads 100 exactly when the ring has
\* no free frame, and 0 whenever it is empty.
FullnessReported ==
  /\ FullnessPercent \in 0..100
  /\ FullnessPercent = 100 <=> GetLengthInFrames = MaxFrames
  /\ GetLengthInFrames = 0 => FullnessPercent = 0

\* "The zero value is not valid": a first size of zero only skips the prefetch,
\* but later rounds need between one and MaxBatches batches and the first one at
\* most MaxBatches.
Valid == first \in 0..MaxBatches /\ later \in 1..MaxBatches

\* With such settings the stream flows to the bound.
FlowsWhenValid == Valid => <>(Len(sent) >= MaxDispatched * BatchSize)

\* With any other the server parks, or spins on empty rounds, for good, and says
\* nothing: no more than the first round is ever sent, and that only if it fits
\* the ring.  No conversion of a size wraps around to one that works.
StallsWhenInvalid ==
  ~ Valid => Len(sent) <= BatchSize * (IF first \in 0..MaxBatches THEN first ELSE 0)
=============================================================================
