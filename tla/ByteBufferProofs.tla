-------------------------- MODULE ByteBufferProofs --------------------------
(***************************************************************************)
(* Proofs about the byte-level frame buffer, for every size of frame,      *)
(* batch, ring and word and for every setting of the two round sizes,      *)
(* valid or not: no conversion between int, uint64, frames and bytes ever  *)
(* loses a frame or makes one up.                                          *)
(***************************************************************************)
EXTENDS ByteBuffer, Remainders

----------------------------------------------------------------------------
(* The inductive invariant.                                                *)

RingSlots == 0..(MaxBatches - 1)

\* The cursors in batches.
headBatch == head \div BatchSize
tailBatch == tail \div BatchSize

\* A round size the ring can take, and the batches a size really moves: one that
\* the ring cannot take moves nothing, whatever its conversion wraps around to.
Fits(n) == n \in 0..MaxBatches
Moved(n) == IF Fits(n) THEN n ELSE 0

Filled(s) ==
  \A k \in 0..(BatchSize - 1) : buffer[BatchSize * s + k] = BatchSize * s + k
Empty(s) ==
  \A k \in 0..(BatchSize - 1) : buffer[BatchSize * s + k] = Blank

\* The cursors are whole batches at most a ring apart, far below the word size.
CursorInv ==
  /\ headBatch \in Nat /\ head = BatchSize * headBatch
  /\ tailBatch \in Nat /\ tail = BatchSize * tailBatch
  /\ tailBatch <= headBatch /\ headBatch <= tailBatch + MaxBatches
  /\ headBatch <= MaxDispatched + MaxBatches
  /\ panicked = FALSE

\* A round in progress has a size that fits, and room.
RoundInv ==
  /\ dpc \in {"room", "join"}
  /\ dpc = "join" =>
       /\ Fits(batchesToFetch) /\ headBatch < MaxDispatched
       /\ headBatch + batchesToFetch <= tailBatch + MaxBatches

\* Sizes that do not fit: no round of such a size ever starts, so the broadcaster
\* finds an empty ring whenever it is up to broadcast such a size.  A later size
\* that moves nothing leaves the head where the first round put it.
SettingsInv ==
  /\ first \in Settings /\ later \in Settings
  /\ isFirstRound => headBatch = 0
  /\ ~ isFirstRound => Fits(first)
  /\ isFirstBroadcast => tailBatch = 0
  /\ later \notin 1..MaxBatches => headBatch = IF isFirstRound THEN 0 ELSE first
  /\ ~ Fits(later) => tailBatch = IF isFirstBroadcast THEN 0 ELSE Moved(first)

\* Every slot is written as a whole, with the bytes that belong there.
SlotsInv ==
  /\ DOMAIN buffer = Addresses
  /\ \A s \in RingSlots : Filled(s) \/ Empty(s)

\* Every batch below the head was stored; those of the round are stored or pending.
StoreInv ==
  /\ \A q \in 0..(headBatch - 1) : Filled(q % MaxBatches)
  /\ \A f \in pending : \E s \in RingSlots : f = FramesPerBatch * s
  /\ dpc = "room" => pending = {}
  /\ dpc = "join" =>
       \A q \in headBatch..(headBatch + batchesToFetch - 1) :
         Filled(q % MaxBatches) \/ FramesPerBatch * (q % MaxBatches) \in pending

\* What was sent is the animation up to the tail, and what is about to be sent is
\* what follows it.
SentInv ==
  /\ sent \in Seq(Int) /\ Len(sent) = tail
  /\ StreamBytesContiguous
  /\ bpc \in {"frames", "send"}
  /\ bpc = "frames" => frames = << >>
  /\ bpc = "send" =>
       /\ tailBatch + Moved(seconds) <= headBatch
       /\ U64(I64(seconds * FramesPerBatch)) = FramesPerBatch * Moved(seconds)
       /\ frames \in Seq(Int) /\ Len(frames) = BatchSize * Moved(seconds)
       /\ \A j \in 1..Len(frames) : frames[j] = (tail + (j - 1)) % BufferSize

Inv == CursorInv /\ RoundInv /\ SettingsInv /\ SlotsInv /\ StoreInv /\ SentInv

----------------------------------------------------------------------------
(* Conversions.                                                            *)

\* The sizes, each as a product; the word holds every position twice over.
LEMMA Sizes ==
  /\ FrameSize \in Nat \ {0} /\ FramesPerBatch \in Nat \ {0} /\ MaxBatches \in Nat \ {0}
  /\ BatchSize \in Nat \ {0} /\ MaxFrames \in Nat \ {0} /\ BufferSize \in Nat \ {0}
  /\ BatchSize = FrameSize * FramesPerBatch
  /\ MaxFrames = FramesPerBatch * MaxBatches
  /\ BufferSize = BatchSize * MaxBatches /\ BufferSize = FrameSize * MaxFrames
  /\ MaxDispatched \in Nat /\ Word \in Nat \ {0} /\ Word32 \in Nat \ {0}
<1>1. /\ FrameSize \in Nat \ {0} /\ FramesPerBatch \in Nat \ {0} /\ MaxBatches \in Nat \ {0}
      /\ MaxDispatched \in Nat /\ Word \in Nat /\ Word32 \in Nat
      /\ Word >= 2 * (MaxDispatched + MaxBatches) * BatchSize
      /\ Word32 >= 2 * BufferSize
  BY ByteBufferAssumption
<1>2. BatchSize \in Nat \ {0} /\ BatchSize = FrameSize * FramesPerBatch
  BY <1>1 DEF BatchSize
<1>3. MaxFrames \in Nat \ {0} /\ MaxFrames = FramesPerBatch * MaxBatches
  BY <1>1 DEF MaxFrames
<1>4. BufferSize \in Nat \ {0} /\ BufferSize = FrameSize * MaxFrames
  BY <1>1, <1>3 DEF BufferSize
<1>5. BufferSize = BatchSize * MaxBatches
  <2>1. FrameSize * (FramesPerBatch * MaxBatches) = (FrameSize * FramesPerBatch) * MaxBatches
    BY <1>1
  <2> QED
    BY <1>2, <1>3, <1>4, <2>1
<1>6. Word > 0
  <2> DEFINE n == 2 * (MaxDispatched + MaxBatches) * BatchSize
  <2>1. n \in Nat /\ n > 0
    BY <1>1, <1>2
  <2>2. Word >= n
    BY <1>1
  <2> HIDE DEF n
  <2> QED
    BY <1>1, <2>1, <2>2
<1>7. Word \in Nat \ {0} /\ Word32 \in Nat \ {0}
  BY <1>1, <1>4, <1>6
<1> QED
  BY <1>1, <1>2, <1>3, <1>4, <1>5, <1>7

LEMMA WordIsLarge ==
  /\ BatchSize * (MaxDispatched + MaxBatches) < Word
  /\ 2 * (MaxDispatched + MaxBatches) <= Word
  /\ 2 * BufferSize <= Word32
<1> DEFINE n == MaxDispatched + MaxBatches
<1>1. n \in Nat \ {0} /\ BatchSize \in Nat \ {0} /\ Word \in Nat
  BY Sizes
<1>2. Word >= 2 * n * BatchSize /\ Word32 >= 2 * BufferSize
  BY ByteBufferAssumption
<1> HIDE DEF n
<1>3. 2 * n * BatchSize = 2 * (BatchSize * n) /\ BatchSize * n \in Nat
  BY <1>1
<1>4. BatchSize * n >= n
  BY <1>1
<1>5. BatchSize * n < Word /\ 2 * n <= Word
  BY <1>1, <1>2, <1>3, <1>4
<1> QED
  BY <1>2, <1>5, Sizes DEF n

\* Conversions to uint64 and back.
LEMMA Cast ==
  ASSUME NEW n \in Int
  PROVE  /\ U64(n) \in 0..(Word - 1)
         /\ n \in 0..(Word - 1) => U64(n) = n
         /\ U64(I64(n)) = U64(n)
<1> DEFINE u == n % Word
<1>0. Word \in Nat \ {0}
  BY Sizes
<1>1. u \in 0..(Word - 1)
  BY <1>0, Division
<1>2. ASSUME n \in 0..(Word - 1) PROVE u = n
  <2>1. n \in Nat /\ n < Word
    BY <1>0, <1>2
  <2> QED
    BY <1>0, <2>1, SmallRemainder
<1> HIDE DEF u
<1>3. u % Word = u
  <2>1. u \in Nat /\ u < Word
    BY <1>0, <1>1
  <2> QED
    BY <1>0, <2>1, SmallRemainder
<1>4. (u - Word) % Word = u
  <2>1. u \in Int /\ -1 \in Int /\ Word * (-1) + u = u - Word
    BY <1>0, <1>1
  <2>2. (Word * (-1) + u) % Word = u
    BY <1>0, <1>1, <2>1, DivisionUnique
  <2> QED
    BY <2>1, <2>2
<1>5. U64(n) = u
  BY DEF U64, u
<1>6. I64(n) = u \/ I64(n) = u - Word
  BY <1>5 DEF I64
<1>7. U64(I64(n)) = u
  BY <1>3, <1>4, <1>6 DEF U64
<1> QED
  BY <1>1, <1>2, <1>5, <1>7

\* The products of a size that fits stay below the word size.
LEMMA CastFits ==
  ASSUME NEW n, Fits(n)
  PROVE  /\ U64(n) = n
         /\ U64(U64(n) * FramesPerBatch) = FramesPerBatch * n
         /\ U64(I64(n * FramesPerBatch)) = FramesPerBatch * n
         /\ U64((FramesPerBatch * n) * FrameSize) = BatchSize * n
         /\ U64(I64(n * BatchSize)) = BatchSize * n
<1> DEFINE F == FrameSize
           P == FramesPerBatch
           B == BatchSize
           M == MaxBatches
           D == MaxDispatched
<1>0. F \in Nat \ {0} /\ P \in Nat \ {0} /\ B \in Nat \ {0} /\ M \in Nat \ {0}
      /\ D \in Nat /\ B = F * P /\ B * (D + M) < Word /\ Word \in Nat
  BY Sizes, WordIsLarge
<1>1. n \in Nat /\ n <= M
  BY <1>0 DEF Fits
<1> HIDE DEF F, P, B, M, D
<1>2. B * n < Word /\ B * n \in Nat
  <2>1. n \in Int /\ D + M \in Int /\ n <= D + M
    BY <1>0, <1>1
  <2>2. B * n <= B * (D + M)
    BY <1>0, <2>1, ScaleOrder
  <2> QED
    BY <1>0, <1>1, <2>2
<1>3. (P * n) * F = B * n
  BY <1>0, <1>1
<1>4. P * n <= B * n /\ n <= B * n /\ P * n \in Nat
  <2>1. P * n \in Nat /\ P * n >= n
    BY <1>0, <1>1
  <2>2. (P * n) * F >= P * n
    BY <1>0, <2>1
  <2> QED
    BY <1>1, <1>2, <1>3, <2>1, <2>2
<1>5. n \in 0..(Word - 1) /\ P * n \in 0..(Word - 1) /\ B * n \in 0..(Word - 1)
  BY <1>0, <1>1, <1>2, <1>4
<1>6. U64(n) = n /\ U64(P * n) = P * n /\ U64(B * n) = B * n
  BY <1>5, Cast
<1>7. U64(I64(P * n)) = P * n /\ U64(I64(B * n)) = B * n
  BY <1>5, <1>6, Cast
<1>8. n * P = P * n /\ n * B = B * n
  BY <1>0, <1>1
<1> QED
  BY <1>3, <1>6, <1>7, <1>8 DEF F, P, B

\* When a product wraps around to no frames, so does every further product.
LEMMA CastNothing ==
  ASSUME NEW n \in Int, U64(U64(n) * FramesPerBatch) = 0
  PROVE  /\ U64(I64(n * FramesPerBatch)) = 0
         /\ U64(I64(n * BatchSize)) = 0
<1> DEFINE F == FrameSize
           P == FramesPerBatch
           B == BatchSize
<1>0. F \in Nat \ {0} /\ P \in Nat \ {0} /\ B = F * P /\ Word \in Nat \ {0} /\ B \in Nat
  BY Sizes
<1> HIDE DEF F, P, B
<1>1. P \in Int /\ F \in Int /\ n * P \in Int /\ n * B \in Int
  BY <1>0
<1>2. (n * P) % Word = 0
  <2>1. ((n % Word) * P) % Word = 0
    BY DEF U64, P
  <2>2. ((n % Word) * P) % Word = (n * P) % Word
    BY <1>0, <1>1, RemainderOfProduct
  <2> QED
    BY <2>1, <2>2
<1>3. (n * B) % Word = 0
  <2>1. (((n * P) % Word) * F) % Word = ((n * P) * F) % Word
    BY <1>0, <1>1, RemainderOfProduct
  <2>2. (n * P) * F = n * B
    BY <1>0
  <2>3. 0 * F = 0
    BY <1>0
  <2>4. 0 % Word = 0
    BY <1>0, SmallRemainder
  <2> QED
    BY <1>2, <2>1, <2>2, <2>3, <2>4
<1>4. U64(I64(n * P)) = 0 /\ U64(I64(n * B)) = 0
  <2>1. U64(I64(n * P)) = U64(n * P) /\ U64(I64(n * B)) = U64(n * B)
    BY <1>1, Cast
  <2> QED
    BY <1>2, <1>3, <2>1 DEF U64
<1> QED
  BY <1>4 DEF P, B

----------------------------------------------------------------------------
(* The cursors.                                                            *)

\* A number of whole batches, in bytes, in frames and back.
LEMMA WholeBatches ==
  ASSUME NEW n \in Nat
  PROVE  /\ BatchSize * n \in Nat
         /\ (BatchSize * n) \div BatchSize = n
         /\ (BatchSize * n) % BatchSize = 0
         /\ (BatchSize * n) \div FrameSize = FramesPerBatch * n
         /\ (FramesPerBatch * n) \div FramesPerBatch = n
<1> DEFINE F == FrameSize
           P == FramesPerBatch
           B == BatchSize
<1>0. F \in Nat \ {0} /\ P \in Nat \ {0} /\ B \in Nat \ {0} /\ B = F * P
  BY Sizes
<1> HIDE DEF F, P, B
<1>1. /\ n \in Int /\ B * n \in Nat /\ P * n \in Int /\ B * n = F * (P * n)
      /\ 0 \in 0..(F - 1) /\ 0 \in 0..(P - 1) /\ 0 \in 0..(B - 1)
      /\ F * (P * n) + 0 = F * (P * n) /\ P * n + 0 = P * n /\ B * n + 0 = B * n
  BY <1>0
<1>2. (B * n + 0) % B = 0 /\ (B * n + 0) \div B = n
  BY <1>0, <1>1, DivisionUnique
<1>3. (F * (P * n) + 0) \div F = P * n
  BY <1>0, <1>1, DivisionUnique
<1>4. (P * n + 0) \div P = n
  BY <1>0, <1>1, DivisionUnique
<1>5. B * n \in Nat /\ (B * n) \div B = n /\ (B * n) % B = 0
      /\ (B * n) \div F = P * n /\ (P * n) \div P = n
  BY <1>1, <1>2, <1>3, <1>4
<1> QED
  BY <1>5 DEF F, P, B

\* A cursor that is moved by whole batches.
LEMMA MoveCursor ==
  ASSUME NEW c \in Nat, NEW n \in Nat, c + n <= MaxDispatched + MaxBatches
  PROVE  /\ U64(BatchSize * c + BatchSize * n) = BatchSize * (c + n)
         /\ U64(BatchSize * (c + n)) = BatchSize * (c + n)
<1> DEFINE B == BatchSize
           L == MaxDispatched + MaxBatches
<1>0. B \in Nat \ {0} /\ L \in Nat /\ B * L < Word /\ Word \in Nat /\ c + n <= L
  BY Sizes, WordIsLarge
<1> HIDE DEF B, L
<1>1. c + n \in Int /\ L \in Int
  BY <1>0
<1>2. B * (c + n) <= B * L
  BY <1>0, <1>1, ScaleOrder
<1>3. B * (c + n) \in 0..(Word - 1) /\ B * c + B * n = B * (c + n)
  BY <1>0, <1>2
<1>4. U64(B * (c + n)) = B * (c + n)
  BY <1>3, Cast
<1> QED
  BY <1>3, <1>4 DEF B

\* The helpers of the buffer, in batches.
LEMMA Lengths ==
  ASSUME CursorInv
  PROVE  /\ GetLengthInFrames = FramesPerBatch * (headBatch - tailBatch)
         /\ frameBatchesRemainingToFullBuffer = MaxBatches - (headBatch - tailBatch)
         /\ GetNextFrameNumber = FramesPerBatch * (headBatch % MaxBatches)
         /\ headBatch - tailBatch \in 0..MaxBatches
<1> DEFINE P == FramesPerBatch
           M == MaxBatches
           n == headBatch - tailBatch
<1>0. P \in Nat \ {0} /\ M \in Nat \ {0} /\ MaxFrames = P * M /\ MaxDispatched \in Nat
  BY Sizes
<1>1. /\ headBatch \in Nat /\ head = BatchSize * headBatch
      /\ tailBatch \in Nat /\ tail = BatchSize * tailBatch
      /\ n \in Nat /\ n <= M /\ n <= MaxDispatched + MaxBatches
  BY <1>0 DEF CursorInv
<1>2. GetLengthInFrames = P * n
  <2>1. head - tail = BatchSize * n
    <3>1. BatchSize \in Nat
      BY Sizes
    <3> QED
      BY <1>1, <3>1
  <2> HIDE DEF n, P, M
  <2>2. 0 + n = n /\ 0 \in Nat /\ 0 + n <= MaxDispatched + MaxBatches
    BY <1>1
  <2>3. U64(BatchSize * n) = BatchSize * n
    BY <1>1, <2>2, MoveCursor
  <2>4. (BatchSize * n) \div FrameSize = P * n
    BY <1>1, WholeBatches DEF P
  <2> QED
    BY <2>1, <2>3, <2>4 DEF GetLengthInFrames
<1>3. frameBatchesRemainingToFullBuffer = M - n
  <2> HIDE DEF n, P, M
  <2>1. CASE n = M
    BY <1>0, <1>1, <1>2, <2>1 DEF frameBatchesRemainingToFullBuffer
  <2>2. CASE n # M
    <3>1. M - n \in Nat /\ P * M - P * n = P * (M - n) /\ P * n # P * M
      <4>1. M - n \in Nat /\ n \in Int /\ M \in Int /\ n < M
        BY <1>0, <1>1, <2>2
      <4>2. P * n < P * M
        BY <1>0, <4>1, ScaleOrder
      <4>3. P * n \in Int /\ P * M \in Int /\ P * M - P * n = P * (M - n)
        BY <1>0, <1>1
      <4> QED
        BY <4>1, <4>2, <4>3
    <3>2. P * (M - n) \in 0..(Word - 1)
      <4>1. Fits(M - n)
        BY <1>0, <1>1, <3>1 DEF Fits, M
      <4>2. U64(U64(M - n) * P) = P * (M - n)
        BY <4>1, CastFits DEF P
      <4>3. U64(M - n) = M - n
        BY <4>1, CastFits
      <4>4. (M - n) * P \in Int
        BY <1>0, <3>1
      <4>5. U64((M - n) * P) \in 0..(Word - 1)
        BY <4>4, Cast
      <4> QED
        BY <4>2, <4>3, <4>5
    <3>3. U64(P * (M - n)) = P * (M - n)
      <4>1. P * (M - n) \in Int
        BY <1>0, <3>1
      <4> QED
        BY <3>2, <4>1, Cast
    <3>4. (P * (M - n)) \div P = M - n
      BY <3>1, WholeBatches DEF P
    <3> QED
      BY <1>0, <1>2, <3>1, <3>3, <3>4 DEF frameBatchesRemainingToFullBuffer, P
  <2> QED
    BY <2>1, <2>2
<1>4. GetNextFrameNumber = P * (headBatch % M)
  <2>1. head \div FrameSize = P * headBatch
    BY <1>1, WholeBatches
  <2> HIDE DEF n, P, M
  <2>2. headBatch \in Int /\ 0 \in 0..(P - 1) /\ P * headBatch + 0 = P * headBatch
    BY <1>0, <1>1
  <2>3. (P * headBatch + 0) % (P * M) = P * (headBatch % M) + 0
    BY <1>0, <2>2, RemainderOfBlock
  <2>4. P * (headBatch % M) + 0 = P * (headBatch % M)
    <3>1. headBatch % M \in Int
      BY <1>0, <2>2, Division
    <3> QED
      BY <1>0, <3>1
  <2> QED
    BY <1>0, <2>1, <2>2, <2>3, <2>4 DEF GetNextFrameNumber
<1> QED
  BY <1>0, <1>1, <1>2, <1>3, <1>4

----------------------------------------------------------------------------
(* The slots of the ring.                                                  *)

\* Byte k of slot s is an address, and an address is in one slot only.
LEMMA SlotAddress ==
  ASSUME NEW s \in RingSlots, NEW k \in 0..(BatchSize - 1)
  PROVE  /\ BatchSize * s + k \in Addresses /\ BatchSize * s + k \in Int
         /\ \A r \in RingSlots :
              BatchSize * s + k \in (BatchSize * r)..(BatchSize * r + BatchSize - 1) <=> r = s
<1> DEFINE B == BatchSize
           M == MaxBatches
<1>0. B \in Nat \ {0} /\ M \in Nat \ {0} /\ BufferSize = B * M
  BY Sizes
<1>1. s \in Nat /\ s <= M - 1 /\ k \in Nat /\ k <= B - 1
  BY <1>0 DEF RingSlots
<1>2. Addresses = 0..(B * M - 1) /\ RingSlots = 0..(M - 1)
  BY <1>0 DEF Addresses, RingSlots
<1> HIDE DEF B, M
<1>3. \A a, b \in Int : a < b => B * a + B <= B * b
  <2> SUFFICES ASSUME NEW a \in Int, NEW b \in Int, a < b PROVE B * a + B <= B * b
    OBVIOUS
  <2>1. a + 1 \in Int /\ a + 1 <= b
    OBVIOUS
  <2>2. B * (a + 1) <= B * b
    BY <1>0, <2>1, ScaleOrder
  <2>3. B * (a + 1) = B * a + B
    BY <1>0
  <2> QED
    BY <2>2, <2>3
<1>4. B * s \in Nat /\ B * M \in Nat
  BY <1>0, <1>1
<1>5. B * s + k \in 0..(B * M - 1)
  <2>1. B * s + B <= B * M
    <3>1. s \in Int /\ M \in Int /\ s < M
      BY <1>0, <1>1
    <3> QED
      BY <1>3, <3>1
  <2> QED
    BY <1>0, <1>1, <1>4, <2>1
<1>6. ASSUME NEW r \in RingSlots
      PROVE  B * s + k \in (B * r)..(B * r + B - 1) <=> r = s
  <2>1. r \in Int /\ s \in Int /\ B * r \in Int
    BY <1>0, <1>1, <1>2
  <2>2. CASE r = s
    BY <1>0, <1>1, <1>4, <2>2
  <2>3. CASE r < s
    <3>1. B * r + B <= B * s
      BY <1>3, <2>1, <2>3
    <3> QED
      BY <1>0, <1>1, <1>4, <2>1, <2>3, <3>1
  <2>4. CASE s < r
    <3>1. B * s + B <= B * r
      BY <1>3, <2>1, <2>4
    <3> QED
      BY <1>0, <1>1, <1>4, <2>1, <2>4, <3>1
  <2> QED
    BY <2>1, <2>2, <2>3, <2>4
<1>7. /\ B * s + k \in Addresses /\ B * s + k \in Int
      /\ \A r \in RingSlots : B * s + k \in (B * r)..(B * r + B - 1) <=> r = s
  BY <1>1, <1>2, <1>4, <1>5, <1>6
<1> QED
  BY <1>7 DEF B

\* AddFramesToBuffer of a batch of the ring fills its slot and no other: the byte
\* index does not wrap around in 32 bits, and the batch's end is not before its
\* start, so that it is not refused.
LEMMA StoreFills ==
  ASSUME SlotsInv, NEW s \in RingSlots, StoreBatch(FramesPerBatch * s)
  PROVE  /\ DOMAIN buffer' = Addresses /\ Filled(s)'
         /\ \A r \in RingSlots : r # s => (Filled(r)' <=> Filled(r)) /\ (Empty(r)' <=> Empty(r))
<1> DEFINE F == FrameSize
           P == FramesPerBatch
           B == BatchSize
           M == MaxBatches
           N == BufferSize
           endFrame == (P * s + P - 1) % MaxFrames
           index == U32((P * s) * F) % N
           data == [k \in 1..B |-> (P * s) * F + k - 1]
<1>0. /\ F \in Nat \ {0} /\ P \in Nat \ {0} /\ B \in Nat \ {0} /\ M \in Nat \ {0}
      /\ N \in Nat \ {0} /\ B = F * P /\ MaxFrames = P * M /\ N = B * M
      /\ 2 * N <= Word32 /\ Word32 \in Nat \ {0}
  BY Sizes, WordIsLarge
<1>1. s \in Nat /\ s < M
  BY <1>0 DEF RingSlots
<1>2. IF P * s > endFrame
      THEN UNCHANGED buffer
      ELSE buffer' = [a \in Addresses |-> IF a \in index..(index + B - 1)
                                          THEN data[a - index + 1] ELSE buffer[a]]
  BY DEF StoreBatch, AddFramesToBuffer
<1> HIDE DEF F, P, B, M, N, endFrame, index, data
<1>3. (P * s) * F = B * s /\ B * s \in Nat /\ B * s < N
  <2>1. s \in Int /\ M \in Int
    BY <1>0, <1>1
  <2>2. B * s < B * M
    BY <1>0, <1>1, <2>1, ScaleOrder
  <2>3. (P * s) * F = B * s /\ B * s \in Nat
    BY <1>0, <1>1
  <2> QED
    BY <1>0, <2>2, <2>3
<1>4. endFrame = P * s + (P - 1) /\ P * s <= endFrame
  <2>1. s \in Int /\ P - 1 \in 0..(P - 1) /\ P * s + P - 1 = P * s + (P - 1) /\ P * s \in Int
    BY <1>0, <1>1
  <2>2. (P * s + (P - 1)) % (P * M) = P * (s % M) + (P - 1)
    BY <1>0, <2>1, RemainderOfBlock
  <2>3. s % M = s
    BY <1>0, <1>1, SmallRemainder
  <2>4. endFrame = P * s + (P - 1)
    BY <1>0, <2>1, <2>2, <2>3 DEF endFrame
  <2> QED
    BY <1>0, <2>1, <2>4
<1>5. index = B * s
  <2>1. B * s < Word32
    BY <1>0, <1>3
  <2>2. (B * s) % Word32 = B * s
    BY <1>0, <1>3, <2>1, SmallRemainder
  <2>3. (B * s) % N = B * s
    BY <1>0, <1>3, SmallRemainder
  <2> QED
    BY <1>3, <2>2, <2>3 DEF index, U32
<1>6. buffer' = [a \in Addresses |-> IF a \in (B * s)..(B * s + B - 1)
                                     THEN data[a - B * s + 1] ELSE buffer[a]]
  <2>1. ~ (P * s > endFrame)
    BY <1>0, <1>1, <1>4
  <2> QED
    BY <1>2, <1>5, <2>1
<1>7. Filled(s)'
  <2> SUFFICES ASSUME NEW k \in 0..(B - 1) PROVE buffer'[B * s + k] = B * s + k
    BY DEF Filled, B
  <2>1. B * s + k \in Addresses /\ B * s + k \in (B * s)..(B * s + B - 1)
    BY SlotAddress DEF B
  <2>2. buffer'[B * s + k] = data[(B * s + k) - B * s + 1]
    <3>1. \A a \in Addresses :
            a \in (B * s)..(B * s + B - 1) => buffer'[a] = data[a - B * s + 1]
      BY <1>6
    <3> QED
      BY <2>1, <3>1
  <2>3. (B * s + k) - B * s + 1 = k + 1 /\ k + 1 \in 1..B /\ (P * s) * F + (k + 1) - 1 = B * s + k
    <3>1. \A x \in Int : (x + k) - x + 1 = k + 1 /\ x + (k + 1) - 1 = x + k
      BY <1>0
    <3>2. k + 1 \in 1..B
      BY <1>0
    <3> QED
      BY <1>3, <3>1, <3>2
  <2>4. data[k + 1] = (P * s) * F + (k + 1) - 1
    BY <2>3 DEF data
  <2> QED
    BY <2>2, <2>3, <2>4
<1>8. ASSUME NEW r \in RingSlots, r # s, NEW k \in 0..(B - 1)
      PROVE  buffer'[B * r + k] = buffer[B * r + k]
  <2>1. B * r + k \in Addresses /\ B * r + k \notin (B * s)..(B * s + B - 1)
    BY <1>8, SlotAddress DEF B
  <2> QED
    BY <1>6, <2>1
<1>9. DOMAIN buffer' = Addresses
  BY <1>6
<1> QED
  BY <1>7, <1>8, <1>9 DEF Filled, Empty, B

\* A byte of an available batch, found by its position in the animation.
LEMMA StoredByte ==
  ASSUME CursorInv, StoreInv, NEW p \in Nat, p < head
  PROVE  buffer[p % BufferSize] = p % BufferSize
<1> DEFINE B == BatchSize
           M == MaxBatches
           q == p \div B
           k == p % B
<1>0. B \in Nat \ {0} /\ M \in Nat \ {0} /\ BufferSize = B * M
  BY Sizes
<1>1. headBatch \in Nat /\ head = B * headBatch
  BY DEF CursorInv
<1>2. \A i \in 0..(headBatch - 1) : Filled(i % M)
  BY DEF StoreInv
<1> HIDE DEF B, M
<1>3. q \in Int /\ k \in 0..(B - 1) /\ p = B * q + k
  BY <1>0, Division
<1> HIDE DEF q, k
<1>4. q < headBatch
  <2> SUFFICES ASSUME headBatch <= q PROVE FALSE
    BY <1>1, <1>3
  <2>1. headBatch \in Int
    BY <1>1
  <2>2. B * headBatch <= B * q
    BY <1>0, <1>3, <2>1, ScaleOrder
  <2>3. B * q \in Int
    BY <1>0, <1>3
  <2> QED
    BY <1>0, <1>1, <1>3, <2>2, <2>3
<1>5. q >= 0
  <2> SUFFICES ASSUME q <= -1 PROVE FALSE
    BY <1>3
  <2>1. B * q <= B * (-1)
    BY <1>0, <1>3, ScaleOrder
  <2>2. B * q \in Int
    BY <1>0, <1>3
  <2> QED
    BY <1>0, <1>3, <2>1, <2>2
<1>6. Filled(q % M)
  BY <1>1, <1>2, <1>3, <1>4, <1>5
<1>7. (B * q + k) % (B * M) = B * (q % M) + k
  BY <1>0, <1>3, RemainderOfBlock
<1>8. buffer[B * (q % M) + k] = B * (q % M) + k
  BY <1>3, <1>6 DEF Filled, B
<1> QED
  BY <1>0, <1>3, <1>7, <1>8

----------------------------------------------------------------------------
(* The two loops.                                                          *)

\* A round starts only with a size that fits, although the test is made in
\* unsigned arithmetic: a negative size converts to a huge one.
LEMMA RoomMeansFits ==
  ASSUME CursorInv, NEW n \in Settings, HasRoomFor(n), headBatch < MaxDispatched
  PROVE  Fits(n) /\ headBatch + n <= tailBatch + MaxBatches
<1>1. /\ headBatch \in Nat /\ tailBatch \in Nat /\ MaxBatches \in Nat /\ MaxDispatched \in Nat
      /\ Word \in Nat \ {0} /\ tailBatch <= headBatch
      /\ 2 * (MaxDispatched + MaxBatches) <= Word
  BY Sizes, WordIsLarge DEF CursorInv
<1>2. n \in -(Word \div 2)..(Word \div 2 - 1)
  BY ByteBufferAssumption
<1> DEFINE half == Word \div 2
<1>3. half \in Int /\ 2 * half <= Word /\ Word <= 2 * half + 1
  <2>1. Word \in Int /\ 2 \in Nat \ {0}
    BY <1>1
  <2>2. half \in Int /\ (Word % 2) \in 0..(2 - 1) /\ Word = 2 * half + (Word % 2)
    BY <2>1, Division
  <2> HIDE DEF half
  <2> QED
    BY <1>1, <2>2
<1> HIDE DEF half
<1>4. n \in Int /\ -half <= n /\ n < half
  BY <1>2, <1>3 DEF half
<1>5. MaxBatches - (headBatch - tailBatch) >= U64(n)
  BY Lengths DEF HasRoomFor
<1>6. CASE n >= 0
  <2>1. n \in 0..(Word - 1)
    BY <1>1, <1>3, <1>4, <1>6
  <2>2. U64(n) = n
    BY <1>4, <2>1, Cast
  <2> QED
    BY <1>1, <1>4, <1>5, <1>6, <2>2 DEF Fits
<1>7. CASE n < 0
  <2>1. Word + n \in Nat /\ Word + n < Word
    BY <1>1, <1>3, <1>4, <1>7
  <2>2. n = Word * (-1) + (Word + n) /\ Word + n \in Int /\ -1 \in Int
    BY <1>1, <1>4
  <2>3. (Word * (-1) + (Word + n)) % Word = (Word + n) % Word
    BY <1>1, <2>2, RemainderOfMultiple
  <2>4. (Word + n) % Word = Word + n
    BY <1>1, <2>1, SmallRemainder
  <2>5. U64(n) = Word + n
    BY <2>2, <2>3, <2>4 DEF U64
  <2> QED
    BY <1>1, <1>3, <1>4, <1>5, <2>5
<1> QED
  BY <1>4, <1>6, <1>7

\* The start frame of batch i of a round, a uint32, is that of its slot.
LEMMA RoundFrame ==
  ASSUME CursorInv, NEW i \in Nat, i < MaxBatches
  PROVE  U32(U32(GetNextFrameNumber) + i * FramesPerBatch) % MaxFrames
           = FramesPerBatch * ((headBatch + i) % MaxBatches)
<1> DEFINE P == FramesPerBatch
           M == MaxBatches
           h == headBatch % M
<1>0. /\ P \in Nat \ {0} /\ M \in Nat \ {0} /\ MaxFrames = P * M /\ MaxFrames \in Nat
      /\ FrameSize \in Nat \ {0} /\ BufferSize = FrameSize * MaxFrames
      /\ 2 * BufferSize <= Word32 /\ Word32 \in Nat \ {0}
  BY Sizes, WordIsLarge
<1>1. 2 * (P * M) <= Word32
  <2>1. BufferSize >= MaxFrames /\ BufferSize \in Nat
    BY <1>0
  <2> QED
    BY <1>0, <2>1
<1>2. headBatch \in Int /\ GetNextFrameNumber = P * h
  <2>1. headBatch \in Nat
    BY DEF CursorInv
  <2>2. GetNextFrameNumber = P * h
    BY Lengths
  <2> QED
    BY <2>1, <2>2
<1> HIDE DEF P, M
<1>3. h \in 0..(M - 1)
  BY <1>0, <1>2, Division
<1> HIDE DEF h
<1>4. P * h \in Nat /\ P * h < P * M /\ P * (h + i) < 2 * (P * M)
      /\ P * h + i * P = P * (h + i) /\ P * (h + i) \in Nat
  <2>1. h \in Int /\ M \in Int /\ h < M /\ h + i \in Int /\ 2 * M \in Int /\ h + i < 2 * M
    BY <1>0, <1>3 DEF M
  <2>2. P * h < P * M
    BY <1>0, <2>1, ScaleOrder
  <2>3. P * (h + i) < P * (2 * M)
    BY <1>0, <2>1, ScaleOrder
  <2>4. P * (2 * M) = 2 * (P * M) /\ P * h + i * P = P * (h + i)
    BY <1>0, <2>1
  <2>5. P * h \in Nat /\ P * (h + i) \in Nat
    BY <1>0, <1>3
  <2> QED
    BY <2>2, <2>3, <2>4, <2>5
<1>5. U32(P * h) = P * h /\ U32(P * (h + i)) = P * (h + i)
  <2>1. P * h < Word32 /\ P * (h + i) < Word32
    <3>1. P * M \in Nat
      BY <1>0
    <3> QED
      BY <1>0, <1>1, <1>4, <3>1
  <2>2. (P * h) % Word32 = P * h
    BY <1>0, <1>4, <2>1, SmallRemainder
  <2>3. (P * (h + i)) % Word32 = P * (h + i)
    BY <1>0, <1>4, <2>1, SmallRemainder
  <2> QED
    BY <2>2, <2>3 DEF U32
<1>6. (P * (h + i)) % (P * M) = P * ((h + i) % M)
  <2>1. h + i \in Int /\ 0 \in 0..(P - 1) /\ P * (h + i) + 0 = P * (h + i)
    BY <1>0, <1>3, <1>4
  <2>2. (P * (h + i) + 0) % (P * M) = P * ((h + i) % M) + 0
    BY <1>0, <2>1, RemainderOfBlock
  <2>3. (h + i) % M \in Int
    BY <1>0, <2>1, Division
  <2>4. P * ((h + i) % M) + 0 = P * ((h + i) % M)
    BY <1>0, <2>3
  <2> QED
    BY <2>1, <2>2, <2>4
<1>7. (h + i) % M = (headBatch + i) % M
  <2>1. i \in Int
    OBVIOUS
  <2>2. ((headBatch % M) + i) % M = (headBatch + i) % M
    BY <1>0, <1>2, <2>1, RemainderOfSum
  <2> QED
    BY <2>2 DEF h
<1>8. U32(U32(GetNextFrameNumber) + i * P) % (P * M) = P * ((headBatch + i) % M)
  BY <1>2, <1>4, <1>5, <1>6, <1>7
<1> QED
  BY <1>0, <1>8 DEF P, M

\* A size the broadcaster is up to: it fits, or the ring is empty.
LEMMA SecondsFitOrEmpty ==
  ASSUME CursorInv, SettingsInv
  PROVE  /\ seconds \in Settings /\ seconds \in Int
         /\ Fits(seconds) \/ headBatch = tailBatch
<1>1. first \in Settings /\ later \in Settings /\ Settings \subseteq Int
  <2>1. Word \div 2 \in Int
    <3>1. Word \in Int /\ 2 \in Nat \ {0}
      BY Sizes
    <3> QED
      BY <3>1, Division
  <2>2. \A n \in -(Word \div 2)..(Word \div 2 - 1) : n \in Int
    BY <2>1
  <2> QED
    BY <2>2, ByteBufferAssumption DEF SettingsInv
<1>2. /\ isFirstRound => headBatch = 0
      /\ ~ isFirstRound => Fits(first)
      /\ isFirstBroadcast => tailBatch = 0
      /\ ~ Fits(later) =>
           /\ headBatch = IF isFirstRound THEN 0 ELSE first
           /\ tailBatch = IF isFirstBroadcast THEN 0 ELSE Moved(first)
  BY Sizes DEF SettingsInv, Fits
<1>3. CASE isFirstBroadcast
  BY <1>1, <1>2, <1>3 DEF seconds
<1>4. CASE ~ isFirstBroadcast
  <2> SUFFICES ASSUME ~ Fits(later) PROVE headBatch = tailBatch
    BY <1>1, <1>4 DEF seconds
  <2>1. tailBatch = Moved(first) /\ headBatch = IF isFirstRound THEN 0 ELSE first
    BY <1>2, <1>4
  <2>2. CASE isFirstRound
    BY <2>1, <2>2 DEF CursorInv
  <2>3. CASE ~ isFirstRound
    BY <1>2, <2>1, <2>3 DEF Moved
  <2> QED
    BY <2>2, <2>3
<1> QED
  BY <1>3, <1>4

\* What the three products of the round size come to, once the buffer has enough.
LEMMA EnoughMeansMoved ==
  ASSUME CursorInv, SettingsInv, isBufferSizeEnoughForBroadcast(seconds)
  PROVE  /\ tailBatch + Moved(seconds) <= headBatch /\ Moved(seconds) \in 0..MaxBatches
         /\ U64(I64(seconds * BatchSize)) = BatchSize * Moved(seconds)
         /\ U64(I64(seconds * FramesPerBatch)) = FramesPerBatch * Moved(seconds)
<1> DEFINE P == FramesPerBatch
           n == headBatch - tailBatch
           s == seconds
<1>0. P \in Nat \ {0} /\ BatchSize \in Nat \ {0} /\ MaxBatches \in Nat
  BY Sizes
<1>1. /\ headBatch \in Nat /\ tailBatch \in Nat /\ n \in Nat /\ s \in Int
      /\ Fits(s) \/ headBatch = tailBatch
  <2>1. headBatch \in Nat /\ tailBatch \in Nat /\ tailBatch <= headBatch
    BY DEF CursorInv
  <2>2. s \in Int /\ (Fits(s) \/ headBatch = tailBatch)
    BY SecondsFitOrEmpty
  <2> QED
    BY <2>1, <2>2
<1>2. P * n >= U64(U64(s) * P)
  BY Lengths DEF isBufferSizeEnoughForBroadcast
<1> HIDE DEF P, n, s
<1>3. CASE Fits(s)
  <2>1. s \in Nat /\ s <= MaxBatches /\ Moved(s) = s
    BY <1>0, <1>3 DEF Fits, Moved
  <2>2. P * n >= P * s
    BY <1>2, <1>3, CastFits DEF P
  <2>3. n \in Int /\ s \in Int /\ P * s \in Int /\ P * n \in Int
    BY <1>0, <1>1, <2>1
  <2>4. P * s <= P * n
    BY <2>2, <2>3
  <2>5. s <= n
    BY <1>0, <2>3, <2>4, ScaleOrder
  <2>6. U64(I64(s * BatchSize)) = BatchSize * s /\ U64(I64(s * P)) = P * s
    BY <1>3, CastFits DEF P
  <2>7. tailBatch + s <= headBatch
    BY <1>1, <2>1, <2>5 DEF n
  <2> QED
    BY <1>0, <2>1, <2>6, <2>7 DEF s, P
<1>4. CASE ~ Fits(s)
  <2>1. P * n = 0 /\ Moved(s) = 0
    BY <1>0, <1>1, <1>4 DEF n, Moved
  <2>2. U64(s) * P \in Int
    <3>1. U64(s) \in 0..(Word - 1)
      BY <1>1, Cast
    <3> QED
      BY <1>0, <3>1, Sizes
  <2>3. U64(U64(s) * P) \in 0..(Word - 1)
    BY <2>2, Cast
  <2>4. U64(U64(s) * P) = 0
    BY <1>2, <2>1, <2>3, Sizes
  <2>5. U64(I64(s * BatchSize)) = 0 /\ U64(I64(s * P)) = 0
    BY <1>1, <2>4, CastNothing DEF P
  <2>6. BatchSize * 0 = 0 /\ P * 0 = 0 /\ tailBatch + 0 <= headBatch /\ 0 \in 0..MaxBatches
    BY <1>0, <1>1, <1>4
  <2> QED
    BY <2>1, <2>5, <2>6 DEF s, P
<1> QED
  BY <1>3, <1>4

\* The two copies of GetFramesToBroadcast yield the bytes that follow the tail.
LEMMA CopiesFollowTail ==
  ASSUME CursorInv, SettingsInv, StoreInv, isBufferSizeEnoughForBroadcast(seconds)
  PROVE  LET bytes == GetFramesToBroadcast(seconds)
         IN  /\ bytes \in Seq(Int) /\ Len(bytes) = BatchSize * Moved(seconds)
             /\ \A j \in 1..Len(bytes) : bytes[j] = (tail + (j - 1)) % BufferSize
<1> DEFINE N == BufferSize
           d == BatchSize * Moved(seconds)
           t == tail % N
           n == IF N - t < d THEN N - t ELSE d
           bytes == [k \in 1..d |-> IF k <= n THEN buffer[t + k - 1] ELSE buffer[k - 1 - n]]
<1>0. N \in Nat \ {0} /\ BatchSize \in Nat \ {0} /\ N = BatchSize * MaxBatches
      /\ MaxBatches \in Nat
  BY Sizes
<1>1. /\ tailBatch \in Nat /\ headBatch \in Nat /\ tail = BatchSize * tailBatch
      /\ head = BatchSize * headBatch
  BY DEF CursorInv
<1>2. /\ tailBatch + Moved(seconds) <= headBatch /\ Moved(seconds) \in Int
      /\ Moved(seconds) >= 0 /\ Moved(seconds) <= MaxBatches
      /\ U64(I64(seconds * BatchSize)) = d
  BY <1>0, EnoughMeansMoved
<1>3. GetFramesToBroadcast(seconds) = bytes
  BY <1>2 DEF GetFramesToBroadcast
<1>4. d \in Nat /\ d <= N /\ tail \in Nat /\ tail + d <= head /\ head \in Nat
  <2> DEFINE m == Moved(seconds)
             B == BatchSize
  <2>1. m \in Nat /\ m <= MaxBatches /\ tailBatch + m <= headBatch
    BY <1>2
  <2> HIDE DEF m, B
  <2>2. m \in Int /\ MaxBatches \in Int /\ tailBatch + m \in Int /\ headBatch \in Int
    BY <1>0, <1>1, <2>1
  <2>3. B * m <= B * MaxBatches
    BY <1>0, <2>1, <2>2, ScaleOrder DEF B
  <2>4. B * (tailBatch + m) <= B * headBatch
    BY <1>0, <2>1, <2>2, ScaleOrder DEF B
  <2>5. /\ B * (tailBatch + m) = B * tailBatch + B * m
        /\ B * m \in Nat /\ B * tailBatch \in Nat /\ B * headBatch \in Nat
    BY <1>0, <1>1, <2>1 DEF B
  <2>6. B * m \in Nat /\ B * m <= B * MaxBatches /\ B * tailBatch \in Nat
        /\ B * tailBatch + B * m <= B * headBatch /\ B * headBatch \in Nat
    BY <2>3, <2>4, <2>5
  <2> QED
    BY <1>0, <1>1, <2>6 DEF B, m
<1> HIDE DEF N, d
<1>5. t \in 0..(N - 1) /\ tail \in Int
  <2>1. tail \in Int
    BY <1>4
  <2>2. tail % N \in 0..(N - 1)
    BY <1>0, <2>1, Division
  <2> QED
    BY <2>1, <2>2
<1> HIDE DEF t
<1>6. n \in Nat /\ n <= d /\ t + n <= N /\ (n < d => t + n = N)
  BY <1>0, <1>4, <1>5
<1> HIDE DEF n
<1>7. ASSUME NEW k \in 1..d
      PROVE  /\ bytes[k] = (tail + (k - 1)) % N
             /\ (tail + (k - 1)) % N \in Int
  <2>1. k \in Int /\ k - 1 \in Int /\ tail + (k - 1) \in Nat /\ tail + (k - 1) < head
        /\ k >= 1 /\ k <= d
    BY <1>4
  <2>2. ((tail % N) + (k - 1)) % N = (tail + (k - 1)) % N
    BY <1>0, <1>5, <2>1, RemainderOfSum
  <2>3. buffer[(tail + (k - 1)) % N] = (tail + (k - 1)) % N
    BY <2>1, StoredByte DEF N
  <2>4. CASE k <= n
    <3>1. t + (k - 1) \in Nat /\ t + (k - 1) < N /\ t + k - 1 = t + (k - 1)
      BY <1>0, <1>5, <1>6, <2>1, <2>4
    <3>2. (t + (k - 1)) % N = t + (k - 1)
      BY <1>0, <3>1, SmallRemainder
    <3>3. (tail + (k - 1)) % N = t + k - 1
      BY <2>2, <3>1, <3>2 DEF t
    <3>4. bytes[k] = buffer[t + k - 1]
      BY <2>4
    <3> QED
      BY <2>3, <3>1, <3>3, <3>4
  <2>5. CASE ~ (k <= n)
    <3>0. PICK c \in Int : c = 1
      OBVIOUS
    <3>1. /\ k - 1 - n \in Nat /\ k - 1 - n < N
          /\ t + (k - 1) = N * c + (k - 1 - n) /\ k - 1 - n \in Int
      BY <1>0, <1>4, <1>5, <1>6, <2>1, <2>5, <3>0
    <3>2. (N * c + (k - 1 - n)) % N = (k - 1 - n) % N
      BY <1>0, <3>1, RemainderOfMultiple
    <3>3. (k - 1 - n) % N = k - 1 - n
      BY <1>0, <3>1, SmallRemainder
    <3>4. (tail + (k - 1)) % N = k - 1 - n
      BY <2>2, <3>1, <3>2, <3>3 DEF t
    <3>5. bytes[k] = buffer[k - 1 - n]
      BY <2>5
    <3> QED
      BY <2>3, <3>1, <3>4, <3>5
  <2> QED
    BY <2>4, <2>5
<1>8. bytes \in Seq(Int) /\ Len(bytes) = d /\ \A k \in 1..d : bytes[k] = (tail + (k - 1)) % N
  <2>1. bytes \in [1..d -> Int]
    <3>1. \A k \in 1..d : bytes[k] \in Int
      BY <1>7
    <3> QED
      BY <3>1
  <2> HIDE DEF bytes
  <2>2. bytes \in Seq(Int) /\ Len(bytes) = d
    BY <1>4, <2>1
  <2> QED
    BY <1>7, <2>2
<1> QED
  BY <1>3, <1>8 DEF N, d

----------------------------------------------------------------------------
(* The steps.                                                              *)

LEMMA StartRoundStep ==
  ASSUME Inv, StartRound
  PROVE  Inv'
<1> DEFINE b == batchesToFetch
<1>1. /\ CursorInv /\ RoundInv /\ SettingsInv /\ SlotsInv /\ StoreInv /\ SentInv
  BY DEF Inv
<1>2. /\ dpc = "room" /\ head < MaxDispatched * BatchSize /\ HasRoomFor(b)
      /\ pending' = {U32(U32(GetNextFrameNumber) + i * FramesPerBatch) % MaxFrames :
                       i \in 0..(b - 1)}
      /\ dpc' = "join"
      /\ UNCHANGED <<isFirstRound, first, later, buffer, head, tail, panicked, bpc,
                     isFirstBroadcast, frames, sent>>
  BY DEF StartRound, bufferVars, broadcasterVars
<1>3. b \in Settings /\ b' = b
  BY <1>1, <1>2 DEF SettingsInv, batchesToFetch
<1>4. headBatch < MaxDispatched
  <2> SUFFICES ASSUME MaxDispatched <= headBatch PROVE FALSE
    BY <1>1, Sizes DEF CursorInv
  <2>1. headBatch \in Int /\ MaxDispatched \in Int /\ head = BatchSize * headBatch
    BY <1>1, Sizes DEF CursorInv
  <2>2. BatchSize * MaxDispatched <= BatchSize * headBatch
    BY <2>1, Sizes, ScaleOrder
  <2>3. BatchSize * MaxDispatched = MaxDispatched * BatchSize
        /\ BatchSize * MaxDispatched \in Int /\ BatchSize * headBatch \in Int
    BY <2>1, Sizes
  <2> QED
    BY <1>2, <2>1, <2>2, <2>3
<1>5. Fits(b) /\ headBatch + b <= tailBatch + MaxBatches
  BY <1>1, <1>2, <1>3, <1>4, RoomMeansFits
<1>6. headBatch \in Nat /\ b \in Nat /\ b <= MaxBatches /\ MaxBatches \in Nat \ {0}
  BY <1>1, <1>5, Sizes DEF CursorInv, Fits
<1> HIDE DEF b
<1>7. CursorInv' /\ headBatch' = headBatch /\ tailBatch' = tailBatch
  BY <1>1, <1>2 DEF CursorInv, headBatch, tailBatch
<1>8. RoundInv'
  BY <1>2, <1>3, <1>4, <1>5, <1>7 DEF RoundInv, Fits, b
<1>9. SettingsInv'
  BY <1>1, <1>2, <1>7 DEF SettingsInv, Fits, Moved
<1>10. SlotsInv'
  BY <1>1, <1>2 DEF SlotsInv, Filled, Empty
<1>11. \A i \in 0..(b - 1) : U32(U32(GetNextFrameNumber) + i * FramesPerBatch) % MaxFrames
                               = FramesPerBatch * ((headBatch + i) % MaxBatches)
  <2> SUFFICES ASSUME NEW i \in 0..(b - 1)
               PROVE  U32(U32(GetNextFrameNumber) + i * FramesPerBatch) % MaxFrames
                        = FramesPerBatch * ((headBatch + i) % MaxBatches)
    OBVIOUS
  <2>1. i \in Nat /\ i < MaxBatches
    BY <1>6
  <2> QED
    BY <1>1, <2>1, RoundFrame
<1>12. StoreInv'
  <2>1. \A q \in 0..(headBatch' - 1) : Filled(q % MaxBatches)'
    BY <1>1, <1>2, <1>7 DEF StoreInv, Filled
  <2>2. ASSUME NEW f \in pending' PROVE \E s \in RingSlots : f = FramesPerBatch * s
    <3>1. PICK i \in 0..(b - 1) : f = FramesPerBatch * ((headBatch + i) % MaxBatches)
      BY <1>2, <1>11, <2>2
    <3>2. headBatch + i \in Int
      BY <1>6
    <3>3. (headBatch + i) % MaxBatches \in RingSlots
      BY <1>6, <3>2, Division DEF RingSlots
    <3> QED
      BY <3>1, <3>3
  <2>3. ASSUME NEW q \in headBatch..(headBatch + b - 1)
        PROVE  FramesPerBatch * (q % MaxBatches) \in pending'
    <3>1. q - headBatch \in 0..(b - 1) /\ headBatch + (q - headBatch) = q
      BY <1>6
    <3> QED
      BY <1>2, <1>11, <3>1
  <2> QED
    BY <1>2, <1>3, <1>7, <2>1, <2>2, <2>3 DEF StoreInv, b
<1>13. SentInv'
  BY <1>1, <1>2, <1>7 DEF SentInv, StreamBytesContiguous, seconds, Moved, Fits
<1> QED
  BY <1>7, <1>8, <1>9, <1>10, <1>12, <1>13 DEF Inv

LEMMA StoreBatchStep ==
  ASSUME Inv, NEW startFrame \in pending, StoreBatch(startFrame)
  PROVE  Inv'
<1>1. /\ CursorInv /\ RoundInv /\ SettingsInv /\ SlotsInv /\ StoreInv /\ SentInv
  BY DEF Inv
<1>2. /\ pending' = pending \ {startFrame}
      /\ UNCHANGED <<head, tail, panicked, dpc, isFirstRound, first, later, bpc,
                     isFirstBroadcast, frames, sent>>
  BY DEF StoreBatch, broadcasterVars
<1>3. PICK s \in RingSlots : startFrame = FramesPerBatch * s
  BY <1>1 DEF StoreInv
<1>4. /\ DOMAIN buffer' = Addresses /\ Filled(s)'
      /\ \A r \in RingSlots : r # s => (Filled(r)' <=> Filled(r)) /\ (Empty(r)' <=> Empty(r))
  BY <1>1, <1>3, StoreFills
<1>5. CursorInv' /\ headBatch' = headBatch /\ tailBatch' = tailBatch
      /\ batchesToFetch' = batchesToFetch /\ seconds' = seconds
  BY <1>1, <1>2 DEF CursorInv, headBatch, tailBatch, batchesToFetch, seconds
<1>6. RoundInv'
  BY <1>1, <1>2, <1>5 DEF RoundInv, Fits
<1>7. SettingsInv'
  BY <1>1, <1>2, <1>5 DEF SettingsInv, Fits, Moved
<1>8. SlotsInv'
  BY <1>1, <1>4 DEF SlotsInv
<1>9. \A q \in Int : /\ q % MaxBatches \in RingSlots
                     /\ Filled(q % MaxBatches) => Filled(q % MaxBatches)'
  <2> SUFFICES ASSUME NEW q \in Int
               PROVE  /\ q % MaxBatches \in RingSlots
                      /\ Filled(q % MaxBatches) => Filled(q % MaxBatches)'
    OBVIOUS
  <2>1. q % MaxBatches \in RingSlots
    BY Sizes, Division DEF RingSlots
  <2> QED
    BY <1>4, <2>1
<1>10. StoreInv'
  <2>0. headBatch \in Nat
    BY <1>1 DEF CursorInv
  <2>1. \A q \in 0..(headBatch - 1) : Filled(q % MaxBatches)'
    BY <1>1, <1>9, <2>0 DEF StoreInv
  <2>2. \A f \in pending' : \E r \in RingSlots : f = FramesPerBatch * r
    BY <1>1, <1>2 DEF StoreInv
  <2>3. dpc' = "room" => pending' = {}
    BY <1>1, <1>2 DEF StoreInv
  <2>4. ASSUME dpc = "join", NEW q \in headBatch..(headBatch + batchesToFetch - 1)
        PROVE  Filled(q % MaxBatches)' \/ FramesPerBatch * (q % MaxBatches) \in pending'
    <3>1. q \in Int /\ q % MaxBatches \in RingSlots
      BY <1>9, <2>0
    <3>2. CASE q % MaxBatches = s
      BY <1>4, <3>2
    <3>3. CASE q % MaxBatches # s
      <4>1. FramesPerBatch * (q % MaxBatches) # startFrame
        <5> DEFINE r == q % MaxBatches
        <5>1. r \in Int /\ s \in Int /\ r # s
          BY <3>1, <3>3, Sizes DEF RingSlots
        <5> HIDE DEF r
        <5>2. r < s \/ s < r
          BY <5>1
        <5>3. FramesPerBatch * r \in Int /\ FramesPerBatch * s \in Int
          BY <5>1, Sizes
        <5>4. FramesPerBatch * r < FramesPerBatch * s \/ FramesPerBatch * s < FramesPerBatch * r
          BY <5>1, <5>2, Sizes, ScaleOrder
        <5> QED
          BY <1>3, <5>3, <5>4 DEF r
      <4>2. Filled(q % MaxBatches) \/ FramesPerBatch * (q % MaxBatches) \in pending
        BY <1>1, <2>4 DEF StoreInv
      <4> QED
        BY <1>2, <1>9, <3>1, <4>1, <4>2
    <3> QED
      BY <3>2, <3>3
  <2> QED
    BY <1>2, <1>5, <2>1, <2>2, <2>3, <2>4 DEF StoreInv
<1>11. SentInv'
  BY <1>1, <1>2, <1>5 DEF SentInv, StreamBytesContiguous, Moved, Fits
<1> QED
  BY <1>5, <1>6, <1>7, <1>8, <1>10, <1>11 DEF Inv

\* The head moves by the round's batches.
LEMMA EndRoundEffect ==
  ASSUME Inv, EndRound
  PROVE  /\ headBatch' = headBatch + batchesToFetch
         /\ head' = BatchSize * (headBatch + batchesToFetch)
         /\ batchesToFetch \in 0..MaxBatches
<1> DEFINE b == batchesToFetch
<1>1. /\ dpc = "join" /\ head' = U64(head + U64(I64(b * BatchSize)))
  BY DEF EndRound, AdvanceHead
<1>2. /\ Fits(b) /\ headBatch < MaxDispatched /\ headBatch \in Nat
      /\ head = BatchSize * headBatch
  BY <1>1 DEF Inv, RoundInv, CursorInv
<1>3. b \in Nat /\ b <= MaxBatches /\ headBatch + b <= MaxDispatched + MaxBatches
      /\ headBatch + b \in Nat /\ b \in 0..MaxBatches
  BY <1>2, Sizes DEF Fits
<1> HIDE DEF b
<1>4. U64(I64(b * BatchSize)) = BatchSize * b
  BY <1>2, CastFits
<1>5. head' = BatchSize * (headBatch + b)
  BY <1>1, <1>2, <1>3, <1>4, MoveCursor
<1>6. (BatchSize * (headBatch + b)) \div BatchSize = headBatch + b
  BY <1>3, WholeBatches
<1> QED
  BY <1>3, <1>5, <1>6 DEF headBatch, b

LEMMA EndRoundStep ==
  ASSUME Inv, EndRound
  PROVE  Inv'
<1> DEFINE b == batchesToFetch
<1>1. /\ CursorInv /\ RoundInv /\ SettingsInv /\ SlotsInv /\ StoreInv /\ SentInv
  BY DEF Inv
<1>2. /\ dpc = "join" /\ pending = {} /\ dpc' = "room" /\ isFirstRound' = FALSE
      /\ UNCHANGED <<pending, first, later, buffer, tail, panicked, bpc,
                     isFirstBroadcast, frames, sent>>
  BY DEF EndRound, AdvanceHead, broadcasterVars
<1>3. /\ headBatch' = headBatch + b /\ head' = BatchSize * (headBatch + b)
      /\ b \in 0..MaxBatches /\ MaxBatches \in Nat /\ MaxDispatched \in Nat
  BY EndRoundEffect, Sizes
<1>4. /\ headBatch \in Nat /\ tailBatch \in Nat /\ headBatch < MaxDispatched
      /\ headBatch + b <= tailBatch + MaxBatches /\ tailBatch <= headBatch
  BY <1>1, <1>2 DEF CursorInv, RoundInv
<1>5. tailBatch' = tailBatch /\ seconds' = seconds
  BY <1>2 DEF tailBatch, seconds
<1>6. CursorInv'
  <2>1. tail = BatchSize * tailBatch /\ panicked = FALSE
    BY <1>1 DEF CursorInv
  <2>2. /\ headBatch' \in Nat /\ tailBatch' <= headBatch'
        /\ headBatch' <= tailBatch' + MaxBatches
        /\ headBatch' <= MaxDispatched + MaxBatches
    BY <1>3, <1>4, <1>5
  <2>3. head' = BatchSize * headBatch'
    BY <1>3
  <2> QED
    BY <1>2, <1>4, <1>5, <2>1, <2>2, <2>3 DEF CursorInv
<1>7. RoundInv'
  BY <1>2 DEF RoundInv
<1>8. SettingsInv'
  <2>1. /\ first \in Settings /\ later \in Settings
        /\ isFirstRound => headBatch = 0
        /\ ~ isFirstRound => Fits(first)
        /\ isFirstBroadcast => tailBatch = 0
        /\ ~ Fits(later) => tailBatch = IF isFirstBroadcast THEN 0 ELSE Moved(first)
    BY <1>1 DEF SettingsInv
  <2>2. Fits(b)
    BY <1>1, <1>2 DEF RoundInv
  <2>3. Fits(first)
    BY <2>1, <2>2 DEF batchesToFetch
  <2>4. later \notin 1..MaxBatches => headBatch' = first
    <3> SUFFICES ASSUME later \notin 1..MaxBatches PROVE headBatch' = first
      OBVIOUS
    <3>1. CASE isFirstRound
      <4>1. b = first /\ headBatch = 0
        BY <2>1, <3>1 DEF batchesToFetch
      <4> QED
        BY <1>3, <4>1
    <3>2. CASE ~ isFirstRound
      <4>1. b = later /\ headBatch = first
        BY <1>1, <3>2 DEF batchesToFetch, SettingsInv
      <4>2. b = 0
        BY <1>3, <4>1
      <4> QED
        BY <1>3, <1>4, <4>1, <4>2
    <3> QED
      BY <3>1, <3>2
  <2> QED
    BY <1>2, <1>5, <2>1, <2>3, <2>4 DEF SettingsInv, Fits, Moved
<1>9. SlotsInv'
  BY <1>1, <1>2 DEF SlotsInv, Filled, Empty
<1>10. StoreInv'
  <2>1. ASSUME NEW q \in 0..(headBatch' - 1) PROVE Filled(q % MaxBatches)
    <3>1. CASE q \in 0..(headBatch - 1)
      BY <1>1, <3>1 DEF StoreInv
    <3>2. CASE q \in headBatch..(headBatch + b - 1)
      BY <1>1, <1>2, <3>2 DEF StoreInv
    <3> QED
      BY <1>3, <1>4, <3>1, <3>2
  <2> QED
    BY <1>2, <2>1 DEF StoreInv, Filled
<1>11. SentInv'
  <2>1. bpc = "send" => tailBatch + Moved(seconds) <= headBatch'
    <3> SUFFICES ASSUME bpc = "send" PROVE tailBatch + Moved(seconds) <= headBatch'
      OBVIOUS
    <3>1. tailBatch + Moved(seconds) <= headBatch
      BY <1>1 DEF SentInv
    <3>2. Moved(seconds) \in Int
      BY Sizes DEF Moved, Fits
    <3> QED
      BY <1>3, <1>4, <3>1, <3>2
  <2> QED
    BY <1>1, <1>2, <1>5, <2>1 DEF SentInv, StreamBytesContiguous, Moved, Fits
<1> QED
  BY <1>6, <1>7, <1>8, <1>9, <1>10, <1>11 DEF Inv

LEMMA GetFramesStep ==
  ASSUME Inv, GetFrames
  PROVE  Inv'
<1>1. /\ CursorInv /\ RoundInv /\ SettingsInv /\ SlotsInv /\ StoreInv /\ SentInv
  BY DEF Inv
<1>2. /\ isBufferSizeEnoughForBroadcast(seconds)
      /\ frames' = GetFramesToBroadcast(seconds) /\ bpc' = "send"
      /\ UNCHANGED <<isFirstBroadcast, sent, first, later, buffer, head, tail, panicked,
                     dpc, isFirstRound, pending>>
  BY DEF GetFrames, bufferVars, dispatcherVars
<1>3. CursorInv' /\ headBatch' = headBatch /\ tailBatch' = tailBatch
      /\ batchesToFetch' = batchesToFetch /\ seconds' = seconds
  BY <1>1, <1>2 DEF CursorInv, headBatch, tailBatch, batchesToFetch, seconds
<1>4. RoundInv'
  BY <1>1, <1>2, <1>3 DEF RoundInv, Fits
<1>5. SettingsInv'
  BY <1>1, <1>2, <1>3 DEF SettingsInv, Fits, Moved
<1>6. SlotsInv'
  BY <1>1, <1>2 DEF SlotsInv, Filled, Empty
<1>7. StoreInv'
  BY <1>1, <1>2, <1>3 DEF StoreInv, Filled
<1>8. SentInv'
  <2>1. /\ frames' \in Seq(Int) /\ Len(frames') = BatchSize * Moved(seconds)
        /\ \A j \in 1..Len(frames') : frames'[j] = (tail + (j - 1)) % BufferSize
    BY <1>1, <1>2, CopiesFollowTail
  <2>2. /\ tailBatch + Moved(seconds) <= headBatch
        /\ U64(I64(seconds * FramesPerBatch)) = FramesPerBatch * Moved(seconds)
    BY <1>1, <1>2, EnoughMeansMoved
  <2> QED
    BY <1>1, <1>2, <1>3, <2>1, <2>2 DEF SentInv, StreamBytesContiguous, Moved, Fits
<1> QED
  BY <1>3, <1>4, <1>5, <1>6, <1>7, <1>8 DEF Inv

\* The tail moves by the batches that were sent, and nothing panics.
LEMMA RemoveEffect ==
  ASSUME Inv, SendAndRemove
  PROVE  /\ tailBatch' = tailBatch + Moved(seconds)
         /\ tail' = BatchSize * (tailBatch + Moved(seconds))
         /\ Moved(seconds) \in 0..MaxBatches
         /\ panicked' = FALSE
<1> DEFINE P == FramesPerBatch
           s == seconds
           m == Moved(s)
           n == headBatch - tailBatch
           remove == U64(I64(s * P))
<1>0. /\ P \in Nat \ {0} /\ FrameSize \in Nat \ {0} /\ BatchSize \in Nat \ {0}
      /\ MaxBatches \in Nat /\ MaxDispatched \in Nat /\ Word \in Nat \ {0}
  BY Sizes
<1>1. CursorInv /\ SentInv
  BY DEF Inv
<1>2. /\ bpc = "send"
      /\ IF remove > GetLengthInFrames
         THEN panicked' = TRUE /\ UNCHANGED tail
         ELSE tail' = U64(tail + U64(remove * FrameSize)) /\ UNCHANGED panicked
  BY DEF SendAndRemove, RemoveSentFramesFromBuffer
<1>3. /\ headBatch \in Nat /\ tailBatch \in Nat /\ tail = BatchSize * tailBatch
      /\ tailBatch <= headBatch /\ headBatch <= MaxDispatched + MaxBatches
      /\ panicked = FALSE
  BY <1>1 DEF CursorInv
<1>4. tailBatch + m <= headBatch /\ m \in 0..MaxBatches
  BY <1>0, <1>1, <1>2 DEF SentInv, Moved, Fits
<1>5. remove = P * m
  BY <1>1, <1>2 DEF SentInv
<1>6. GetLengthInFrames = P * n
  BY <1>1, Lengths
<1> HIDE DEF P, s, m, n, remove
<1>7. m \in Nat /\ m <= n /\ n \in Nat /\ Fits(m) /\ tailBatch + m <= MaxDispatched + MaxBatches
  BY <1>0, <1>3, <1>4 DEF n, Fits
<1>8. ~ (remove > GetLengthInFrames)
  <2>1. m \in Int /\ n \in Int /\ P * m \in Int /\ P * n \in Int
    BY <1>0, <1>7
  <2>2. P * m <= P * n
    BY <1>0, <1>7, <2>1, ScaleOrder
  <2> QED
    BY <1>5, <1>6, <2>1, <2>2
<1>9. tail' = U64(BatchSize * tailBatch + U64((P * m) * FrameSize)) /\ panicked' = FALSE
  BY <1>2, <1>3, <1>5, <1>8
<1>10. U64((P * m) * FrameSize) = BatchSize * m
  BY <1>7, CastFits DEF P
<1>11. tail' = BatchSize * (tailBatch + m)
  BY <1>3, <1>7, <1>9, <1>10, MoveCursor
<1>12. tailBatch + m \in Nat
  BY <1>3, <1>7
<1>13. (BatchSize * (tailBatch + m)) \div BatchSize = tailBatch + m
  BY <1>12, WholeBatches
<1> QED
  BY <1>4, <1>9, <1>11, <1>13 DEF tailBatch, m, s

LEMMA SendAndRemoveStep ==
  ASSUME Inv, SendAndRemove
  PROVE  Inv'
<1> DEFINE m == Moved(seconds)
<1>1. /\ CursorInv /\ RoundInv /\ SettingsInv /\ SlotsInv /\ StoreInv /\ SentInv
  BY DEF Inv
<1>2. /\ bpc = "send" /\ sent' = sent \o frames /\ bpc' = "frames"
      /\ isFirstBroadcast' = FALSE /\ frames' = << >>
      /\ UNCHANGED <<first, later, buffer, head, dpc, isFirstRound, pending>>
  BY DEF SendAndRemove, RemoveSentFramesFromBuffer, dispatcherVars
<1>3. /\ tailBatch' = tailBatch + m /\ tail' = BatchSize * (tailBatch + m)
      /\ m \in 0..MaxBatches /\ panicked' = FALSE /\ MaxBatches \in Nat
      /\ BatchSize \in Nat /\ MaxDispatched \in Nat
  BY RemoveEffect, Sizes
<1>4. headBatch' = headBatch /\ batchesToFetch' = batchesToFetch
  BY <1>2 DEF headBatch, batchesToFetch
<1>5. /\ headBatch \in Nat /\ tailBatch \in Nat /\ head = BatchSize * headBatch
      /\ tail = BatchSize * tailBatch /\ headBatch <= tailBatch + MaxBatches
      /\ headBatch <= MaxDispatched + MaxBatches
  BY <1>1 DEF CursorInv
<1>6. /\ tailBatch + m <= headBatch /\ frames \in Seq(Int) /\ Len(frames) = BatchSize * m
      /\ \A j \in 1..Len(frames) : frames[j] = (tail + (j - 1)) % BufferSize
      /\ sent \in Seq(Int) /\ Len(sent) = tail
  BY <1>1, <1>2 DEF SentInv
<1> HIDE DEF m
<1>7. CursorInv'
  <2>1. /\ tailBatch' \in Nat /\ tailBatch' <= headBatch'
        /\ headBatch' <= tailBatch' + MaxBatches
    BY <1>3, <1>4, <1>5, <1>6
  <2>2. tail' = BatchSize * tailBatch'
    BY <1>3
  <2> QED
    BY <1>2, <1>3, <1>4, <1>5, <2>1, <2>2 DEF CursorInv
<1>8. RoundInv'
  <2>1. dpc = "join" => headBatch + batchesToFetch <= tailBatch' + MaxBatches
    <3> SUFFICES ASSUME dpc = "join"
                 PROVE  headBatch + batchesToFetch <= tailBatch' + MaxBatches
      OBVIOUS
    <3>1. /\ Fits(batchesToFetch) /\ headBatch + batchesToFetch <= tailBatch + MaxBatches
      BY <1>1 DEF RoundInv
    <3>2. batchesToFetch \in Int
      BY <1>3, <3>1 DEF Fits
    <3> QED
      BY <1>3, <1>5, <3>1, <3>2
  <2> QED
    BY <1>1, <1>2, <1>4, <2>1 DEF RoundInv, Fits
<1>9. SettingsInv'
  <2>1. /\ first \in Settings /\ later \in Settings
        /\ isFirstRound => headBatch = 0
        /\ ~ isFirstRound => Fits(first)
        /\ isFirstBroadcast => tailBatch = 0
        /\ later \notin 1..MaxBatches => headBatch = IF isFirstRound THEN 0 ELSE first
        /\ ~ Fits(later) => tailBatch = IF isFirstBroadcast THEN 0 ELSE Moved(first)
    BY <1>1 DEF SettingsInv
  <2>2. ~ Fits(later) => tailBatch' = Moved(first)
    <3> SUFFICES ASSUME ~ Fits(later) PROVE tailBatch' = Moved(first)
      OBVIOUS
    <3>1. CASE isFirstBroadcast
      <4>1. tailBatch = 0 /\ m = Moved(first)
        BY <2>1, <3>1 DEF m, seconds
      <4> QED
        BY <1>3, <4>1
    <3>2. CASE ~ isFirstBroadcast
      <4>1. tailBatch = Moved(first) /\ m = 0
        BY <2>1, <3>2 DEF m, seconds, Moved
      <4> QED
        BY <1>3, <1>5, <4>1
    <3> QED
      BY <3>1, <3>2
  <2> QED
    BY <1>2, <1>4, <2>1, <2>2 DEF SettingsInv, Fits, Moved
<1>10. SlotsInv'
  BY <1>1, <1>2 DEF SlotsInv, Filled, Empty
<1>11. StoreInv'
  BY <1>1, <1>2, <1>4 DEF StoreInv, Filled
<1>12. SentInv'
  <2>1. tail \in Nat /\ BatchSize * m \in Nat /\ tail' = tail + BatchSize * m
    BY <1>3, <1>5
  <2>2. /\ sent' \in Seq(Int) /\ Len(sent') = Len(sent) + Len(frames)
        /\ \A j \in 1..Len(sent') :
             sent'[j] = IF j <= Len(sent) THEN sent[j] ELSE frames[j - Len(sent)]
    <3>1. sent \in Seq(Int) /\ frames \in Seq(Int) /\ sent' = sent \o frames
      BY <1>2, <1>6
    <3>2. sent' \in Seq(Int)
      BY <3>1
    <3>3. Len(sent') = Len(sent) + Len(frames)
      BY <3>1
    <3>4. ASSUME NEW j \in 1..Len(sent')
          PROVE  sent'[j] = IF j <= Len(sent) THEN sent[j] ELSE frames[j - Len(sent)]
      BY <3>1, <3>3
    <3> QED
      BY <3>2, <3>3, <3>4
  <2>3. Len(sent') = tail'
    BY <1>6, <2>1, <2>2
  <2>4. ASSUME NEW j \in 1..Len(sent') PROVE sent'[j] = (j - 1) % BufferSize
    <3>1. j \in Int /\ 1 <= j /\ j <= tail + BatchSize * m
      BY <2>1, <2>3
    <3>2. CASE j <= tail
      <4>1. j \in 1..Len(sent)
        BY <1>6, <2>1, <3>1, <3>2
      <4>2. sent[j] = (j - 1) % BufferSize
        BY <1>1, <4>1 DEF SentInv, StreamBytesContiguous
      <4> QED
        BY <1>6, <2>2, <3>2, <4>2
    <3>3. CASE ~ (j <= tail)
      <4>1. j - tail \in 1..Len(frames) /\ tail + ((j - tail) - 1) = j - 1
        BY <1>6, <2>1, <3>1, <3>3
      <4>2. frames[j - tail] = (tail + ((j - tail) - 1)) % BufferSize
        BY <1>6, <4>1
      <4> QED
        BY <1>6, <2>2, <3>3, <4>1, <4>2
    <3> QED
      BY <3>2, <3>3
  <2> QED
    BY <1>2, <2>2, <2>3, <2>4 DEF SentInv, StreamBytesContiguous
<1> QED
  BY <1>7, <1>8, <1>9, <1>10, <1>11, <1>12 DEF Inv

LEMMA InvInit == Init => Inv
<1> SUFFICES ASSUME Init PROVE Inv
  OBVIOUS
<1>1. /\ buffer = [a \in Addresses |-> Blank] /\ head = 0 /\ tail = 0
      /\ panicked = FALSE
      /\ dpc = "room" /\ isFirstRound = TRUE /\ pending = {}
      /\ bpc = "frames" /\ isFirstBroadcast = TRUE /\ frames = << >> /\ sent = << >>
  BY DEF Init
<1>2. first \in Settings /\ later \in Settings
  <2>1. DefaultConfig[1] \in Settings /\ DefaultConfig[2] \in Settings
    BY ByteBufferAssumption
  <2>2. \A x \in Optional, d \in Settings : (IF x = << >> THEN d ELSE x[1]) \in Settings
    BY DEF Optional
  <2> QED
    BY <2>1, <2>2 DEF Init, flagInt, envInt
<1>3. headBatch = 0 /\ tailBatch = 0 /\ BatchSize * 0 = 0
  <2>1. 0 \in Nat /\ BatchSize * 0 = 0
    BY Sizes
  <2>2. (BatchSize * 0) \div BatchSize = 0
    BY <2>1, WholeBatches
  <2> QED
    BY <1>1, <2>1, <2>2 DEF headBatch, tailBatch
<1>4. CursorInv
  BY <1>1, <1>3, Sizes DEF CursorInv
<1>5. RoundInv
  BY <1>1 DEF RoundInv
<1>6. SettingsInv
  BY <1>1, <1>2, <1>3 DEF SettingsInv
<1>7. SlotsInv
  <2>1. \A s \in RingSlots : Empty(s)
    BY <1>1, SlotAddress DEF Empty
  <2> QED
    BY <1>1, <2>1 DEF SlotsInv
<1>8. StoreInv
  BY <1>1, <1>3 DEF StoreInv
<1>9. SentInv
  BY <1>1 DEF SentInv, StreamBytesContiguous
<1> QED
  BY <1>4, <1>5, <1>6, <1>7, <1>8, <1>9 DEF Inv

LEMMA InvStep == Inv /\ [Next]_vars => Inv'
<1> SUFFICES ASSUME Inv, [Next]_vars PROVE Inv'
  OBVIOUS
<1>1. CASE UNCHANGED vars
  BY <1>1 DEF Inv, CursorInv, RoundInv, SettingsInv, SlotsInv, StoreInv, SentInv,
              StreamBytesContiguous, headBatch, tailBatch, batchesToFetch, seconds,
              Fits, Moved, Filled, Empty,
              vars, bufferVars, dispatcherVars, broadcasterVars
<1> QED
  BY <1>1, StartRoundStep, StoreBatchStep, EndRoundStep, GetFramesStep, SendAndRemoveStep
     DEF Next, DispatcherNext, BroadcasterNext

----------------------------------------------------------------------------
(* The theorems.                                                           *)

\* For every frame, batch, ring and word size and every pair of settings, also
\* negative ones and ones whose products wrap around: the bytes broadcast are the
\* animation from its start, without a gap, across the end of the ring.
THEOREM BytesAlwaysContiguous == Spec => []StreamBytesContiguous
<1>1. Inv => StreamBytesContiguous
  BY DEF Inv, SentInv
<1> QED
  BY <1>1, InvInit, InvStep, PTL DEF Spec

\* For every pair of settings that is not valid, whatever its products wrap around
\* to: no more is ever sent than one first round, and nothing if that does not fit
\* the ring.
THEOREM InvalidSettingsStall == Spec => []StallsWhenInvalid
<1>1. Inv => StallsWhenInvalid
  <2> SUFFICES ASSUME Inv, ~ Valid PROVE Len(sent) <= BatchSize * Moved(first)
    BY DEF StallsWhenInvalid, Moved, Fits
  <2>1. /\ Len(sent) = BatchSize * tailBatch /\ BatchSize \in Nat \ {0}
        /\ tailBatch \in Nat /\ headBatch \in Nat /\ tailBatch <= headBatch
    BY Sizes DEF Inv, SentInv, CursorInv
  <2>2. Moved(first) \in Nat /\ headBatch <= Moved(first)
    <3>1. CASE ~ Fits(first)
      <4>1. isFirstRound /\ headBatch = 0
        BY <3>1 DEF Inv, SettingsInv
      <4> QED
        BY <3>1, <4>1 DEF Moved
    <3>2. CASE Fits(first)
      <4>1. later \notin 1..MaxBatches
        BY <3>2 DEF Valid, Fits
      <4>2. headBatch = IF isFirstRound THEN 0 ELSE first
        BY <4>1 DEF Inv, SettingsInv
      <4>3. first \in Nat
        BY <3>2, Sizes DEF Fits
      <4> QED
        BY <3>2, <4>2, <4>3 DEF Moved
    <3> QED
      BY <3>1, <3>2
  <2>3. tailBatch \in Int /\ Moved(first) \in Int /\ tailBatch <= Moved(first)
    BY <2>1, <2>2
  <2>4. BatchSize * tailBatch <= BatchSize * Moved(first)
    BY <2>1, <2>3, ScaleOrder
  <2> QED
    BY <2>1, <2>4
<1> QED
  BY <1>1, InvInit, InvStep, PTL DEF Spec

\* For every size of the ring, the percentage telemetry reports is within 0..100
\* and tells a full ring from one that lacks a frame, despite rounding down.
THEOREM FullnessIsReported == Spec => []FullnessReported
<1>1. Inv => FullnessReported
  <2> SUFFICES ASSUME Inv PROVE FullnessReported
    OBVIOUS
  <2> DEFINE len == GetLengthInFrames
             percent == (len * 100) \div MaxFrames
             rest == (len * 100) % MaxFrames
  <2>1. len \in Nat /\ len <= MaxFrames /\ MaxFrames \in Nat \ {0}
    <3> DEFINE n == headBatch - tailBatch
               P == FramesPerBatch
    <3>1. len = P * n /\ n \in 0..MaxBatches
      BY Lengths DEF Inv
    <3>2. P \in Nat \ {0} /\ MaxBatches \in Nat /\ MaxFrames = P * MaxBatches
          /\ MaxFrames \in Nat \ {0}
      BY Sizes
    <3> HIDE DEF len, n, P
    <3>3. n \in Int /\ MaxBatches \in Int /\ n <= MaxBatches /\ n >= 0
      BY <3>1, <3>2
    <3>4. P * n <= P * MaxBatches
      BY <3>2, <3>3, ScaleOrder
    <3>5. P * n \in Nat
      BY <3>2, <3>3
    <3> QED
      BY <3>1, <3>2, <3>4, <3>5
  <2> HIDE DEF len
  <2>2. len * 100 \in Int
    BY <2>1
  <2>3. percent \in Int /\ rest \in 0..(MaxFrames - 1) /\ len * 100 = MaxFrames * percent + rest
    BY <2>1, <2>2, Division
  <2> HIDE DEF percent, rest
  <2>4. percent >= 0
    <3> SUFFICES ASSUME percent <= -1 PROVE FALSE
      BY <2>3
    <3>1. MaxFrames * percent <= MaxFrames * (-1)
      BY <2>1, <2>3, ScaleOrder
    <3>2. MaxFrames * percent \in Int
      BY <2>1, <2>3
    <3> QED
      BY <2>1, <2>3, <3>1, <3>2
  <2>5. percent >= 100 <=> len = MaxFrames
    <3>1. MaxFrames * percent \in Int /\ MaxFrames * 100 \in Int /\ 100 \in Int
      BY <2>1, <2>3
    <3>2. 100 <= percent <=> MaxFrames * 100 <= MaxFrames * percent
      BY <2>1, <2>3, <3>1, ScaleOrder
    <3>3. ASSUME len = MaxFrames PROVE percent >= 100
      <4>1. MaxFrames * percent > MaxFrames * 99
        BY <2>1, <2>3, <3>1, <3>3
      <4>2. 99 \in Int
        OBVIOUS
      <4>3. 99 < percent
        BY <2>1, <2>3, <4>1, <4>2, ScaleOrder
      <4> QED
        BY <2>3, <4>3
    <3>4. ASSUME percent >= 100 PROVE len = MaxFrames
      <4>1. MaxFrames * 100 <= MaxFrames * percent
        BY <2>3, <3>2, <3>4
      <4> QED
        BY <2>1, <2>3, <3>1, <4>1
    <3> QED
      BY <3>3, <3>4
  <2>6. len = 0 => percent = 0
    <3> SUFFICES ASSUME len = 0, percent >= 1 PROVE FALSE
      BY <2>3, <2>4
    <3>1. MaxFrames * 1 <= MaxFrames * percent
      BY <2>1, <2>3, ScaleOrder
    <3>2. MaxFrames * percent \in Int
      BY <2>1, <2>3
    <3> QED
      BY <2>1, <2>3, <3>1, <3>2
  <2>7. FullnessPercent = IF percent < 100 THEN percent ELSE 100
    BY DEF FullnessPercent, percent, len
  <2> QED
    BY <2>3, <2>4, <2>5, <2>6, <2>7 DEF FullnessReported, len
<1> QED
  BY <1>1, InvInit, InvStep, PTL DEF Spec

----------------------------------------------------------------------------
(* The byte buffer implements the buffer of batches.                       *)

\* What a slot holds, of any contents f of the buffer.
LEMMA Contents ==
  ASSUME NEW f, NEW s \in RingSlots
  PROVE  LET bytes == [k \in 1..BatchSize |-> f[s * BatchSize + k - 1]]
             holds == IF \A k \in 1..BatchSize : bytes[k] = Blank THEN Blank
                      ELSE IF \E b \in 0..(MaxBatches - 1) :
                                \A k \in 1..BatchSize : bytes[k] = b * BatchSize + k - 1
                           THEN bytes[1] \div BatchSize ELSE -2
         IN  /\ (\A k \in 0..(BatchSize - 1) : f[BatchSize * s + k] = BatchSize * s + k)
                  => holds = s
             /\ (\A k \in 0..(BatchSize - 1) : f[BatchSize * s + k] = Blank)
                  => holds = Blank
<1> DEFINE B == BatchSize
           bytes == [k \in 1..B |-> f[s * B + k - 1]]
           Own(b) == \A k \in 1..B : bytes[k] = b * B + k - 1
<1>0. B \in Nat \ {0} /\ s \in Nat /\ s \in 0..(MaxBatches - 1)
  BY Sizes DEF RingSlots
<1>1. B * s \in Nat /\ s * B = B * s /\ (B * s) \div B = s
  BY <1>0, WholeBatches
<1> HIDE DEF B
<1>2. \A k \in 1..B : /\ k - 1 \in 0..(B - 1) /\ bytes[k] = f[B * s + (k - 1)]
                      /\ s * B + k - 1 = B * s + (k - 1)
  <2>1. \A k \in 1..B : k - 1 \in 0..(B - 1) /\ s * B + k - 1 = B * s + (k - 1)
    BY <1>0, <1>1
  <2> QED
    BY <2>1
<1>3. 1 \in 1..B
  BY <1>0
<1> HIDE DEF bytes
<1>4. ASSUME \A k \in 0..(B - 1) : f[B * s + k] = B * s + k
      PROVE  /\ Own(s) /\ bytes[1] = B * s
             /\ ~ \A k \in 1..B : bytes[k] = Blank
  <2>1. Own(s)
    BY <1>2, <1>4
  <2>2. bytes[1] = B * s
    <3>1. bytes[1] = f[B * s + (1 - 1)] /\ 1 - 1 \in 0..(B - 1)
      BY <1>2, <1>3
    <3>2. f[B * s + (1 - 1)] = B * s + (1 - 1)
      BY <1>4, <3>1
    <3>3. B * s + (1 - 1) = B * s
      BY <1>1
    <3> QED
      BY <3>1, <3>2, <3>3
  <2>3. bytes[1] # Blank
    BY <1>1, <2>2 DEF Blank
  <2> QED
    BY <1>3, <2>1, <2>2, <2>3
<1>5. ASSUME \A k \in 0..(B - 1) : f[B * s + k] = Blank
      PROVE  \A k \in 1..B : bytes[k] = Blank
  BY <1>2, <1>5
<1> QED
  BY <1>0, <1>1, <1>4, <1>5 DEF B, bytes

LEMMA SlotContents ==
  ASSUME NEW s \in RingSlots
  PROVE  /\ Filled(s) => SlotHolds(s) = s
         /\ Empty(s) => SlotHolds(s) = Blank
         /\ Filled(s)' => SlotHolds(s)' = s
         /\ Empty(s)' => SlotHolds(s)' = Blank
<1>1. (Filled(s) => SlotHolds(s) = s) /\ (Empty(s) => SlotHolds(s) = Blank)
  BY Contents DEF Filled, Empty, SlotHolds
<1>2. (Filled(s)' => SlotHolds(s)' = s) /\ (Empty(s)' => SlotHolds(s)' = Blank)
  BY Contents DEF Filled, Empty, SlotHolds
<1> QED
  BY <1>1, <1>2

\* The slots as FrameBuffer sees them.
slots == [s \in 0..(MaxBatches - 1) |-> SlotHolds(s)]

LEMMA StoreRefines ==
  ASSUME Inv, NEW startFrame \in pending, StoreBatch(startFrame)
  PROVE  \E s \in Batches!Slots : Batches!AddFramesToBuffer(s, s)
<1>1. SlotsInv /\ StoreInv
  BY DEF Inv
<1>2. PICK s \in RingSlots : startFrame = FramesPerBatch * s
  BY <1>1 DEF StoreInv
<1>3. /\ Filled(s)'
      /\ \A r \in RingSlots : r # s => (Filled(r)' <=> Filled(r)) /\ (Empty(r)' <=> Empty(r))
  BY <1>1, <1>2, StoreFills
<1>4. \A r \in RingSlots : SlotHolds(r)' = IF r = s THEN s ELSE SlotHolds(r)
  <2> SUFFICES ASSUME NEW r \in RingSlots
               PROVE  SlotHolds(r)' = IF r = s THEN s ELSE SlotHolds(r)
    OBVIOUS
  <2>1. Filled(r) \/ Empty(r)
    BY <1>1 DEF SlotsInv
  <2> QED
    BY <1>3, <2>1, SlotContents
<1>5. slots' = [slots EXCEPT ![s] = s]
  BY <1>4 DEF slots, RingSlots
<1>6. head' = head /\ tail' = tail
  BY DEF StoreBatch
<1>7. Batches!AddFramesToBuffer(s, s)
  BY <1>5, <1>6 DEF Batches!AddFramesToBuffer, slots
<1> QED
  BY <1>2, <1>7 DEF Batches!Slots, RingSlots

LEMMA EndRoundRefines ==
  ASSUME Inv, EndRound
  PROVE  \E n \in 0..MaxBatches : Batches!AdvanceHead(n)
<1>1. headBatch' = headBatch + batchesToFetch /\ batchesToFetch \in 0..MaxBatches
  BY EndRoundEffect
<1>2. UNCHANGED <<buffer, tail, panicked>>
  BY DEF EndRound, AdvanceHead
<1>3. slots' = slots
  BY <1>2 DEF slots, SlotHolds
<1>4. Batches!AdvanceHead(batchesToFetch)
  BY <1>1, <1>2, <1>3 DEF Batches!AdvanceHead, slots, headBatch
<1> QED
  BY <1>1, <1>4

LEMMA RemoveRefines ==
  ASSUME Inv, SendAndRemove
  PROVE  \E n \in 0..MaxBatches : Batches!RemoveSentFramesFromBuffer(n)
<1> DEFINE m == Moved(seconds)
<1>1. /\ tailBatch' = tailBatch + m /\ m \in 0..MaxBatches /\ panicked' = FALSE
  BY RemoveEffect
<1>2. UNCHANGED <<buffer, head>>
  BY DEF SendAndRemove, RemoveSentFramesFromBuffer
<1>3. slots' = slots
  BY <1>2 DEF slots, SlotHolds
<1>4. panicked = FALSE /\ tailBatch + m <= headBatch /\ tailBatch \in Nat /\ headBatch \in Nat
  BY DEF Inv, CursorInv, SentInv, SendAndRemove
<1> HIDE DEF m
<1>5. ~ (m > headBatch - tailBatch)
  BY <1>1, <1>4, Sizes
<1>6. Batches!RemoveSentFramesFromBuffer(m)
  BY <1>1, <1>2, <1>3, <1>4, <1>5
     DEF Batches!RemoveSentFramesFromBuffer, Batches!GetLengthInBatches, slots,
         headBatch, tailBatch
<1> QED
  BY <1>1, <1>6

LEMMA GetFramesRefines ==
  ASSUME Inv, GetFrames, frames' # << >>
  PROVE  LET batches == Batches!GetFramesToBroadcast(seconds)
         IN  frames' = [k \in 1..(Len(batches) * BatchSize) |->
               batches[(k - 1) \div BatchSize + 1] * BatchSize
                 + ((k - 1) % BatchSize)]
<1> DEFINE B == BatchSize
           M == MaxBatches
           n == seconds
           batches == [k \in 1..n |-> slots[(tailBatch + k - 1) % M]]
           byte(k) == batches[(k - 1) \div B + 1] * B + ((k - 1) % B)
<1>0. B \in Nat \ {0} /\ M \in Nat \ {0} /\ BufferSize = B * M
  BY Sizes
<1>1. CursorInv /\ SettingsInv /\ StoreInv
  BY DEF Inv
<1>2. /\ isBufferSizeEnoughForBroadcast(n) /\ frames' = GetFramesToBroadcast(n)
  BY DEF GetFrames
<1>3. /\ frames' \in Seq(Int) /\ Len(frames') = B * Moved(n)
      /\ \A j \in 1..Len(frames') : frames'[j] = (tail + (j - 1)) % BufferSize
  BY <1>1, <1>2, CopiesFollowTail
<1>4. tailBatch + Moved(n) <= headBatch /\ Moved(n) \in 0..M
  BY <1>1, <1>2, EnoughMeansMoved
<1>5. Moved(n) # 0
  <2> SUFFICES ASSUME Moved(n) = 0 PROVE FALSE
    OBVIOUS
  <2>1. B * Moved(n) = 0
    BY <1>0
  <2>2. Len(frames') = 0
    BY <1>3, <2>1
  <2> QED
    BY <1>3, <2>2
<1>6. Moved(n) = n
  BY <1>5 DEF Moved
<1>7. /\ n \in Nat /\ n <= M /\ tailBatch \in Nat /\ headBatch \in Nat
      /\ tailBatch + n <= headBatch /\ tail = B * tailBatch
  <2>1. tailBatch \in Nat /\ headBatch \in Nat /\ tail = B * tailBatch
    BY <1>1 DEF CursorInv
  <2>2. n \in 0..M /\ tailBatch + n <= headBatch
    BY <1>4, <1>6
  <2> QED
    BY <1>0, <2>1, <2>2
<1>8. Batches!GetFramesToBroadcast(n) = batches
  <2>1. headBatch - tailBatch >= n
    BY <1>7
  <2> QED
    BY <2>1 DEF Batches!GetFramesToBroadcast, Batches!isBufferSizeEnoughForBroadcast,
                Batches!GetLengthInBatches, Batches!Slot, slots, headBatch, tailBatch
<1> HIDE DEF B, M, n
<1>9. Len(batches) = n
  BY <1>7
<1>10. ASSUME NEW j \in 0..(n - 1) PROVE batches[j + 1] = (tailBatch + j) % M
  <2>1. j + 1 \in 1..n /\ tailBatch + (j + 1) - 1 = tailBatch + j /\ tailBatch + j \in Int
        /\ tailBatch + j \in 0..(headBatch - 1)
    BY <1>7
  <2>2. (tailBatch + j) % M \in RingSlots
    BY <1>0, <2>1, Division DEF M, RingSlots
  <2>3. Filled((tailBatch + j) % M)
    BY <1>1, <2>1 DEF StoreInv, M
  <2>4. slots[(tailBatch + j) % M] = (tailBatch + j) % M
    BY <2>2, <2>3, SlotContents DEF slots, RingSlots
  <2>5. batches[j + 1] = slots[(tailBatch + (j + 1) - 1) % M]
    BY <2>1
  <2> QED
    BY <2>1, <2>4, <2>5
<1> HIDE DEF batches
<1>11. ASSUME NEW k \in 1..(n * B) PROVE frames'[k] = byte(k)
  <2> DEFINE j == (k - 1) \div B
             i == (k - 1) % B
  <2>1. /\ n * B = B * n /\ B * n \in Nat /\ k \in Int /\ k - 1 \in Int
        /\ 0 <= k - 1 /\ k - 1 < B * n
    BY <1>0, <1>7
  <2>2. j \in Int /\ i \in 0..(B - 1) /\ k - 1 = B * j + i
    BY <1>0, <2>1, Division
  <2> HIDE DEF j, i
  <2>3. B * j \in Int
    BY <1>0, <2>2
  <2>4. j >= 0
    <3> SUFFICES ASSUME j <= -1 PROVE FALSE
      BY <2>2
    <3>1. B * j <= B * (-1)
      BY <1>0, <2>2, ScaleOrder
    <3> QED
      BY <1>0, <2>1, <2>2, <2>3, <3>1
  <2>5. j < n
    <3> SUFFICES ASSUME n <= j PROVE FALSE
      BY <1>7, <2>2
    <3>1. n \in Int
      BY <1>7
    <3>2. B * n <= B * j
      BY <1>0, <2>2, <3>1, ScaleOrder
    <3> QED
      BY <1>0, <2>1, <2>2, <2>3, <3>2
  <2>6. j \in 0..(n - 1)
    BY <1>7, <2>2, <2>4, <2>5
  <2>7. batches[j + 1] = (tailBatch + j) % M
    BY <1>10, <2>6
  <2>8. tail + (k - 1) = B * (tailBatch + j) + i /\ tailBatch + j \in Int
    <3>1. B * (tailBatch + j) = B * tailBatch + B * j /\ B * tailBatch \in Int
      BY <1>0, <1>7, <2>2
    <3> QED
      BY <1>0, <1>7, <2>2, <2>3, <3>1
  <2>9. (B * (tailBatch + j) + i) % (B * M) = B * ((tailBatch + j) % M) + i
    BY <1>0, <2>2, <2>8, RemainderOfBlock
  <2>10. (tailBatch + j) % M \in Int
    BY <1>0, <2>8, Division
  <2>11. B * ((tailBatch + j) % M) = ((tailBatch + j) % M) * B
    BY <1>0, <2>10
  <2>12. frames'[k] = (tail + (k - 1)) % (B * M)
    <3>1. k \in 1..Len(frames')
      <4>1. Len(frames') = n * B
        BY <1>3, <1>6, <2>1
      <4> QED
        BY <4>1
    <3> QED
      BY <1>0, <1>3, <3>1
  <2>13. frames'[k] = batches[j + 1] * B + i
    BY <2>7, <2>8, <2>9, <2>11, <2>12
  <2> QED
    BY <2>13 DEF j, i
<1>12. frames' = [k \in 1..(n * B) |-> byte(k)]
  <2>1. Len(frames') = n * B
    BY <1>0, <1>3, <1>6, <1>7
  <2>2. frames' = [k \in 1..Len(frames') |-> frames'[k]]
    BY <1>3
  <2> QED
    BY <1>11, <2>1, <2>2
<1> QED
  BY <1>8, <1>9, <1>12 DEF B, n

\* Whatever the sizes and settings, every step of the byte buffer is a step of
\* FrameBuffer, the buffer of batches that the orchestrator's model is built on:
\* the cursors never leave the batch boundaries, no slot is ever half written, and
\* the two copies of a broadcast are the batches FrameBuffer yields.
THEOREM BytesImplementBatches == Spec => ImplementsFrameBuffer
<1>1. Init => Batches!NewFrameBuffer
  <2> SUFFICES ASSUME Init PROVE Batches!NewFrameBuffer
    OBVIOUS
  <2>1. headBatch = 0 /\ tailBatch = 0
    <3>1. 0 \in Nat /\ BatchSize * 0 = 0
      BY Sizes
    <3>2. (BatchSize * 0) \div BatchSize = 0
      BY <3>1, WholeBatches
    <3> QED
      BY <3>1, <3>2 DEF Init, headBatch, tailBatch
  <2>2. \A s \in RingSlots : SlotHolds(s) = Blank
    <3> SUFFICES ASSUME NEW s \in RingSlots PROVE SlotHolds(s) = Blank
      OBVIOUS
    <3>1. Empty(s)
      BY SlotAddress DEF Init, Empty
    <3> QED
      BY <3>1, SlotContents
  <2>3. slots = [s \in 0..(MaxBatches - 1) |-> -1]
    BY <2>2 DEF slots, RingSlots, Blank
  <2> QED
    BY <2>1, <2>3 DEF Batches!NewFrameBuffer, Batches!Slots, Batches!Blank, slots,
                      headBatch, tailBatch
<1>2. Inv /\ [Next]_vars => [BatchStep]_<<bufferVars, frames>>
  <2> SUFFICES ASSUME Inv, [Next]_vars PROVE [BatchStep]_<<bufferVars, frames>>
    OBVIOUS
  <2>0. head % BatchSize = 0 /\ tail % BatchSize = 0
    <3>1. /\ headBatch \in Nat /\ head = BatchSize * headBatch
          /\ tailBatch \in Nat /\ tail = BatchSize * tailBatch
      BY DEF Inv, CursorInv
    <3> QED
      BY <3>1, WholeBatches
  <2>1. CASE StartRound
    BY <2>1 DEF StartRound, broadcasterVars
  <2>2. ASSUME NEW startFrame \in pending, StoreBatch(startFrame) PROVE BatchStep
    BY <2>0, <2>2, StoreRefines DEF BatchStep
  <2>3. CASE EndRound
    BY <2>0, <2>3, EndRoundRefines DEF BatchStep
  <2>4. CASE GetFrames
    <3>1. UNCHANGED bufferVars
      BY <2>4 DEF GetFrames
    <3> QED
      BY <2>0, <2>4, <3>1, GetFramesRefines DEF BatchStep
  <2>5. CASE SendAndRemove
    BY <2>0, <2>5, RemoveRefines DEF BatchStep
  <2>6. CASE UNCHANGED vars
    BY <2>6 DEF vars, broadcasterVars
  <2> QED
    BY <2>1, <2>2, <2>3, <2>4, <2>5, <2>6 DEF Next, DispatcherNext, BroadcasterNext
<1> QED
  BY <1>1, <1>2, InvInit, InvStep, PTL DEF Spec, ImplementsFrameBuffer
=============================================================================
