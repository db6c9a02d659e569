--------------------------- MODULE PlaybackProofs ---------------------------
(***************************************************************************)
(* Proofs about playback in the page, for every size of ring and broadcast *)
(* and every pattern of callbacks and messages: what the ring holds, the   *)
(* pace of the animation, and that the ring is large enough.               *)
(***************************************************************************)
EXTENDS Playback, Remainders

----------------------------------------------------------------------------
(* The inductive invariant.                                                *)

TypeInv ==
  /\ {now, nextBroadcast, sent, pushed} \subseteq Nat
  /\ {lastFrameTime, frameDebt, drawn, owed, since} \subseteq Nat
  /\ head \in Slots /\ tail \in Slots /\ count \in 0..BufferSize
  /\ lastFrameTime <= now
  /\ steady \in BOOLEAN

\* The time since the last capped callback is what was asked for and a remainder.
PaceInv ==
  /\ frameDebt < FrameTicks
  /\ since <= lastFrameTime
  /\ lastFrameTime - since = FrameTicks * owed + frameDebt

\* Time for which no frame was asked for yet, and frames the server has sent that
\* were not drawn.
Overdue == frameDebt + (now - lastFrameTime)
Backlog == count + (sent - pushed)

\* The time for which one broadcast plays, and how much of it is left before the
\* server may broadcast again; a longer wait only lets the page run dry.
PlayingTime == FrameTicks * LaterFrames
UntilBroadcast ==
  IF now >= nextBroadcast THEN 0
  ELSE IF nextBroadcast - now > PlayingTime THEN PlayingTime
  ELSE nextBroadcast - now

\* At most one broadcast is on its way, and it was sent at this very time.
DeliveryInv ==
  \/ sent = pushed
  \/ /\ sent = pushed + BroadcastFrames(pushed)
     /\ nextBroadcast = now + BroadcastInterval

\* As long as playback is steady, the backlog is what the prefetch leaves plus
\* the frames that fill the time until the next broadcast and the overdue time.
BacklogInv ==
  /\ Overdue < FrameTicks * (MaxCatchUpFrames + 1)
  /\ FrameTicks * Backlog - Overdue
       <= FrameTicks * (FirstFrames - LaterFrames) + UntilBroadcast

\* What RoomAssumption and PacingAssumption assume.  It is a hypothesis of the steady
\* part alone, so that the ring and the pace are shown right for settings that break
\* it as well.
Room ==
  /\ LaterFrames <= FirstFrames
  /\ FirstFrames + MaxCatchUpFrames <= BufferSize
  /\ PlayingTime <= BroadcastInterval

SteadyInv ==
  steady /\ Room => DeliveryInv /\ BacklogInv /\ drawn = pushed - count

Inv == TypeInv /\ RingHoldsNewest /\ PaceInv /\ SteadyInv

----------------------------------------------------------------------------
(* The ring.                                                               *)

\* The constants are numbers.
LEMMA Constants ==
  /\ BufferSize \in Nat \ {0} /\ FrameTicks \in Nat \ {0}
  /\ MaxCatchUpFrames \in Nat \ {0} /\ LaterFrames \in Nat \ {0}
  /\ FirstFrames \in Nat /\ BroadcastInterval \in Nat
  /\ PlayingTime \in Nat /\ PlayingTime > 0
  /\ PlayingTime = LaterFrames * FrameTicks
  /\ Slots = 0..(BufferSize - 1)
<1>1. /\ BufferSize \in Nat \ {0} /\ FrameTicks \in Nat \ {0}
      /\ MaxCatchUpFrames \in Nat \ {0} /\ LaterFrames \in Nat \ {0}
      /\ FirstFrames \in Nat /\ BroadcastInterval \in Nat
  BY PlaybackAssumption
<1>2. /\ PlayingTime \in Nat /\ PlayingTime > 0
      /\ PlayingTime = LaterFrames * FrameTicks
  BY <1>1 DEF PlayingTime
<1> QED
  BY <1>1, <1>2 DEF Slots

\* A member that is at least every other is the maximum.
LEMMA MaxIs ==
  ASSUME NEW S \in SUBSET Int, NEW m \in S, \A y \in S : m >= y
  PROVE  Max(S) = m
<1>1. \A x \in S : (\A y \in S : x >= y) => x = m
  OBVIOUS
<1> QED
  BY <1>1 DEF Max

\* push: the ring holds the newest frames, whether or not it was full, and
\* whether or not more than a ring is pushed at once.
LEMMA PushKeepsRing ==
  ASSUME TypeInv, RingHoldsNewest, NEW n \in Nat, Push(n), pushed' = pushed + n,
         UNCHANGED drawn
  PROVE  /\ RingHoldsNewest' /\ head' \in Slots /\ tail' \in Slots
         /\ count' \in 0..BufferSize
         /\ count + n <= BufferSize => count' = count + n
<1> DEFINE B == BufferSize
           dropped == IF count + n > B THEN count + n - B ELSE 0
           here(s) == {i \in 1..n : (head + i - 1) % B = s}
<1>1. /\ head \in Nat /\ tail \in Nat /\ count \in Nat /\ pushed \in Nat /\ drawn \in Nat
      /\ B \in Nat \ {0} /\ B > 0 /\ count <= B
  BY Constants DEF TypeInv
<1>2. /\ frames' = [s \in Slots |-> IF here(s) = {} THEN frames[s] ELSE pushed + Max(here(s))]
      /\ head' = (head + n) % B
      /\ tail' = (tail + dropped) % B
      /\ count' = count + n - dropped
  BY DEF Push
<1>3. /\ dropped \in Nat /\ count + n - dropped \in 0..B /\ dropped <= count + n
      /\ count + n <= B => dropped = 0
      /\ dropped > 0 => dropped = count + n - B
  BY <1>1
<1> HIDE DEF dropped, here, B
<1>4. head' \in Slots /\ tail' \in Slots
  <2>1. head + n \in Int /\ tail + dropped \in Int
    BY <1>1, <1>3
  <2>2. (head + n) % B \in 0..(B - 1)
    BY <1>1, <2>1, Division
  <2>3. (tail + dropped) % B \in 0..(B - 1)
    BY <1>1, <2>1, Division
  <2> QED
    BY <1>2, <2>2, <2>3 DEF B, Slots
<1>5. /\ head = (tail + count) % B
      /\ \A k \in 1..count : frames[(tail + k - 1) % B] = pushed - count + k
      /\ drawn <= pushed - count
  BY DEF RingHoldsNewest, B
<1>6. \A i \in Int : (head + i - 1) % B = (tail + (count + i) - 1) % B
  <2> SUFFICES ASSUME NEW i \in Int
               PROVE  (head + i - 1) % B = (tail + (count + i) - 1) % B
    OBVIOUS
  <2>1. (((tail + count) % B) + (i - 1)) % B = ((tail + count) + (i - 1)) % B
    <3>1. tail + count \in Int /\ i - 1 \in Int
      BY <1>1
    <3> QED
      BY <1>1, <3>1, RemainderOfSum
  <2>2. (tail + count) + (i - 1) = tail + (count + i) - 1
    BY <1>1
  <2>3. ((tail + count) % B) + (i - 1) = head + i - 1
    BY <1>1, <1>5
  <2> QED
    BY <2>1, <2>2, <2>3
<1>7. \A k \in Int : (tail' + k - 1) % B = (tail + (dropped + k) - 1) % B
  <2> SUFFICES ASSUME NEW k \in Int
               PROVE  (tail' + k - 1) % B = (tail + (dropped + k) - 1) % B
    OBVIOUS
  <2>0. tail' \in Int
    BY <1>4, Constants
  <2>1. (((tail + dropped) % B) + (k - 1)) % B = ((tail + dropped) + (k - 1)) % B
    <3>1. tail + dropped \in Int /\ k - 1 \in Int
      BY <1>1, <1>3
    <3> QED
      BY <1>1, <3>1, RemainderOfSum
  <2>2. (tail + dropped) + (k - 1) = tail + (dropped + k) - 1
    BY <1>1, <1>3
  <2>3. ((tail + dropped) % B) + (k - 1) = tail' + k - 1
    BY <1>2, <2>0
  <2> QED
    BY <2>1, <2>2, <2>3
<1>8. ASSUME NEW k \in 1..count'
      PROVE  frames'[(tail' + k - 1) % B] = pushed' - count' + k
  <2> DEFINE q == dropped + k
             s == (tail + q - 1) % B
  <2>1. /\ k \in Nat /\ k > 0 /\ q \in Int /\ q >= 1 /\ q <= count + n
        /\ count + n < q + B
    BY <1>1, <1>2, <1>3
  <2>2. (tail' + k - 1) % B = s
    BY <1>7, <2>1
  <2>3. s \in Slots
    <3>1. tail + q - 1 \in Int
      BY <1>1, <2>1
    <3>2. (tail + q - 1) % B \in 0..(B - 1)
      BY <1>1, <3>1, Division
    <3> QED
      BY <3>2 DEF B, Slots
  <2>4. frames'[s] = IF here(s) = {} THEN frames[s] ELSE pushed + Max(here(s))
    BY <1>2, <2>3
  <2>5. pushed' - count' + k = pushed - count + q
    BY <1>1, <1>2, <1>3
  <2> HIDE DEF q, s
  <2>6. CASE q <= count
    <3>1. here(s) = {}
      <4> SUFFICES ASSUME NEW i \in 1..n, (head + i - 1) % B = s PROVE FALSE
        BY DEF here
      <4> DEFINE a == tail + q - 1
                 b == tail + (count + i) - 1
      <4>1. a \in Int /\ b \in Int /\ a < b /\ b < a + B
        BY <1>1, <2>1, <2>6
      <4>2. a % B = b % B
        BY <1>6 DEF s
      <4> HIDE DEF a, b
      <4> QED
        BY <1>1, <4>1, <4>2, RemaindersDiffer
    <3>2. q \in 1..count
      BY <1>1, <2>1, <2>6
    <3>3. frames[s] = pushed - count + q
      BY <1>5, <3>2 DEF s
    <3> QED
      BY <2>2, <2>4, <2>5, <3>1, <3>3
  <2>7. CASE q > count
    <3> DEFINE i == q - count
    <3>1. i \in 1..n /\ i \in Int /\ count + i = q
      BY <1>1, <2>1, <2>7
    <3>2. (head + i - 1) % B = s
      <4>1. (head + i - 1) % B = (tail + (count + i) - 1) % B
        BY <1>6, <3>1
      <4> QED
        BY <3>1, <4>1 DEF s
    <3>3. i \in here(s)
      BY <3>1, <3>2 DEF here
    <3>4. ASSUME NEW j \in here(s) PROVE i >= j
      <4>1. j \in 1..n /\ (head + j - 1) % B = s
        BY DEF here
      <4> SUFFICES ASSUME i < j PROVE FALSE
        BY <3>1, <4>1
      <4> DEFINE a == tail + (count + i) - 1
                 b == tail + (count + j) - 1
      <4>2. a \in Int /\ b \in Int /\ a < b /\ b < a + B
        BY <1>1, <2>1, <3>1, <4>1
      <4>3. a % B = s /\ b % B = s
        BY <1>6, <3>1, <3>2, <4>1
      <4> HIDE DEF a, b
      <4> QED
        BY <1>1, <4>2, <4>3, RemaindersDiffer
    <3>5. here(s) \in SUBSET Int
      BY DEF here
    <3> HIDE DEF i
    <3>6. Max(here(s)) = i
      BY <3>3, <3>4, <3>5, MaxIs
    <3>7. frames'[s] = pushed + i
      BY <2>4, <3>3, <3>6
    <3>8. pushed + i = pushed - count + q
      BY <1>1, <2>1, <3>1
    <3> QED
      BY <2>2, <2>5, <3>7, <3>8
  <2> QED
    BY <1>1, <2>1, <2>6, <2>7
<1>9. (tail' + count') % B = head'
  <2>1. (tail' + (count' + 1) - 1) % B = (tail + (dropped + (count' + 1)) - 1) % B
    <3>1. count' + 1 \in Int
      BY <1>2, <1>3
    <3> QED
      BY <1>7, <3>1
  <2>2. (head + (n + 1) - 1) % B = (tail + (count + (n + 1)) - 1) % B
    BY <1>6
  <2>3. /\ tail + (dropped + (count' + 1)) - 1 = tail + (count + (n + 1)) - 1
        /\ tail' + (count' + 1) - 1 = tail' + count' /\ head + (n + 1) - 1 = head + n
    BY <1>1, <1>2, <1>3, <1>4, Constants
  <2> QED
    BY <1>2, <2>1, <2>2, <2>3
<1>10. drawn' <= pushed' - count'
  BY <1>1, <1>2, <1>3, <1>5
<1>11. RingHoldsNewest'
  BY <1>8, <1>9, <1>10 DEF RingHoldsNewest, B
<1>12. count' \in 0..BufferSize
  BY <1>2, <1>3 DEF B
<1>13. count + n <= BufferSize => count' = count + n
  BY <1>1, <1>2, <1>3 DEF B
<1> QED
  BY <1>4, <1>11, <1>12, <1>13

\* get, n times: the ring still holds the newest frames, and unless nothing was
\* drawn, the frame on the page is the last one before those it holds.
LEMMA DrawKeepsRing ==
  ASSUME TypeInv, RingHoldsNewest, NEW n \in 0..count, Draw(n), UNCHANGED pushed
  PROVE  /\ RingHoldsNewest' /\ head' \in Slots /\ tail' \in Slots
         /\ count' = count - n /\ count' \in 0..BufferSize /\ drawn' \in Nat
         /\ n > 0 \/ drawn = pushed - count => drawn' = pushed' - count'
<1> DEFINE B == BufferSize
<1>1. /\ head \in Nat /\ tail \in Nat /\ count \in Nat /\ pushed \in Nat /\ drawn \in Nat
      /\ B \in Nat \ {0} /\ count <= B /\ n \in Nat /\ n <= count
  BY Constants DEF TypeInv
<1>2. /\ drawn' = IF n > 0 THEN frames[(tail + n - 1) % B] ELSE drawn
      /\ tail' = (tail + n) % B
      /\ count' = count - n /\ frames' = frames /\ head' = head
  BY DEF Draw
<1>3. /\ head = (tail + count) % B
      /\ \A k \in 1..count : frames[(tail + k - 1) % B] = pushed - count + k
      /\ drawn <= pushed - count
  BY DEF RingHoldsNewest
<1> HIDE DEF B
<1>4. tail' \in Slots
  <2>1. tail + n \in Int
    BY <1>1
  <2>2. (tail + n) % B \in 0..(B - 1)
    BY <1>1, <2>1, Division
  <2> QED
    BY <1>2, <2>2 DEF B, Slots
<1>5. tail' \in Int
  BY <1>4, Constants
<1>6. \A k \in Int : (tail' + k) % B = (tail + (n + k)) % B
  <2> SUFFICES ASSUME NEW k \in Int PROVE (tail' + k) % B = (tail + (n + k)) % B
    OBVIOUS
  <2>1. tail + n \in Int
    BY <1>1
  <2>2. (((tail + n) % B) + k) % B = ((tail + n) + k) % B
    BY <1>1, <2>1, RemainderOfSum
  <2>3. (tail + n) + k = tail + (n + k)
    BY <1>1
  <2> QED
    BY <1>2, <2>2, <2>3
<1>7. ASSUME NEW k \in 1..count'
      PROVE  frames'[(tail' + k - 1) % B] = pushed' - count' + k
  <2>1. k \in Int /\ k - 1 \in Int /\ n + k \in 1..count
    BY <1>1, <1>2
  <2>2. /\ tail' + k - 1 = tail' + (k - 1)
        /\ tail + (n + (k - 1)) = tail + (n + k) - 1
    BY <1>1, <1>5, <2>1
  <2>3. (tail' + (k - 1)) % B = (tail + (n + (k - 1))) % B
    BY <1>6, <2>1
  <2>4. (tail' + k - 1) % B = (tail + (n + k) - 1) % B
    BY <2>2, <2>3
  <2>5. frames[(tail + (n + k) - 1) % B] = pushed - count + (n + k)
    BY <1>3, <2>1
  <2>6. pushed - count + (n + k) = pushed' - count' + k
    BY <1>1, <1>2, <2>1
  <2> QED
    BY <1>2, <2>4, <2>5, <2>6
<1>8. (tail' + count') % B = head'
  <2>1. count' \in Int /\ tail + (n + count') = tail + count
    BY <1>1, <1>2
  <2>2. (tail' + count') % B = (tail + (n + count')) % B
    BY <1>6, <2>1
  <2> QED
    BY <1>2, <1>3, <2>1, <2>2
<1>9. /\ drawn' \in Nat /\ drawn' <= pushed' - count'
      /\ n > 0 \/ drawn = pushed - count => drawn' = pushed' - count'
  <2>1. CASE n > 0
    <3>1. n \in 1..count
      BY <1>1, <2>1
    <3>2. drawn' = pushed - count + n
      BY <1>2, <1>3, <2>1, <3>1
    <3> QED
      BY <1>1, <1>2, <1>3, <3>2
  <2>2. CASE n = 0
    BY <1>1, <1>2, <1>3, <2>2
  <2> QED
    BY <1>1, <2>1, <2>2
<1>10. RingHoldsNewest'
  BY <1>7, <1>8, <1>9 DEF RingHoldsNewest, B
<1>11. count' \in 0..BufferSize /\ head' \in Slots
  BY <1>1, <1>2 DEF B, TypeInv
<1> QED
  BY <1>2, <1>4, <1>9, <1>10, <1>11

\* The smaller of two numbers.
LEMMA MinOfTwo ==
  ASSUME NEW a \in Nat, NEW b \in Nat
  PROVE  /\ Min({a, b}) \in 0..b
         /\ Min({a, b}) = IF a <= b THEN a ELSE b
<1> DEFINE m == IF a <= b THEN a ELSE b
<1>1. m \in {a, b} /\ \A y \in {a, b} : m <= y
  OBVIOUS
<1>2. \A x \in {a, b} : (\A y \in {a, b} : x <= y) => x = m
  OBVIOUS
<1>3. Min({a, b}) = m
  BY <1>1, <1>2 DEF Min
<1> QED
  BY <1>3

\* The frame intervals in a time, and what is left of it.
LEMMA Intervals ==
  ASSUME NEW d \in Nat
  PROVE  /\ d \div FrameTicks \in Nat
         /\ d % FrameTicks \in Nat /\ d % FrameTicks < FrameTicks
         /\ d = FrameTicks * (d \div FrameTicks) + (d % FrameTicks)
<1> DEFINE q == d \div FrameTicks
           r == d % FrameTicks
<1>0. FrameTicks \in Nat \ {0} /\ d \in Int
  BY Constants
<1>1. q \in Int /\ r \in 0..(FrameTicks - 1) /\ d = FrameTicks * q + r
  BY <1>0, Division
<1> HIDE DEF q, r
<1>2. q >= 0
  <2> SUFFICES ASSUME q <= -1 PROVE FALSE
    BY <1>1
  <2>1. FrameTicks * q <= FrameTicks * (-1)
    BY <1>0, <1>1, ScaleOrder
  <2> QED
    BY <1>0, <1>1, <2>1
<1>3. q \in Nat /\ r \in Nat /\ r < FrameTicks /\ d = FrameTicks * q + r
  BY <1>0, <1>1, <1>2
<1> QED
  BY <1>3 DEF q, r

----------------------------------------------------------------------------
(* The steps.                                                              *)

\* The numbers of a state.
LEMMA Numbers ==
  ASSUME TypeInv
  PROVE  /\ now \in Nat /\ nextBroadcast \in Nat /\ sent \in Nat /\ pushed \in Nat
         /\ lastFrameTime \in Nat /\ frameDebt \in Nat /\ drawn \in Nat
         /\ owed \in Nat /\ since \in Nat /\ count \in Nat
         /\ lastFrameTime <= now /\ Overdue \in Nat /\ UntilBroadcast \in Nat
         /\ Backlog \in Int
  BY Constants, SMTT(20) DEF TypeInv, Overdue, UntilBroadcast, Backlog

\* A broadcast has a number of frames; with Room, some and no more than the first.
LEMMA BroadcastSize ==
  ASSUME NEW n \in Nat
  PROVE  /\ BroadcastFrames(n) \in Nat
         /\ Room => BroadcastFrames(n) \in Nat \ {0} /\ BroadcastFrames(n) <= FirstFrames
         /\ n # 0 => BroadcastFrames(n) = LaterFrames
         /\ n = 0 => BroadcastFrames(n) = FirstFrames
  BY Constants DEF BroadcastFrames, Room

\* While playback is steady, what the page has not drawn fits the prefetch and
\* one catch-up.
LEMMA BacklogBound ==
  ASSUME Room, TypeInv, DeliveryInv, BacklogInv
  PROVE  Backlog <= FirstFrames + MaxCatchUpFrames /\ count <= Backlog
<1> DEFINE T == FrameTicks
           M == MaxCatchUpFrames
           F == FirstFrames
           L == LaterFrames
<1>1. T \in Nat \ {0} /\ M \in Nat /\ F \in Nat /\ L \in Nat
  BY Constants
<1>2. /\ Overdue \in Nat /\ UntilBroadcast \in Nat /\ Backlog \in Int
      /\ count \in Nat /\ sent \in Nat /\ pushed \in Nat
  BY Numbers
<1>3. UntilBroadcast <= T * L
  <2>1. UntilBroadcast <= PlayingTime
    BY Constants, Numbers DEF UntilBroadcast
  <2> QED
    BY <2>1 DEF PlayingTime
<1>4. Overdue < T * (M + 1) /\ T * Backlog - Overdue <= T * (F - L) + UntilBroadcast
  BY DEF BacklogInv
<1> HIDE DEF T, M, F, L
<1>5. /\ T * (F - L) = T * F - T * L
      /\ T * (F + (M + 1)) = T * F + T * (M + 1)
      /\ {T * F, T * L, T * (M + 1), T * Backlog} \subseteq Int
  BY <1>1, <1>2
<1>6. T * Backlog < T * (F + (M + 1))
  BY <1>2, <1>3, <1>4, <1>5
<1>7. F + (M + 1) \in Int
  BY <1>1
<1>8. Backlog < F + (M + 1)
  BY <1>1, <1>2, <1>6, <1>7, ScaleOrder
<1>9. Backlog <= F + M
  BY <1>1, <1>2, <1>8
<1>10. sent >= pushed
  BY <1>2, BroadcastSize DEF DeliveryInv
<1> QED
  BY <1>2, <1>9, <1>10 DEF Backlog, F, M

LEMMA BroadcastStep ==
  ASSUME Inv, Broadcast
  PROVE  Inv'
<1> DEFINE T == FrameTicks
           F == FirstFrames
           L == LaterFrames
           b == BroadcastFrames(sent)
<1>1. TypeInv /\ RingHoldsNewest /\ PaceInv /\ SteadyInv
  BY DEF Inv
<1>2. /\ now >= nextBroadcast /\ sent' = sent + b /\ nextBroadcast' = now + BroadcastInterval
      /\ UNCHANGED <<now, pushed, frames, head, tail, count, lastFrameTime, frameDebt,
                     drawn, owed, since, steady>>
  BY DEF Broadcast, ringVars, animateVars
<1>3. /\ T \in Nat \ {0} /\ F \in Nat /\ L \in Nat \ {0} /\ b \in Nat
      /\ sent # 0 => b = L
      /\ sent = 0 => b = F
  BY <1>1, Constants, Numbers, BroadcastSize
<1> HIDE DEF b
<1>4. /\ T * L = PlayingTime /\ PlayingTime \in Nat /\ PlayingTime > 0
      /\ BroadcastInterval \in Nat /\ PlayingTime' = PlayingTime
  BY Constants DEF PlayingTime
<1>5. TypeInv'
  <2>1. sent' \in Nat /\ nextBroadcast' \in Nat
    BY <1>1, <1>2, <1>3, <1>4, Numbers
  <2> QED
    BY <1>1, <1>2, <2>1 DEF TypeInv
<1>6. RingHoldsNewest'
  BY <1>1, <1>2 DEF RingHoldsNewest
<1>7. PaceInv'
  BY <1>1, <1>2 DEF PaceInv
<1>8. SteadyInv'
  <2> SUFFICES ASSUME steady, Room
               PROVE  (DeliveryInv /\ BacklogInv /\ drawn = pushed - count)'
    BY <1>2 DEF SteadyInv
  <2>1. DeliveryInv /\ BacklogInv /\ drawn = pushed - count
    BY <1>1 DEF SteadyInv
  <2> HIDE DEF T, L, F
  <2>0. PlayingTime <= BroadcastInterval
    BY DEF Room
  <2>2. sent = pushed /\ UntilBroadcast = 0
    BY <1>1, <1>2, <1>4, <2>0, <2>1, Numbers DEF DeliveryInv, UntilBroadcast
  <2>3. /\ sent' = pushed' + BroadcastFrames(pushed')
        /\ nextBroadcast' = now' + BroadcastInterval
    BY <1>2, <1>4, <2>2 DEF b
  <2>4. DeliveryInv'
    BY <2>3 DEF DeliveryInv
  <2>5. UntilBroadcast' = T * L /\ Overdue' = Overdue /\ Backlog = count /\ Backlog' = count + b
    <3>1. UntilBroadcast' = PlayingTime
      BY <1>1, <1>2, <1>4, <2>0, Numbers DEF UntilBroadcast
    <3> QED
      BY <1>1, <1>2, <1>3, <1>4, <2>2, <3>1, Numbers DEF Overdue, Backlog
  <2>6. T * (count + b) - Overdue <= T * (F - L) + T * L
    <3>1. Overdue \in Nat /\ count \in Nat /\ T * count - Overdue <= T * (F - L)
      BY <1>1, <1>3, <2>1, <2>2, <2>5, Numbers DEF BacklogInv, T, F, L
    <3>2. CASE sent = 0
      <4>1. count = 0 /\ b = F
        BY <1>1, <1>3, <2>1, <2>2, <3>2, Numbers
      <4> QED
        BY <1>3, <3>1, <4>1
    <3>3. CASE sent # 0
      BY <1>3, <3>1, <3>3
    <3> QED
      BY <3>2, <3>3
  <2>7. BacklogInv'
    BY <2>1, <2>5, <2>6 DEF BacklogInv, T, F, L
  <2> QED
    BY <1>2, <2>1, <2>4, <2>7
<1> QED
  BY <1>5, <1>6, <1>7, <1>8 DEF Inv

LEMMA TickStep ==
  ASSUME Inv, Tick
  PROVE  Inv'
<1> DEFINE T == FrameTicks
           F == FirstFrames
           L == LaterFrames
           M == MaxCatchUpFrames
<1>1. TypeInv /\ RingHoldsNewest /\ PaceInv /\ SteadyInv
  BY DEF Inv
<1>2. /\ now' = now + 1
      /\ steady' = /\ steady /\ pushed = sent
                   /\ frameDebt + now' - lastFrameTime < (M + 1) * T
      /\ UNCHANGED <<nextBroadcast, sent, pushed, frames, head, tail, count,
                     lastFrameTime, frameDebt, drawn, owed, since>>
  BY DEF Tick, serverVars, ringVars, animateVars
<1>3. T \in Nat \ {0} /\ M \in Nat /\ F \in Nat /\ L \in Nat
  BY Constants
<1>4. TypeInv'
  <2>1. now' \in Nat /\ lastFrameTime' <= now'
    BY <1>1, <1>2, Numbers
  <2>2. steady' \in BOOLEAN
    BY <1>2
  <2> QED
    BY <1>1, <1>2, <2>1, <2>2 DEF TypeInv
<1>5. RingHoldsNewest'
  BY <1>1, <1>2 DEF RingHoldsNewest
<1>6. PaceInv'
  BY <1>1, <1>2 DEF PaceInv
<1>7. SteadyInv'
  <2> SUFFICES ASSUME steady', Room
               PROVE  (DeliveryInv /\ BacklogInv /\ drawn = pushed - count)'
    BY DEF SteadyInv
  <2>1. /\ steady /\ pushed = sent
        /\ frameDebt + now' - lastFrameTime < (M + 1) * T
    BY <1>2
  <2>2. DeliveryInv /\ BacklogInv /\ drawn = pushed - count
    BY <1>1, <2>1 DEF SteadyInv
  <2>3. /\ T * L \in Nat /\ (M + 1) * T = T * (M + 1) /\ T * (M + 1) \in Nat
        /\ T * (F - L) \in Int
    BY <1>3
  <2> HIDE DEF T, L, F, M
  <2>4. DeliveryInv'
    BY <1>2, <2>1 DEF DeliveryInv
  <2>5. /\ Overdue' = Overdue + 1 /\ Backlog' = Backlog
        /\ UntilBroadcast' >= UntilBroadcast - 1 /\ UntilBroadcast' \in Nat
    <3>1. PlayingTime' = PlayingTime /\ PlayingTime \in Nat
      BY Constants DEF PlayingTime
    <3> QED
      BY <1>1, <1>2, <3>1, Numbers DEF Overdue, Backlog, UntilBroadcast
  <2>6. Overdue' < T * (M + 1)
    BY <1>1, <1>2, <2>1, <2>3, Numbers DEF Overdue
  <2>7. T * Backlog \in Int /\ T * Backlog - Overdue <= T * (F - L) + UntilBroadcast
    BY <1>1, <1>3, <2>2, Numbers DEF BacklogInv, T, F, L
  <2>8. T * Backlog' - Overdue' <= T * (F - L) + UntilBroadcast'
    BY <1>1, <2>3, <2>5, <2>7, Numbers
  <2>9. BacklogInv'
    BY <2>6, <2>8 DEF BacklogInv, T, F, L, M
  <2> QED
    BY <1>2, <2>2, <2>4, <2>9
<1> QED
  BY <1>4, <1>5, <1>6, <1>7 DEF Inv

LEMMA ReceiveStep ==
  ASSUME Inv, Receive
  PROVE  Inv'
<1> DEFINE b == BroadcastFrames(pushed)
<1>1. TypeInv /\ RingHoldsNewest /\ PaceInv /\ SteadyInv
  BY DEF Inv
<1>2. /\ pushed < sent /\ Push(b) /\ pushed' = pushed + b
      /\ UNCHANGED <<now, nextBroadcast, sent, lastFrameTime, frameDebt,
                     drawn, owed, since, steady>>
  BY DEF Receive, serverVars, animateVars
<1>3. b \in Nat
  BY <1>1, Numbers, BroadcastSize
<1> HIDE DEF b
<1>4. /\ RingHoldsNewest' /\ head' \in Slots /\ tail' \in Slots
      /\ count' \in 0..BufferSize
      /\ count + b <= BufferSize => count' = count + b
  BY <1>1, <1>2, <1>3, PushKeepsRing
<1>5. TypeInv'
  <2>1. pushed' \in Nat
    BY <1>1, <1>2, <1>3, Numbers
  <2> QED
    BY <1>1, <1>2, <1>4, <2>1 DEF TypeInv
<1>6. PaceInv'
  BY <1>1, <1>2 DEF PaceInv
<1>7. SteadyInv'
  <2> SUFFICES ASSUME steady, Room
               PROVE  (DeliveryInv /\ BacklogInv /\ drawn = pushed - count)'
    BY <1>2 DEF SteadyInv
  <2>1. DeliveryInv /\ BacklogInv /\ drawn = pushed - count
    BY <1>1 DEF SteadyInv
  <2>2. sent = pushed + b
    BY <1>1, <1>2, <2>1, Numbers DEF DeliveryInv, b
  <2>3. Backlog = count + b
    BY <1>1, <1>3, <2>2, Numbers DEF Backlog
  <2>4. count + b <= BufferSize
    BY <1>1, <1>3, <2>1, <2>3, BacklogBound, Constants, Numbers DEF Room
  <2>5. count' = count + b /\ sent' = pushed'
    BY <1>2, <1>4, <2>2, <2>4
  <2>6. Backlog' = Backlog /\ Overdue' = Overdue /\ UntilBroadcast' = UntilBroadcast
    BY <1>1, <1>2, <1>3, <2>3, <2>5, Numbers DEF Backlog, Overdue, UntilBroadcast
  <2>7. DeliveryInv'
    BY <1>2, <2>1, <2>5 DEF DeliveryInv
  <2>8. BacklogInv'
    BY <2>1, <2>6 DEF BacklogInv
  <2>9. drawn' = pushed' - count'
    BY <1>1, <1>2, <1>3, <2>1, <2>5, Numbers
  <2> QED
    BY <2>7, <2>8, <2>9
<1> QED
  BY <1>4, <1>5, <1>6, <1>7 DEF Inv

LEMMA AnimateStep ==
  ASSUME Inv, Animate
  PROVE  Inv'
<1> DEFINE T == FrameTicks
           F == FirstFrames
           L == LaterFrames
           M == MaxCatchUpFrames
           q == Overdue \div FrameTicks
           r == Overdue % FrameTicks
           toDraw == IF q > M THEN M ELSE q
           n == Min({toDraw, count})
<1>1. TypeInv /\ RingHoldsNewest /\ PaceInv /\ SteadyInv
  BY DEF Inv
<1>2. /\ lastFrameTime' = now /\ Draw(n)
      /\ q > M => frameDebt' = 0 /\ owed' = 0 /\ since' = now
      /\ ~ (q > M) => frameDebt' = r /\ owed' = owed + q /\ since' = since
      /\ UNCHANGED <<now, nextBroadcast, sent, pushed, steady>>
  BY DEF Animate, Overdue, serverVars
<1>3. T \in Nat \ {0} /\ M \in Nat /\ F \in Nat /\ L \in Nat
  BY Constants
<1>4. q \in Nat /\ r \in Nat /\ r < T /\ Overdue = T * q + r
  BY <1>1, Numbers, Intervals
<1>5. Overdue = frameDebt + (now - lastFrameTime)
  BY DEF Overdue
<1> HIDE DEF T, F, L, M, q, r
<1>6. toDraw \in Nat /\ count \in Nat
  BY <1>1, <1>3, <1>4, Numbers
<1>7. n \in 0..count /\ n = IF toDraw <= count THEN toDraw ELSE count
  BY <1>6, MinOfTwo
<1> HIDE DEF n, toDraw
<1>8. /\ RingHoldsNewest' /\ head' \in Slots /\ tail' \in Slots
      /\ count' = count - n /\ count' \in 0..BufferSize /\ drawn' \in Nat
      /\ n > 0 \/ drawn = pushed - count => drawn' = pushed' - count'
  BY <1>1, <1>2, <1>7, DrawKeepsRing
<1>9. /\ lastFrameTime' \in Nat /\ frameDebt' \in Nat /\ owed' \in Nat /\ since' \in Nat
      /\ lastFrameTime' <= now'
  BY <1>1, <1>2, <1>4, Numbers
<1>10. TypeInv'
  BY <1>1, <1>2, <1>8, <1>9 DEF TypeInv
<1>11. PaceInv'
  <2>1. CASE q > M
    <3>1. T * owed' = 0
      BY <1>2, <1>3, <2>1
    <3> QED
      BY <1>1, <1>2, <1>3, <2>1, <3>1, Numbers DEF PaceInv, T
  <2>2. CASE ~ (q > M)
    <3>1. lastFrameTime - since = T * owed + frameDebt /\ since <= lastFrameTime
      BY <1>1 DEF PaceInv, T
    <3>2. T * (owed + q) = T * owed + T * q /\ T * owed \in Int /\ T * q \in Int
      BY <1>1, <1>3, <1>4, Numbers
    <3>3. now - since = T * (owed + q) + r
      <4>1. {now, lastFrameTime, since, frameDebt, r} \subseteq Int
        BY <1>1, <1>4, Numbers
      <4>2. frameDebt + (now - lastFrameTime) = T * q + r
        BY <1>4, <1>5
      <4> QED
        BY <3>1, <3>2, <4>1, <4>2
    <3>4. since <= now
      BY <1>1, <3>1, Numbers
    <3> QED
      BY <1>2, <1>4, <2>2, <3>3, <3>4 DEF PaceInv, T
  <2> QED
    BY <2>1, <2>2
<1>12. SteadyInv'
  <2> SUFFICES ASSUME steady, Room
               PROVE  (DeliveryInv /\ BacklogInv /\ drawn = pushed - count)'
    BY <1>2 DEF SteadyInv
  <2>1. DeliveryInv /\ BacklogInv /\ drawn = pushed - count
    BY <1>1 DEF SteadyInv
  <2>2. drawn' = pushed' - count'
    BY <1>8, <2>1
  <2>3. DeliveryInv'
    BY <1>2, <2>1 DEF DeliveryInv
  <2>4. /\ Overdue < T * (M + 1)
        /\ T * Backlog - Overdue <= T * (F - L) + UntilBroadcast
    BY <2>1 DEF BacklogInv, T, F, L, M
  <2>5. ~ (q > M)
    <3> SUFFICES ASSUME M + 1 <= q PROVE FALSE
      BY <1>3, <1>4
    <3>1. M + 1 \in Int /\ q \in Int /\ T * q \in Int /\ T * (M + 1) \in Int
      BY <1>3, <1>4
    <3>2. T * (M + 1) <= T * q
      BY <1>3, <3>1, ScaleOrder
    <3> QED
      BY <1>3, <1>4, <2>4, <3>1, <3>2
  <2>6. toDraw = q /\ Overdue' = r
    BY <1>1, <1>2, <1>4, <2>5, Numbers DEF toDraw, Overdue
  <2>7. r < T * (M + 1)
    <3>1. T * (M + 1) = T * M + T /\ T * M \in Nat
      BY <1>3
    <3> QED
      BY <1>3, <1>4, <3>1
  <2>8. /\ UntilBroadcast' = UntilBroadcast /\ UntilBroadcast \in Nat
        /\ Backlog' = Backlog - n /\ Backlog \in Int
    BY <1>1, <1>2, <1>7, <1>8, Numbers DEF UntilBroadcast, Backlog
  <2>9. T * (Backlog - n) - r <= T * (F - L) + UntilBroadcast
    <3>1. CASE n = q
      <4>1. T * (Backlog - q) = T * Backlog - T * q /\ {T * Backlog, T * q} \subseteq Int
        BY <1>3, <1>4, <2>8
      <4>2. T * (Backlog - q) - r = T * Backlog - Overdue
        BY <1>4, <4>1
      <4> QED
        BY <2>4, <3>1, <4>2
    <3>2. CASE n = count
      <4>1. /\ Backlog - n = sent - pushed /\ sent - pushed \in Int
        BY <1>1, <3>2, Numbers DEF Backlog
      <4>2. T * (F - L) = T * F - T * L /\ {T * F, T * L} \subseteq Nat
        BY <1>3
      <4>3. T * L <= T * F
        <5>1. L \in Int /\ F \in Int /\ L <= F
          BY <1>3 DEF Room, L, F
        <5> QED
          BY <1>3, <5>1, ScaleOrder
      <4>4. CASE sent = pushed
        <5>1. T * (sent - pushed) = 0
          BY <1>1, <1>3, <4>4, Numbers
        <5> QED
          BY <1>4, <2>8, <4>1, <4>2, <4>3, <5>1
      <4>5. CASE sent # pushed
        <5>1. sent - pushed <= F /\ UntilBroadcast = T * L
          <6>1. sent = pushed + BroadcastFrames(pushed) /\ nextBroadcast = now + BroadcastInterval
            BY <2>1, <4>5 DEF DeliveryInv
          <6>2. BroadcastFrames(pushed) \in Nat /\ BroadcastFrames(pushed) <= F
            BY <1>1, Numbers, BroadcastSize DEF F
          <6>3. UntilBroadcast = PlayingTime
            <7>1. /\ PlayingTime <= BroadcastInterval /\ PlayingTime > 0
                  /\ PlayingTime \in Nat /\ BroadcastInterval \in Nat
              BY Constants DEF Room
            <7>2. now \in Nat
              BY <1>1, Numbers
            <7> QED
              BY <6>1, <7>1, <7>2 DEF UntilBroadcast
          <6>4. PlayingTime = T * L
            BY DEF PlayingTime, T, L
          <6> QED
            BY <1>1, <1>3, <6>1, <6>2, <6>3, <6>4, Numbers
        <5>2. F \in Int /\ T * (sent - pushed) \in Int
          BY <1>3, <4>1
        <5>3. T * (sent - pushed) <= T * F
          BY <1>3, <4>1, <5>1, <5>2, ScaleOrder
        <5> QED
          BY <1>4, <4>1, <4>2, <5>1, <5>2, <5>3
      <4> QED
        BY <4>4, <4>5
    <3> QED
      BY <1>7, <2>6, <3>1, <3>2
  <2>10. BacklogInv'
    BY <2>6, <2>7, <2>8, <2>9 DEF BacklogInv, T, F, L, M
  <2> QED
    BY <2>2, <2>3, <2>10
<1> QED
  BY <1>8, <1>10, <1>11, <1>12 DEF Inv

----------------------------------------------------------------------------
(* The theorems.                                                           *)

LEMMA InvInit == Init => Inv
<1> SUFFICES ASSUME Init PROVE Inv
  OBVIOUS
<1>1. /\ now = 0 /\ nextBroadcast = 0 /\ sent = 0 /\ pushed = 0
      /\ head = 0 /\ tail = 0 /\ count = 0 /\ lastFrameTime = 0 /\ frameDebt = 0
      /\ drawn = 0 /\ owed = 0 /\ since = 0 /\ steady = TRUE
  BY DEF Init
<1>2. TypeInv
  BY <1>1, Constants DEF TypeInv
<1>3. RingHoldsNewest
  <2>1. 0 % BufferSize = 0
    BY Constants
  <2> QED
    BY <1>1, <2>1 DEF RingHoldsNewest
<1>4. PaceInv
  BY <1>1, Constants DEF PaceInv
<1>5. SteadyInv
  <2> SUFFICES ASSUME Room PROVE DeliveryInv /\ BacklogInv /\ drawn = pushed - count
    BY DEF SteadyInv
  <2>1. Overdue = 0 /\ Backlog = 0 /\ UntilBroadcast = 0
    BY <1>1 DEF Overdue, Backlog, UntilBroadcast
  <2>2. /\ FrameTicks * LaterFrames \in Nat /\ FrameTicks * 0 = 0
        /\ FrameTicks * (FirstFrames - LaterFrames) >= 0
        /\ FrameTicks * (FirstFrames - LaterFrames) \in Int
    BY Constants DEF Room
  <2>3. 0 < FrameTicks * (MaxCatchUpFrames + 1)
    BY Constants
  <2>4. DeliveryInv
    BY <1>1, <2>2 DEF DeliveryInv
  <2>5. BacklogInv
    BY <2>1, <2>2, <2>3 DEF BacklogInv
  <2> QED
    BY <1>1, <2>4, <2>5
<1> QED
  BY <1>2, <1>3, <1>4, <1>5 DEF Inv

LEMMA InvStep == Inv /\ [Next]_vars => Inv'
<1> SUFFICES ASSUME Inv, [Next]_vars PROVE Inv'
  OBVIOUS
<1>1. CASE Broadcast
  BY <1>1, BroadcastStep
<1>2. CASE Tick
  BY <1>2, TickStep
<1>3. CASE Receive
  BY <1>3, ReceiveStep
<1>4. CASE Animate
  BY <1>4, AnimateStep
<1>5. CASE UNCHANGED vars
  BY <1>5 DEF Inv, TypeInv, RingHoldsNewest, PaceInv, SteadyInv, DeliveryInv,
              BacklogInv, Overdue, Backlog, UntilBroadcast,
              vars, serverVars, ringVars, animateVars
<1> QED
  BY <1>1, <1>2, <1>3, <1>4, <1>5 DEF Next

\* However broadcasts, messages and callbacks interleave, also when so many
\* messages arrive while the tab is hidden that the ring drops frames, the page's
\* ring holds the newest frames, in order.
THEOREM RingAlwaysHoldsNewest == Spec => []RingHoldsNewest
<1>1. Inv => RingHoldsNewest
  BY DEF Inv
<1> QED
  BY <1>1, InvInit, InvStep, PTL DEF Spec

\* Whatever the display's refresh rate and however its callbacks fall, exactly
\* one frame is asked for per elapsed frame interval: the remainders carried
\* from callback to callback neither accumulate nor get lost.
THEOREM PaceIsTrue == Spec => []TruePace
<1>1. Inv => TruePace
  <2> SUFFICES ASSUME Inv PROVE TruePace
    OBVIOUS
  <2>1. /\ owed \in Int /\ frameDebt \in 0..(FrameTicks - 1)
        /\ lastFrameTime - since = FrameTicks * owed + frameDebt
    BY Numbers, Constants DEF Inv, PaceInv
  <2>2. (FrameTicks * owed + frameDebt) \div FrameTicks = owed
    BY <2>1, Constants, DivisionUnique
  <2> QED
    BY <2>1, <2>2 DEF TruePace
<1> QED
  BY <1>1, InvInit, InvStep, PTL DEF Spec

\* For every ring that holds the first broadcast and one catch-up, and every
\* BroadcastInterval in which a later broadcast can play: as long as messages
\* are not late and no callback is overdue by more than a catch-up, the page draws
\* every frame and is never further behind than that.
THEOREM SteadyPlaybackIsLossless == Spec => []SteadyPlaybackLosesNothing
<1>1. Inv => SteadyPlaybackLosesNothing
  <2> SUFFICES ASSUME Inv, steady
               PROVE  drawn = pushed - count /\ count <= FirstFrames + MaxCatchUpFrames
    BY DEF SteadyPlaybackLosesNothing
  <2>1. Room /\ TypeInv /\ DeliveryInv /\ BacklogInv /\ drawn = pushed - count
    BY RoomAssumption, PacingAssumption, Constants DEF Inv, SteadyInv, Room
  <2>2. count <= Backlog /\ Backlog <= FirstFrames + MaxCatchUpFrames
    BY <2>1, BacklogBound
  <2>3. count \in Int /\ Backlog \in Int /\ FirstFrames + MaxCatchUpFrames \in Int
    BY <2>1, Numbers, Constants
  <2> QED
    BY <2>1, <2>2, <2>3
<1> QED
  BY <1>1, InvInit, InvStep, PTL DEF Spec
=============================================================================
