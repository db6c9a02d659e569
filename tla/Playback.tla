------------------------------ MODULE Playback ------------------------------
(***************************************************************************)
(* Playback in the page (web/static/script.js): the CircularBuffer that    *)
(* onmessage fills and the requestAnimationFrame callback that drains it   *)
(* at 60 frames a second of wall-clock time.                               *)
(*                                                                         *)
(* Time is counted in ticks, FrameTicks to a frame interval, so a callback *)
(* can fall between two frames.  A hidden tab gets no callbacks while its  *)
(* messages keep arriving.  Frames are numbered as they arrive, from 1.    *)
(***************************************************************************)
EXTENDS Integers, FiniteSetsExt

CONSTANTS
  BufferSize,         \* frames the page can hold (1200)
  FrameTicks,         \* IntervalBetweenFrames, in ticks
  MaxCatchUpFrames,   \* frames one callback may draw (60)
  FirstFrames,        \* frames of the first broadcast (360)
  LaterFrames,        \* frames of every later broadcast (240)
  BroadcastInterval,  \* the server's sleep between broadcasts, in ticks (4 s)
  MaxGap,             \* bound: longest time without a callback
  Horizon             \* bound: time simulated

ASSUME PlaybackAssumption ==
  /\ {BufferSize, FrameTicks, MaxCatchUpFrames, LaterFrames} \subseteq Nat \ {0}
  /\ {FirstFrames, BroadcastInterval, MaxGap, Horizon} \subseteq Nat

\* The first broadcast is the largest, and the ring holds it and a catch-up.
ASSUME RoomAssumption ==
  /\ LaterFrames <= FirstFrames
  /\ FirstFrames + MaxCatchUpFrames <= BufferSize

\* The server broadcasts no faster than a later broadcast plays.  The defaults make
\* the two equal, -broadcast-interval is set apart from the sizes.
ASSUME PacingAssumption ==
  LaterFrames * FrameTicks <= BroadcastInterval

VARIABLES
  now,
  nextBroadcast, sent,                \* server: earliest next broadcast; frames sent
  pushed,                             \* frames received by the page
  frames, head, tail, count,          \* CircularBuffer
  lastFrameTime, frameDebt,           \* animate; the debt in ticks
  drawn,                              \* the frame on the page, 0 before the first
  owed, since,                        \* frames asked for since that time
  steady                              \* no message late, no callback overdue so far

serverVars == <<nextBroadcast, sent>>
ringVars == <<frames, head, tail, count>>
animateVars == <<lastFrameTime, frameDebt, drawn, owed, since>>
vars == <<now, serverVars, pushed, ringVars, animateVars, steady>>

Slots == 0..(BufferSize - 1)

BroadcastFrames(n) == IF n = 0 THEN FirstFrames ELSE LaterFrames

Init ==
  /\ now = 0 /\ nextBroadcast = 0 /\ sent = 0 /\ pushed = 0
  /\ frames = [s \in Slots |-> 0] /\ head = 0 /\ tail = 0 /\ count = 0
  /\ lastFrameTime = 0 /\ frameDebt = 0 /\ drawn = 0 /\ owed = 0 /\ since = 0
  /\ steady = TRUE

----------------------------------------------------------------------------
(* The server and the clock.                                               *)

\* The broadcaster sends, then sleeps for the BroadcastInterval.
Broadcast ==
  /\ now >= nextBroadcast
  /\ sent' = sent + BroadcastFrames(sent)
  /\ nextBroadcast' = now + BroadcastInterval
  /\ UNCHANGED <<now, pushed, ringVars, animateVars, steady>>

Tick ==
  /\ now < Horizon /\ now - lastFrameTime < MaxGap
  /\ now' = now + 1
  /\ steady' = /\ steady /\ pushed = sent
               /\ frameDebt + now' - lastFrameTime < (MaxCatchUpFrames + 1) * FrameTicks
  /\ UNCHANGED <<serverVars, pushed, ringVars, animateVars>>

----------------------------------------------------------------------------
(* The ring.                                                               *)

\* Mutant: a full ring is written over without moving the read slot.
PushLapping(n) ==
  /\ frames' = [s \in Slots |->
       LET here == {i \in 1..n : (head + i - 1) % BufferSize = s}
       IN  IF here = {} THEN frames[s] ELSE pushed + Max(here)]
  /\ head' = (head + n) % BufferSize
  /\ count' = IF count + n > BufferSize THEN BufferSize ELSE count + n
  /\ UNCHANGED tail

\* push of the next n frames: when the ring is full each one drops the oldest.
Push(n) ==
  LET dropped == IF count + n > BufferSize THEN count + n - BufferSize ELSE 0
  IN  /\ frames' = [s \in Slots |->
           LET here == {i \in 1..n : (head + i - 1) % BufferSize = s}
           IN  IF here = {} THEN frames[s] ELSE pushed + Max(here)]
      /\ head' = (head + n) % BufferSize
      /\ tail' = (tail + dropped) % BufferSize
      /\ count' = count + n - dropped

\* onmessage of a broadcast; messages arrive in order, at once or late.
Receive ==
  /\ pushed < sent
  /\ Push(BroadcastFrames(pushed))
  /\ pushed' = pushed + BroadcastFrames(pushed)
  /\ UNCHANGED <<now, serverVars, animateVars, steady>>

----------------------------------------------------------------------------
(* The callback.                                                           *)

\* get, n times: the last frame taken is the one that stays on the page.
Draw(n) ==
  /\ drawn' = IF n > 0 THEN frames[(tail + n - 1) % BufferSize] ELSE drawn
  /\ tail' = (tail + n) % BufferSize
  /\ count' = count - n
  /\ UNCHANGED <<frames, head>>

\* Mutant: the sub-frame remainder is dropped at every callback.
AnimateDroppingRemainder ==
  LET debt == frameDebt + (now - lastFrameTime)
      toDraw == Min({debt \div FrameTicks, MaxCatchUpFrames})
  IN  /\ now > lastFrameTime
      /\ lastFrameTime' = now
      /\ Draw(Min({toDraw, count}))
      /\ frameDebt' = 0 /\ owed' = owed + toDraw
      /\ UNCHANGED <<since, steady, now, serverVars, pushed>>

\* Mutant: at most one frame per callback.
AnimateOneFrame ==
  LET debt == frameDebt + (now - lastFrameTime)
      toDraw == Min({debt \div FrameTicks, 1})
  IN  /\ now > lastFrameTime
      /\ lastFrameTime' = now
      /\ Draw(Min({toDraw, count}))
      /\ frameDebt' = debt % FrameTicks /\ owed' = owed + debt \div FrameTicks
      /\ UNCHANGED <<since, steady, now, serverVars, pushed>>

\* animate(currentTime)
Animate ==
  LET debt == frameDebt + (now - lastFrameTime)
      capped == debt \div FrameTicks > MaxCatchUpFrames
      toDraw == IF capped THEN MaxCatchUpFrames ELSE debt \div FrameTicks
  IN  /\ now > lastFrameTime
      /\ lastFrameTime' = now
      /\ Draw(Min({toDraw, count}))
      /\ IF capped
         THEN frameDebt' = 0 /\ owed' = 0 /\ since' = now
         ELSE frameDebt' = debt % FrameTicks /\ owed' = owed + toDraw /\ UNCHANGED since
      /\ UNCHANGED <<now, serverVars, pushed, steady>>

Next == Broadcast \/ Tick \/ Receive \/ Animate

Spec == Init /\ [][Next]_vars

----------------------------------------------------------------------------
(* Properties.                                                             *)

\* From the read slot on, the ring holds the newest `count` frames received, in
\* order, and nothing that was drawn: dropping the oldest frame of a full ring
\* keeps the three cursors consistent.
RingHoldsNewest ==
  /\ \A k \in 1..count : frames[(tail + k - 1) % BufferSize] = pushed - count + k
  /\ drawn <= pushed - count
  /\ (tail + count) % BufferSize = head

\* "a true 60 fps regardless of the display's refresh rate": since the last
\* capped callback, exactly one frame was asked for per elapsed frame interval,
\* however the callbacks fell.
TruePace ==
  owed = (lastFrameTime - since) \div FrameTicks

\* The page's ring is large enough for a server that broadcasts no faster than
\* frames play (RoomAssumption, PacingAssumption): as long as messages
\* are not late and no callback is overdue by more than a catch-up, no frame is
\* dropped unseen and the page is never further behind than the prefetch and one
\* catch-up (the buffer does not "grow without bound").
SteadyPlaybackLosesNothing ==
  steady => drawn = pushed - count /\ count <= FirstFrames + MaxCatchUpFrames
=============================================================================
