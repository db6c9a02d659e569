---------------------------- MODULE FrameStream ----------------------------
(***************************************************************************)
(* What the rendering pipeline promises its viewers: an endless stream of  *)
(* the animation's batches, in order, produced ahead of the viewers by at  *)
(* most the size of the ring and sent in whole broadcasts.  Nothing here   *)
(* knows of workers, tasks, timeouts, slots or locks.                      *)
(***************************************************************************)
EXTENDS Integers, Sequences

CONSTANTS
  MaxBatches,     \* how far production may run ahead of the viewers
  First,          \* batches of the first round and of the first broadcast
  Later           \* batches of every other round and broadcast

VARIABLES
  produced,       \* number of batches rendered so far
  sent            \* the batches broadcast so far

vars == <<produced, sent>>

Init == produced = 0 /\ sent = << >>

\* A round of batches is rendered, if the ring can take it.
Produce ==
  LET n == IF produced = 0 THEN First ELSE Later
  IN  /\ produced + n - Len(sent) <= MaxBatches
      /\ produced' = produced + n
      /\ UNCHANGED sent

\* The next n batches, all of them rendered, are broadcast.
Broadcast ==
  LET n == IF sent = << >> THEN First ELSE Later
  IN  /\ Len(sent) + n <= produced
      /\ sent' = sent \o [k \in 1..n |-> (Len(sent) + k - 1) % MaxBatches]
      /\ UNCHANGED produced

Next == Produce \/ Broadcast

Spec == Init /\ [][Next]_vars
=============================================================================
