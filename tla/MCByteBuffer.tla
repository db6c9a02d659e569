---------------------------- MODULE MCByteBuffer ---------------------------
(* ByteBuffer on a ring of three batches of four two-byte frames. *)
EXTENDS ByteBuffer

\* Negative, zero, valid, too large, and sizes whose products with
\* FramesPerBatch are those of zero and of one modulo the word.
MCSettings ==
  {-1, 0, 1, 2, 3, 4, Word \div FramesPerBatch, Word \div FramesPerBatch + 1}
MCDefaultConfig == <<2, 1>>
=============================================================================
