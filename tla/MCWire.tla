------------------------------- MODULE MCWire ------------------------------
(* Wire with three-valued nibbles, two glyphs and batches of two frames of two bytes. *)
EXTENDS Wire, SequencesExt

\* Zero, the largest number, and one in which every byte is different.
MCNumbers == {0, Word32 - 1, 1 + 2 * Byte + 3 * Byte * Byte + 4 * Byte * Byte * Byte}

\* PackAll is the flatMap it stands for, for frames of every length.
ASSUME PackAllIsFlatMap ==
  \A length \in 1..(DonutStringLength + 1) :
    \A rendered \in [1..FramesPerBatch -> Frame(length)] :
      PackAll(rendered) = FlattenSeq([f \in 1..FramesPerBatch |-> Pack(rendered[f])])
=============================================================================
