-------------------------------- MODULE Wire --------------------------------
(***************************************************************************)
(* The bytes on the wire.  One render task goes from the server            *)
(* (internal/protocol) to a page (script.js), its frames come back from    *)
(* the page's Web Worker (donut-worker.js), or from a worker of the test   *)
(* harness that mangles them (harness/worker.go), and are broadcast and    *)
(* decoded again.  Each side has its own encoder and decoder, in Go and in *)
(* JavaScript; they must agree.                                            *)
(*                                                                         *)
(* A byte is Nibble * Nibble values, a uint32 four of them; a frame is a   *)
(* sequence of glyph numbers.                                              *)
(***************************************************************************)
EXTENDS Integers, Sequences

CONSTANTS
  Nibble,             \* 16
  Glyphs,             \* 14: the characters of possibleCharacters
  Space,              \* the glyph of " "
  FrameSize,          \* bytes per frame
  FramesPerBatch,     \* frames per batch
  Numbers,            \* values tried for uint32 fields
  Corruptions         \* what the harness's workers do to a result

ASSUME WireAssumption ==
  /\ Nibble \in Nat \ {0, 1}
  /\ {FrameSize, FramesPerBatch} \subseteq Nat \ {0}
  /\ Glyphs \in 1..Nibble /\ Space \in 0..(Glyphs - 1)
  /\ Corruptions \subseteq {"None", "WrongSize", "Truncated", "Oversized",
                            "Garbage", "UnassignedID"}

Byte == Nibble * Nibble
Word32 == Byte * Byte * Byte * Byte
BatchSize == FrameSize * FramesPerBatch
DonutStringLength == 2 * FrameSize
maxIncomingMessageBytes == 1 + 4 + BatchSize

ASSUME NumbersAssumption == Numbers \subseteq 0..(Word32 - 1)

MessageTypeRenderTask == 0
MessageTypeRenderResult == 1
MessageTypeFrameBroadcast == 2
MessageTypeClientCount == 3
MessageTypeBufferFullness == 4

----------------------------------------------------------------------------
(* The server's side (Go).                                                 *)

\* binary.BigEndian
PutUint32(n) ==
  <<(n \div (Byte * Byte * Byte)) % Byte, (n \div (Byte * Byte)) % Byte,
    (n \div Byte) % Byte, n % Byte>>
Uint32(data) == ((data[1] * Byte + data[2]) * Byte + data[3]) * Byte + data[4]

EncodeRenderTask(id, startFrame, endFrame) ==
  <<MessageTypeRenderTask>> \o PutUint32(id) \o PutUint32(startFrame)
                            \o PutUint32(endFrame)
EncodeFrameBroadcast(bytes) == <<MessageTypeFrameBroadcast>> \o bytes
EncodeRenderResult(id, bytes) == <<MessageTypeRenderResult>> \o PutUint32(id) \o bytes
EncodeClientCount(count) == <<MessageTypeClientCount>> \o PutUint32(count)
EncodeBufferFullness(percent) == <<MessageTypeBufferFullness, percent>>

Rejected == [id |-> -1, frames |-> << >>]

\* Mutant: a batch that is too short is accepted.
NewRenderResultUpTo(data) ==
  IF Len(data) < 4 \/ Len(data) > 4 + BatchSize
  THEN Rejected
  ELSE [id |-> Uint32(data), frames |-> SubSeq(data, 5, Len(data))]

NewRenderResult(data) ==
  IF Len(data) < 4 \/ Len(data) # 4 + BatchSize
  THEN Rejected
  ELSE [id |-> Uint32(data), frames |-> SubSeq(data, 5, Len(data))]

----------------------------------------------------------------------------
(* The page's side (JavaScript) and the harness's worker.                  *)

\* dv.getUint32(offset), big endian by default; offsets count from 0.
getUint32(message, offset) == Uint32(SubSeq(message, offset + 1, offset + 4))

\* DecodeRenderTask, which a worker of the harness uses.  Its error for fewer than 12
\* bytes is left out: data is what EncodeRenderTask wrote, always 12 bytes.
DecodeRenderTask(data) ==
  [id |-> Uint32(SubSeq(data, 1, 4)), startFrame |-> Uint32(SubSeq(data, 5, 8)),
   endFrame |-> Uint32(SubSeq(data, 9, 12))]

\* Two glyphs to a byte; an odd last one is padded with a space.
Pack(frame) ==
  [k \in 1..((Len(frame) + 1) \div 2) |->
     frame[2 * k - 1] * Nibble
       + (IF 2 * k <= Len(frame) THEN frame[2 * k] ELSE Space)]

\* The page's flatMap over frames; asciiframe makes all of them equally long.
PackAll(frames) ==
  LET width == (Len(frames[1]) + 1) \div 2
  IN  [j \in 1..(width * Len(frames)) |->
         Pack(frames[(j - 1) \div width + 1])[((j - 1) % width) + 1]]

\* Mutant: the task's id is written in the other byte order.
encodeResultLittleEndian(id, frames) ==
  LET bytes == PutUint32(id)
  IN  <<MessageTypeRenderResult, bytes[4], bytes[3], bytes[2], bytes[1]>>
        \o PackAll(frames)

encodeRenderResult(id, frames) ==
  <<MessageTypeRenderResult, (id \div (Byte * Byte * Byte)) % Byte,
    (id \div (Byte * Byte)) % Byte, (id \div Byte) % Byte, id % Byte>>
    \o PackAll(frames)

\* Mutant: the two glyphs of a byte are swapped.
decodeFramesSwapped(bytes) ==
  LET chars == [j \in 1..(2 * Len(bytes)) |->
                  LET byte == bytes[(j + 1) \div 2]
                  IN  IF j % 2 = 0 THEN byte \div Nibble ELSE byte % Nibble]
      whole == (Len(chars) + DonutStringLength - 1) \div DonutStringLength
  IN  [f \in 1..whole |-> SubSeq(chars, (f - 1) * DonutStringLength + 1,
                                 f * DonutStringLength)]

\* High nibble first, cut into frames of DonutStringLength; a byte that is no
\* pair of glyphs makes it throw, and nothing of the message is played.
decodeFrames(bytes) ==
  LET chars == [j \in 1..(2 * Len(bytes)) |->
                  LET byte == bytes[(j + 1) \div 2]
                  IN  IF j % 2 = 1 THEN byte \div Nibble ELSE byte % Nibble]
      whole == Len(chars) \div DonutStringLength
      rest == IF Len(chars) % DonutStringLength = 0 THEN 0 ELSE 1
  IN  IF \E j \in 1..Len(chars) : chars[j] >= Glyphs
      THEN << >>
      ELSE [f \in 1..(whole + rest) |->
              SubSeq(chars, (f - 1) * DonutStringLength + 1,
                     IF f <= whole THEN f * DonutStringLength ELSE Len(chars))]

\* encodeResult of a harness worker: message is what an honest one would send.
Mangle(message, corruption, id) ==
  CASE corruption = "None" -> message
    [] corruption = "WrongSize" -> SubSeq(message, 1, Len(message) - 1)
    [] corruption = "Truncated" -> SubSeq(message, 1, 3)
    [] corruption = "Oversized" ->
         <<MessageTypeRenderResult>> \o [k \in 1..maxIncomingMessageBytes |-> 0]
    [] corruption = "Garbage" ->
         <<MessageTypeRenderResult>> \o [k \in 1..(BatchSize - 1) |-> Byte - 1]
    [] corruption = "UnassignedID" ->
         EncodeRenderResult((id + Byte) % Word32, SubSeq(message, 6, Len(message)))

----------------------------------------------------------------------------
(* One task, there and back.                                               *)

VARIABLES
  phase,                        \* what happens next
  task, frames,                 \* the task assigned and the frames it asks for
  corruption, count, percent,   \* the worker's behaviour; the telemetry sent
  wire,                         \* the message on its way
  got,                          \* the task as the page understood it
  result,                       \* the result as the server understood it
  shown                         \* what the page is shown

vars == <<phase, task, frames, corruption, count, percent, wire, got, result, shown>>
inputVars == <<task, frames, corruption, count, percent>>

Frame(length) == [1..length -> 0..(Glyphs - 1)]

Init ==
  /\ task \in [id : Numbers, startFrame : Numbers]
  /\ \E length \in {DonutStringLength, DonutStringLength - 1} :
       frames \in [1..FramesPerBatch -> Frame(length)]
  /\ corruption \in Corruptions
  /\ count \in Numbers /\ percent \in {0, Byte - 1}
  /\ phase = "assign" /\ wire = << >> /\ got = << >>
  /\ result = Rejected /\ shown = << >>

\* RequestWork
Assign ==
  /\ phase = "assign" /\ phase' = "task"
  /\ wire' = EncodeRenderTask(task.id, task.startFrame,
                              (task.startFrame + FramesPerBatch - 1) % Word32)
  /\ UNCHANGED <<inputVars, got, result, shown>>

\* ws.onmessage and the Web Worker's onmessage of a page, or handleTask of a
\* harness worker that misbehaves.
OnTask ==
  /\ phase = "task" /\ wire[1] = MessageTypeRenderTask
  /\ phase' = "result"
  /\ got' = IF corruption = "None"
            THEN [id |-> getUint32(wire, 1), startFrame |-> getUint32(wire, 5),
                  endFrame |-> getUint32(wire, 9)]
            ELSE DecodeRenderTask(Tail(wire))
  /\ wire' = Mangle(encodeRenderResult(got'.id, frames), corruption, got'.id)
  /\ UNCHANGED <<inputVars, result, shown>>

\* ReadMessage, then HandleReceivedMessage.  The library counts the bytes of a
\* message as it travels against the read limit: one that is too long is stopped
\* there, unless it was compressed and gets through to the parser.
HandleReceivedMessage ==
  /\ phase = "result"
  /\ \/ /\ Len(wire) > maxIncomingMessageBytes \/ Len(wire) = 0
        /\ phase' = "closed" /\ UNCHANGED result
     \/ /\ Len(wire) > 0 /\ wire[1] = MessageTypeRenderResult
        /\ result' = NewRenderResult(Tail(wire))
        /\ phase' = IF result' = Rejected THEN "closed" ELSE "stored"
  /\ UNCHANGED <<inputVars, wire, got, shown>>

Broadcast ==
  /\ phase = "stored" /\ phase' = "broadcast"
  /\ wire' = EncodeFrameBroadcast(result.frames)
  /\ UNCHANGED <<inputVars, got, result, shown>>

OnBroadcast ==
  /\ phase = "broadcast" /\ wire[1] = MessageTypeFrameBroadcast
  /\ phase' = "played"
  /\ shown' = decodeFrames(Tail(wire))
  /\ UNCHANGED <<inputVars, wire, got, result>>

\* Both telemetry messages, and the page's display of them.
Telemetry ==
  /\ phase = "played" /\ phase' = "done"
  /\ got' = <<getUint32(EncodeClientCount(count), 1), EncodeBufferFullness(percent)[2]>>
  /\ UNCHANGED <<inputVars, wire, result, shown>>

Next ==
  Assign \/ OnTask \/ HandleReceivedMessage \/ Broadcast \/ OnBroadcast \/ Telemetry

Spec == Init /\ [][Next]_vars

----------------------------------------------------------------------------
(* Properties.                                                             *)

\* The server accepts exactly the results that have their full length: every
\* mangled one closes the connection, no honest one does (SetReadLimit,
\* NewRenderResult).
AcceptsExactlyWholeBatches ==
  /\ phase = "stored" => corruption \in {"None", "UnassignedID"}
  /\ phase = "closed" => corruption \notin {"None", "UnassignedID"}

\* Go and JavaScript agree on every field: the task the page is given and the
\* result the server files are those of the task assigned; only a worker that
\* lies about it answers under another id.
TaskSurvivesTheWire ==
  /\ phase = "result" =>
       /\ got.id = task.id /\ got.startFrame = task.startFrame
       /\ got.endFrame = (task.startFrame + FramesPerBatch - 1) % Word32
  /\ phase = "stored" => (result.id = task.id <=> corruption # "UnassignedID")
  /\ phase = "done" => got = <<count, percent>>

\* What was rendered in one page is what every page shows, glyph for glyph;
\* only an odd last column comes back as a space.
FramesSurviveTheWire ==
  phase = "played" =>
    /\ Len(shown) = FramesPerBatch
    /\ \A f \in 1..FramesPerBatch :
         shown[f] = IF Len(frames[f]) = DonutStringLength
                    THEN frames[f] ELSE Append(frames[f], Space)
=============================================================================
