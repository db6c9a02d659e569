----------------------------- MODULE WireProofs -----------------------------
(***************************************************************************)
(* Proofs about the codecs, for every size of byte, frame and batch, every *)
(* number that fits its field and every frame: what Go encodes JavaScript  *)
(* decodes and the other way round, and the server accepts a result        *)
(* exactly when it is whole.                                               *)
(***************************************************************************)
EXTENDS Wire, Remainders

----------------------------------------------------------------------------
(* Numbers.                                                                *)

LEMMA Sizes ==
  /\ Nibble \in Nat /\ Nibble > 1
  /\ Byte \in Nat \ {0} /\ Byte > 1 /\ Byte * Byte \in Nat \ {0}
  /\ Byte * Byte * Byte \in Nat \ {0}
  /\ Word32 \in Nat /\ Byte < Word32
  /\ FrameSize \in Nat \ {0} /\ FramesPerBatch \in Nat \ {0}
  /\ BatchSize \in Nat \ {0} /\ BatchSize = FrameSize * FramesPerBatch
  /\ Glyphs \in Nat /\ Glyphs <= Nibble /\ Space \in 0..(Glyphs - 1)
<1>1. Nibble \in Nat /\ Nibble > 1
  BY WireAssumption
<1>2. FrameSize \in Nat \ {0} /\ FramesPerBatch \in Nat \ {0}
  BY WireAssumption
<1>3. Glyphs \in Nat /\ Glyphs <= Nibble /\ Space \in 0..(Glyphs - 1)
  BY <1>1, WireAssumption
<1>4. BatchSize \in Nat \ {0} /\ BatchSize = FrameSize * FramesPerBatch
  BY <1>2 DEF BatchSize
<1>5. Byte \in Nat /\ Byte > 1
  <2>1. Nibble * Nibble >= Nibble
    BY <1>1
  <2> QED
    BY <1>1, <2>1 DEF Byte
<1>6. Byte * Byte \in Nat /\ Byte * Byte > Byte
  BY <1>5
<1> DEFINE square == Byte * Byte
           cube == square * Byte
<1>7. square \in Nat /\ square > Byte
  BY <1>6
<1> HIDE DEF square
<1>8. cube \in Nat /\ cube > Byte
  BY <1>5, <1>7
<1> HIDE DEF cube
<1>9. cube * Byte \in Nat /\ cube * Byte > Byte
  BY <1>5, <1>8
<1> QED
  BY <1>1, <1>2, <1>3, <1>4, <1>5, <1>7, <1>8, <1>9 DEF Word32, cube, square

\* Four bytes, the most significant first, give back the number they were made
\* of: binary.BigEndian on the server, shifts and DataView in the page.
LEMMA NumberSurvives ==
  ASSUME NEW n \in 0..(Word32 - 1)
  PROVE  /\ Uint32(PutUint32(n)) = n
         /\ \A k \in 1..4 : PutUint32(n)[k] \in Nat
         /\ Len(PutUint32(n)) = 4
<1> DEFINE B == Byte
           q1 == n \div B
           q2 == q1 \div B
           q3 == q2 \div B
<1>1. B \in Nat \ {0} /\ B * B \in Nat \ {0} /\ (B * B) * B \in Nat \ {0} /\ n \in Int
  BY Sizes
<1>2. q2 = n \div (B * B)
  BY <1>1, QuotientOfQuotient
<1>3. q3 = n \div (B * B * B)
  BY <1>1, <1>2, QuotientOfQuotient
<1> DEFINE cube == B * B * B
<1>4. /\ q1 \in Int /\ n % B \in 0..(B - 1) /\ n = B * q1 + (n % B)
  BY <1>1, Division
<1>5. /\ q2 \in Int /\ q1 % B \in 0..(B - 1) /\ q1 = B * q2 + (q1 % B)
  BY <1>1, <1>4, Division
<1>6. /\ q3 \in Int /\ q2 % B \in 0..(B - 1) /\ q2 = B * q3 + (q2 % B)
  BY <1>1, <1>5, Division
<1>7. q3 \in Nat /\ q3 < B
  <2>1. cube \in Nat \ {0} /\ n \div cube = q3
    BY <1>1, <1>3
  <2>2. n % cube \in 0..(cube - 1) /\ n = cube * q3 + (n % cube)
    BY <1>1, <2>1, Division
  <2>3. n < cube * B
    BY <1>1 DEF Word32
  <2> HIDE DEF cube, q3
  <2>4. cube * q3 \in Int /\ cube * B \in Int /\ cube * q3 < cube * B
    BY <1>1, <1>6, <2>1, <2>2, <2>3
  <2>5. q3 < B
    BY <1>1, <1>6, <2>1, <2>4, ScaleOrder
  <2>6. cube * (-1) = - cube /\ cube * q3 > cube * (-1)
    BY <1>1, <1>6, <2>1, <2>2
  <2>7. -1 < q3
    BY <1>1, <1>6, <2>1, <2>6, ScaleOrder
  <2> QED
    BY <1>6, <2>5, <2>7
<1>8. q3 % B = q3
  BY <1>1, <1>7, SmallRemainder
<1>9. PutUint32(n) = <<q3 % B, q2 % B, q1 % B, n % B>>
  BY <1>2, <1>3 DEF PutUint32
<1> HIDE DEF q1, q2, q3, B
<1>10. Uint32(PutUint32(n)) = ((q3 * B + (q2 % B)) * B + (q1 % B)) * B + (n % B)
  BY <1>8, <1>9 DEF Uint32, B
<1>11. q3 * B + (q2 % B) = q2
  BY <1>1, <1>6
<1>12. q2 * B + (q1 % B) = q1
  BY <1>1, <1>5
<1>13. q1 * B + (n % B) = n
  BY <1>1, <1>4
<1>14. Uint32(PutUint32(n)) = n
  BY <1>10, <1>11, <1>12, <1>13
<1>15. q3 % B \in Nat /\ q2 % B \in Nat /\ q1 % B \in Nat /\ n % B \in Nat
  BY <1>1, <1>4, <1>5, <1>6, <1>7, <1>8
<1> QED
  BY <1>9, <1>14, <1>15

----------------------------------------------------------------------------
(* Messages.                                                               *)

\* Concatenation, and cutting off what was put in front.
LEMMA Concatenation ==
  ASSUME NEW s \in Seq(Int), NEW t \in Seq(Int)
  PROVE  /\ s \o t \in Seq(Int) /\ Len(s \o t) = Len(s) + Len(t)
         /\ \A i \in 1..Len(s) : (s \o t)[i] = s[i]
         /\ \A i \in 1..Len(t) : (s \o t)[Len(s) + i] = t[i]
  OBVIOUS

LEMMA SameSequence ==
  ASSUME NEW s \in Seq(Int), NEW t \in Seq(Int), Len(s) = Len(t),
         \A i \in 1..Len(s) : s[i] = t[i]
  PROVE  s = t
<1>1. s = [i \in 1..Len(s) |-> s[i]] /\ t = [i \in 1..Len(t) |-> t[i]]
  OBVIOUS
<1> QED
  BY <1>1

LEMMA Associative ==
  ASSUME NEW s \in Seq(Int), NEW t \in Seq(Int), NEW u \in Seq(Int)
  PROVE  (s \o t) \o u = s \o (t \o u)
<1> DEFINE st == s \o t
           tu == t \o u
           a == st \o u
           b == s \o tu
<1>1. /\ st \in Seq(Int) /\ Len(st) = Len(s) + Len(t)
      /\ \A i \in 1..Len(s) : st[i] = s[i]
      /\ \A i \in 1..Len(t) : st[Len(s) + i] = t[i]
  BY Concatenation
<1>2. /\ tu \in Seq(Int) /\ Len(tu) = Len(t) + Len(u)
      /\ \A i \in 1..Len(t) : tu[i] = t[i]
      /\ \A i \in 1..Len(u) : tu[Len(t) + i] = u[i]
  BY Concatenation
<1> HIDE DEF st, tu
<1>3. /\ a \in Seq(Int) /\ Len(a) = Len(st) + Len(u)
      /\ \A i \in 1..Len(st) : a[i] = st[i]
      /\ \A i \in 1..Len(u) : a[Len(st) + i] = u[i]
  BY <1>1, Concatenation
<1>4. /\ b \in Seq(Int) /\ Len(b) = Len(s) + Len(tu)
      /\ \A i \in 1..Len(s) : b[i] = s[i]
      /\ \A i \in 1..Len(tu) : b[Len(s) + i] = tu[i]
  BY <1>2, Concatenation
<1> HIDE DEF a, b
<1>5. Len(s) \in Nat /\ Len(t) \in Nat /\ Len(u) \in Nat
  OBVIOUS
<1>6. ASSUME NEW i \in 1..Len(a) PROVE a[i] = b[i]
  <2>1. CASE i <= Len(s)
    BY <1>1, <1>3, <1>4, <1>5, <2>1
  <2>2. CASE i > Len(s) /\ i <= Len(s) + Len(t)
    <3> DEFINE k == i - Len(s)
    <3>1. k \in 1..Len(t) /\ k \in 1..Len(tu) /\ i \in 1..Len(st) /\ i = Len(s) + k
      BY <1>1, <1>2, <1>3, <1>5, <2>2
    <3> HIDE DEF k
    <3>2. a[i] = st[i] /\ st[i] = t[k] /\ b[i] = tu[k] /\ tu[k] = t[k]
      BY <1>1, <1>2, <1>3, <1>4, <3>1
    <3> QED
      BY <3>2
  <2>3. CASE i > Len(s) + Len(t)
    <3> DEFINE k == i - (Len(s) + Len(t))
    <3>1. /\ k \in 1..Len(u) /\ Len(t) + k \in 1..Len(tu)
          /\ i = Len(st) + k /\ i = Len(s) + (Len(t) + k)
      <4>1. Len(a) = Len(s) + Len(t) + Len(u)
        BY <1>1, <1>3, <1>5
      <4> QED
        BY <1>1, <1>2, <1>5, <2>3, <4>1
    <3> HIDE DEF k
    <3>2. a[i] = u[k]
      BY <1>3, <3>1
    <3>3. b[i] = tu[Len(t) + k]
      BY <1>4, <3>1
    <3>4. tu[Len(t) + k] = u[k]
      BY <1>2, <3>1
    <3> QED
      BY <3>2, <3>3, <3>4
  <2> QED
    BY <1>3, <1>5, <2>1, <2>2, <2>3
<1>7. Len(a) = Len(b)
  BY <1>1, <1>2, <1>3, <1>4, <1>5
<1>8. a = b
  BY <1>3, <1>4, <1>6, <1>7, SameSequence
<1> QED
  BY <1>8 DEF a, b, st, tu

LEMMA Suffix ==
  ASSUME NEW s \in Seq(Int), NEW t \in Seq(Int)
  PROVE  SubSeq(s \o t, Len(s) + 1, Len(s \o t)) = t
<1> DEFINE m == s \o t
           u == SubSeq(m, Len(s) + 1, Len(m))
<1>1. /\ m \in Seq(Int) /\ Len(m) = Len(s) + Len(t) /\ Len(s) \in Nat /\ Len(t) \in Nat
      /\ \A i \in 1..Len(t) : m[Len(s) + i] = t[i]
  BY Concatenation
<1> HIDE DEF m
<1>2. u \in Seq(Int) /\ Len(u) = Len(t) /\ \A i \in 1..Len(t) : u[i] = m[Len(s) + i]
  BY <1>1
<1> QED
  BY <1>1, <1>2 DEF m

LEMMA Section ==
  ASSUME NEW s \in Seq(Int), NEW start \in Nat, NEW n \in Nat, start + n <= Len(s)
  PROVE  /\ SubSeq(s, start + 1, start + n) \in Seq(Int)
         /\ Len(SubSeq(s, start + 1, start + n)) = n
         /\ \A i \in 1..n : SubSeq(s, start + 1, start + n)[i] = s[start + i]
<1> DEFINE a == start + 1
           b == start + n
           u == SubSeq(s, a, b)
<1>1. a \in Int /\ b \in Int /\ b - a + 1 = n /\ 1 <= a /\ b <= Len(s)
  OBVIOUS
<1>2. \A i \in 1..n : a + i - 1 = start + i
  OBVIOUS
<1> HIDE DEF a, b
<1>3. u = [i \in 1..(b - a + 1) |-> s[a + i - 1]]
  BY <1>1
<1>4. u = [i \in 1..n |-> s[start + i]]
  BY <1>1, <1>2, <1>3
<1>5. \A i \in 1..n : s[start + i] \in Int
  OBVIOUS
<1> HIDE DEF u
<1>6. u \in [1..n -> Int]
  BY <1>4, <1>5
<1>7. u \in Seq(Int) /\ Len(u) = n /\ \A i \in 1..n : u[i] = s[start + i]
  BY <1>4, <1>6
<1> QED
  BY <1>7 DEF u, a, b

LEMMA TailOfMessage ==
  ASSUME NEW x \in Int, NEW t \in Seq(Int)
  PROVE  /\ <<x>> \o t \in Seq(Int) /\ Tail(<<x>> \o t) = t
         /\ (<<x>> \o t)[1] = x /\ Len(<<x>> \o t) = 1 + Len(t)
<1>1. <<x>> \in Seq(Int) /\ Len(<<x>>) = 1 /\ <<x>>[1] = x
  OBVIOUS
<1> DEFINE m == <<x>> \o t
<1>2. /\ m \in Seq(Int) /\ Len(m) = 1 + Len(t) /\ m[1] = x
      /\ SubSeq(m, 2, Len(m)) = t
  BY <1>1, Concatenation, Suffix
<1> HIDE DEF m
<1>3. Tail(m) = SubSeq(m, 2, Len(m))
  BY <1>2
<1> QED
  BY <1>2, <1>3 DEF m

\* A number is read back wherever its four bytes stand.
LEMMA NumberAt ==
  ASSUME NEW n \in 0..(Word32 - 1), NEW s \in Seq(Int), NEW offset \in Nat,
         offset + 4 <= Len(s), \A k \in 1..4 : s[offset + k] = PutUint32(n)[k]
  PROVE  Uint32(SubSeq(s, offset + 1, offset + 4)) = n
<1> DEFINE u == SubSeq(s, offset + 1, offset + 4)
<1>1. \A k \in 1..4 : u[k] = s[offset + k]
  OBVIOUS
<1> HIDE DEF u
<1>2. /\ u[1] = PutUint32(n)[1] /\ u[2] = PutUint32(n)[2]
      /\ u[3] = PutUint32(n)[3] /\ u[4] = PutUint32(n)[4]
  BY <1>1
<1>3. Uint32(u) = Uint32(PutUint32(n))
  BY <1>2 DEF Uint32
<1> QED
  BY <1>3, NumberSurvives DEF u

LEMMA FourNumbers ==
  ASSUME NEW a \in Int, NEW b \in Int, NEW c \in Int, NEW d \in Int
  PROVE  <<a, b, c, d>> \in Seq(Int) /\ Len(<<a, b, c, d>>) = 4
  OBVIOUS

LEMMA NumberIsSeq ==
  ASSUME NEW n \in 0..(Word32 - 1)
  PROVE  PutUint32(n) \in Seq(Int) /\ Len(PutUint32(n)) = 4
<1> DEFINE a == (n \div (Byte * Byte * Byte)) % Byte
           b == (n \div (Byte * Byte)) % Byte
           c == (n \div Byte) % Byte
           d == n % Byte
<1>1. PutUint32(n) = <<a, b, c, d>>
  BY DEF PutUint32
<1>2. \A k \in 1..4 : PutUint32(n)[k] \in Int
  BY NumberSurvives
<1> HIDE DEF a, b, c, d
<1>3. a \in Int /\ b \in Int /\ c \in Int /\ d \in Int
  BY <1>1, <1>2
<1> QED
  BY <1>1, <1>3, FourNumbers

\* A render task arrives as it was sent, in a page (getUint32) and in a worker of
\* the harness (DecodeRenderTask).
LEMMA TaskSurvives ==
  ASSUME NEW a \in 0..(Word32 - 1), NEW b \in 0..(Word32 - 1), NEW c \in 0..(Word32 - 1)
  PROVE  LET m == EncodeRenderTask(a, b, c)
         IN  /\ m[1] = MessageTypeRenderTask
             /\ getUint32(m, 1) = a /\ getUint32(m, 5) = b /\ getUint32(m, 9) = c
             /\ DecodeRenderTask(Tail(m)) = [id |-> a, startFrame |-> b, endFrame |-> c]
<1> DEFINE pa == PutUint32(a)
           pb == PutUint32(b)
           pc == PutUint32(c)
           bc == pb \o pc
           body == pa \o bc
           m == <<MessageTypeRenderTask>> \o body
<1>1. /\ pa \in Seq(Int) /\ Len(pa) = 4 /\ pb \in Seq(Int) /\ Len(pb) = 4
      /\ pc \in Seq(Int) /\ Len(pc) = 4
  BY NumberIsSeq
<1>2. /\ MessageTypeRenderTask \in Int /\ <<MessageTypeRenderTask>> \in Seq(Int)
      /\ Len(<<MessageTypeRenderTask>>) = 1
  BY DEF MessageTypeRenderTask
<1> HIDE DEF pa, pb, pc
<1>3. EncodeRenderTask(a, b, c) = m
  <2> DEFINE tag == <<MessageTypeRenderTask>>
             ab == pa \o pb
  <2>1. tag \in Seq(Int) /\ ab \in Seq(Int)
    BY <1>1, <1>2
  <2> HIDE DEF tag
  <2>2. (tag \o pa) \o pb = tag \o ab
    BY <1>1, <2>1, Associative
  <2>3. ab \o pc = pa \o (pb \o pc)
    BY <1>1, Associative
  <2> HIDE DEF ab
  <2>4. (tag \o ab) \o pc = tag \o (ab \o pc)
    BY <1>1, <2>1, Associative
  <2> QED
    BY <2>2, <2>3, <2>4 DEF EncodeRenderTask, tag, pa, pb, pc
<1>4. /\ bc \in Seq(Int) /\ Len(bc) = 8
      /\ \A k \in 1..4 : bc[k] = pb[k]
      /\ \A k \in 1..4 : bc[4 + k] = pc[k]
  <2>1. /\ bc \in Seq(Int) /\ Len(bc) = Len(pb) + Len(pc)
        /\ \A k \in 1..Len(pb) : bc[k] = pb[k]
        /\ \A k \in 1..Len(pc) : bc[Len(pb) + k] = pc[k]
    BY <1>1, Concatenation
  <2> HIDE DEF bc
  <2> QED
    BY <1>1, <2>1
<1> HIDE DEF bc
<1>5. /\ body \in Seq(Int) /\ Len(body) = 12
      /\ \A k \in 1..4 : body[k] = pa[k]
      /\ \A k \in 1..8 : body[4 + k] = bc[k]
  <2>1. /\ body \in Seq(Int) /\ Len(body) = Len(pa) + Len(bc)
        /\ \A k \in 1..Len(pa) : body[k] = pa[k]
        /\ \A k \in 1..Len(bc) : body[Len(pa) + k] = bc[k]
    BY <1>1, <1>4, Concatenation
  <2> HIDE DEF body
  <2> QED
    BY <1>1, <1>4, <2>1
<1> HIDE DEF body
<1>6. /\ m \in Seq(Int) /\ Tail(m) = body /\ m[1] = MessageTypeRenderTask /\ Len(m) = 13
      /\ \A k \in 1..12 : m[1 + k] = body[k]
  <2>1. /\ m \in Seq(Int) /\ Tail(m) = body /\ m[1] = MessageTypeRenderTask
        /\ Len(m) = 1 + Len(body)
    BY <1>2, <1>5, TailOfMessage
  <2>2. \A k \in 1..Len(body) : m[Len(<<MessageTypeRenderTask>>) + k] = body[k]
    BY <1>2, <1>5, Concatenation
  <2> HIDE DEF m
  <2>3. 1 + Len(body) = 13
    BY <1>5
  <2>4. \A k \in 1..12 : m[1 + k] = body[k]
    BY <1>2, <1>5, <2>2
  <2> QED
    BY <2>1, <2>3, <2>4
<1> HIDE DEF m
<1>7. \A k \in 1..4 : body[0 + k] = pa[k] /\ body[4 + k] = pb[k] /\ body[8 + k] = pc[k]
  <2> SUFFICES ASSUME NEW k \in 1..4
               PROVE  body[0 + k] = pa[k] /\ body[4 + k] = pb[k] /\ body[8 + k] = pc[k]
    OBVIOUS
  <2>1. 0 + k = k /\ k \in 1..8 /\ 4 + k \in 1..8 /\ 8 + k = 4 + (4 + k)
    OBVIOUS
  <2>2. body[4 + (4 + k)] = bc[4 + k]
    BY <1>5, <2>1
  <2> QED
    BY <1>4, <1>5, <2>1, <2>2
<1>8. \A k \in 1..4 : m[1 + k] = pa[k] /\ m[5 + k] = pb[k] /\ m[9 + k] = pc[k]
  <2> SUFFICES ASSUME NEW k \in 1..4
               PROVE  m[1 + k] = pa[k] /\ m[5 + k] = pb[k] /\ m[9 + k] = pc[k]
    OBVIOUS
  <2>1. /\ 0 + k \in 1..12 /\ 4 + k \in 1..12 /\ 8 + k \in 1..12
        /\ 1 + (0 + k) = 1 + k /\ 1 + (4 + k) = 5 + k /\ 1 + (8 + k) = 9 + k
    OBVIOUS
  <2>2. m[1 + (0 + k)] = body[0 + k] /\ m[1 + (4 + k)] = body[4 + k]
        /\ m[1 + (8 + k)] = body[8 + k]
    BY <1>6, <2>1
  <2> QED
    BY <1>7, <2>1, <2>2
<1>9. /\ Uint32(SubSeq(m, 1 + 1, 1 + 4)) = a /\ Uint32(SubSeq(m, 5 + 1, 5 + 4)) = b
      /\ Uint32(SubSeq(m, 9 + 1, 9 + 4)) = c
  <2>1. 1 + 4 <= Len(m) /\ 5 + 4 <= Len(m) /\ 9 + 4 <= Len(m) /\ {1, 5, 9} \subseteq Nat
    BY <1>6
  <2> QED
    BY <1>6, <1>8, <2>1, NumberAt, ZenonT(40) DEF pa, pb, pc
<1>10. /\ Uint32(SubSeq(body, 0 + 1, 0 + 4)) = a
       /\ Uint32(SubSeq(body, 4 + 1, 4 + 4)) = b
       /\ Uint32(SubSeq(body, 8 + 1, 8 + 4)) = c
  <2>1. 0 + 4 <= Len(body) /\ 4 + 4 <= Len(body) /\ 8 + 4 <= Len(body) /\ {0, 4, 8} \subseteq Nat
    BY <1>5
  <2> QED
    BY <1>5, <1>7, <2>1, NumberAt, ZenonT(40) DEF pa, pb, pc
<1>11. DecodeRenderTask(body) = [id |-> a, startFrame |-> b, endFrame |-> c]
  BY <1>10 DEF DecodeRenderTask
<1> QED
  BY <1>3, <1>6, <1>9, <1>11 DEF getUint32

\* The length of a result, its id and its frames, from the server's side.
LEMMA ResultSurvives ==
  ASSUME NEW n \in 0..(Word32 - 1), NEW body \in Seq(Int), NEW m,
         m = <<MessageTypeRenderResult>> \o (PutUint32(n) \o body)
  PROVE  /\ m \in Seq(Int) /\ m[1] = MessageTypeRenderResult /\ Len(m) = 5 + Len(body)
         /\ SubSeq(m, 6, Len(m)) = body
         /\ Len(body) = BatchSize =>
              NewRenderResult(Tail(m)) = [id |-> n, frames |-> body]
<1> DEFINE p == PutUint32(n)
           data == p \o body
<1>1. p \in Seq(Int) /\ Len(p) = 4
  BY NumberIsSeq
<1> HIDE DEF p
<1>2. /\ data \in Seq(Int) /\ Len(data) = 4 + Len(body)
      /\ \A k \in 1..4 : data[k] = p[k]
      /\ SubSeq(data, 5, Len(data)) = body
  <2>1. /\ data \in Seq(Int) /\ Len(data) = Len(p) + Len(body)
        /\ \A k \in 1..Len(p) : data[k] = p[k]
    BY <1>1, Concatenation
  <2>2. SubSeq(data, Len(p) + 1, Len(data)) = body
    BY <1>1, Suffix
  <2> HIDE DEF data
  <2> QED
    BY <1>1, <2>1, <2>2
<1>3. m = <<MessageTypeRenderResult>> \o data
  BY DEF p
<1> HIDE DEF data
<1>4. /\ m \in Seq(Int) /\ Tail(m) = data
      /\ m[1] = MessageTypeRenderResult /\ Len(m) = 1 + Len(data)
  <2>1. MessageTypeRenderResult \in Int
    BY DEF MessageTypeRenderResult
  <2> QED
    BY <1>2, <1>3, <2>1, TailOfMessage
<1>5. SubSeq(m, 6, Len(m)) = SubSeq(data, 5, Len(data))
  <2> DEFINE tag == <<MessageTypeRenderResult>>
  <2>1. tag \in Seq(Int) /\ Len(tag) = 1
    BY DEF MessageTypeRenderResult
  <2> HIDE DEF tag
  <2> DEFINE header == tag \o p
  <2>2. header \in Seq(Int) /\ Len(header) = Len(tag) + Len(p)
        /\ tag \o (p \o body) = header \o body
    BY <1>1, <2>1, Concatenation, Associative
  <2>3. m = header \o body
    BY <1>3, <2>2 DEF tag, data
  <2> HIDE DEF header
  <2>4. SubSeq(m, Len(header) + 1, Len(m)) = body
    BY <2>2, <2>3, Suffix
  <2>5. Len(header) + 1 = 6
    BY <1>1, <2>1, <2>2
  <2> QED
    BY <1>2, <2>4, <2>5
<1>6. ASSUME Len(body) = BatchSize
      PROVE  NewRenderResult(data) = [id |-> n, frames |-> body]
  <2>1. Uint32(data) = n
    <3>1. /\ data[1] = PutUint32(n)[1] /\ data[2] = PutUint32(n)[2]
          /\ data[3] = PutUint32(n)[3] /\ data[4] = PutUint32(n)[4]
      BY <1>2 DEF p
    <3> QED
      BY <3>1, NumberSurvives DEF Uint32
  <2>2. Len(data) = 4 + BatchSize /\ ~ (Len(data) < 4)
    BY <1>2, <1>6, Sizes
  <2> QED
    BY <1>2, <2>1, <2>2 DEF NewRenderResult
<1>7. Len(m) = 5 + Len(body)
  BY <1>2, <1>4
<1> QED
  BY <1>2, <1>4, <1>5, <1>6, <1>7, Zenon

----------------------------------------------------------------------------
(* Frames.                                                                 *)

\* A batch as a worker renders it: all frames are equally long, and may lack the
\* last column.
Lengths == {DonutStringLength, DonutStringLength - 1}
IsBatch(rendered) == \E length \in Lengths : rendered \in [1..FramesPerBatch -> Frame(length)]

\* The glyph in column c, with the odd last one padded.
Glyph(frame, c) == IF c <= Len(frame) THEN frame[c] ELSE Space

LEMMA FunctionIsSeq ==
  ASSUME NEW S, NEW n \in Nat, NEW f \in [1..n -> S]
  PROVE  f \in Seq(S) /\ Len(f) = n
  OBVIOUS

LEMMA BatchTypes ==
  ASSUME NEW rendered, IsBatch(rendered)
  PROVE  /\ rendered \in [1..FramesPerBatch -> Seq(0..(Glyphs - 1))]
         /\ Len(rendered) = FramesPerBatch
         /\ \E length \in Lengths : \A f \in 1..FramesPerBatch : Len(rendered[f]) = length
<1>1. PICK length \in Lengths : rendered \in [1..FramesPerBatch -> Frame(length)]
  BY DEF IsBatch
<1>2. length \in Nat
  BY <1>1, Sizes DEF Lengths, DonutStringLength
<1>3. \A f \in 1..FramesPerBatch :
        rendered[f] \in Seq(0..(Glyphs - 1)) /\ Len(rendered[f]) = length
  <2> SUFFICES ASSUME NEW f \in 1..FramesPerBatch
               PROVE  rendered[f] \in Seq(0..(Glyphs - 1)) /\ Len(rendered[f]) = length
    OBVIOUS
  <2>1. rendered[f] \in [1..length -> 0..(Glyphs - 1)]
    BY <1>1 DEF Frame
  <2> QED
    BY <1>2, <2>1, FunctionIsSeq, Zenon
<1>4. Len(rendered) = FramesPerBatch
  BY <1>1, Sizes, FunctionIsSeq
<1> QED
  BY <1>1, <1>3, <1>4

\* Every column of a frame holds a glyph.
LEMMA GlyphType ==
  ASSUME NEW rendered, IsBatch(rendered), NEW f \in 1..FramesPerBatch,
         NEW c \in 1..DonutStringLength
  PROVE  Glyph(rendered[f], c) \in 0..(Glyphs - 1)
<1>1. rendered[f] \in Seq(0..(Glyphs - 1))
  BY BatchTypes
<1>2. CASE c <= Len(rendered[f])
  <2>1. c \in 1..Len(rendered[f])
    BY <1>1, <1>2, Sizes DEF DonutStringLength
  <2>2. rendered[f][c] \in 0..(Glyphs - 1)
    <3> DEFINE s == rendered[f]
               S == 0..(Glyphs - 1)
    <3>1. s \in Seq(S) /\ c \in 1..Len(s)
      BY <1>1, <2>1
    <3> HIDE DEF s, S
    <3>2. s[c] \in S
      BY <3>1
    <3> QED
      BY <3>2 DEF s, S
  <2> QED
    BY <1>2, <2>2 DEF Glyph
<1>3. CASE ~ (c <= Len(rendered[f]))
  BY <1>3, Sizes DEF Glyph
<1> QED
  BY <1>2, <1>3

\* The page packs two columns into each byte, frame after frame.
LEMMA Packed ==
  ASSUME NEW rendered, IsBatch(rendered)
  PROVE  /\ PackAll(rendered) \in Seq(Int) /\ Len(PackAll(rendered)) = BatchSize
         /\ \A f \in 1..FramesPerBatch, k \in 1..FrameSize :
              PackAll(rendered)[FrameSize * (f - 1) + k]
                = Nibble * Glyph(rendered[f], 2 * k - 1) + Glyph(rendered[f], 2 * k)
<1> DEFINE width == (Len(rendered[1]) + 1) \div 2
           bytes == [j \in 1..BatchSize |->
                      Pack(rendered[((j - 1) \div FrameSize) + 1])[((j - 1) % FrameSize) + 1]]
<1>1. PICK length \in Lengths : \A f \in 1..FramesPerBatch : Len(rendered[f]) = length
  BY BatchTypes
<1>2. length \in Nat /\ (length + 1) \div 2 = FrameSize /\ 2 * FrameSize - 1 <= length
      /\ length <= 2 * FrameSize
  BY <1>1, Sizes DEF Lengths, DonutStringLength
<1>3. 1 \in 1..FramesPerBatch
  BY Sizes
<1>4. width = FrameSize
  BY <1>1, <1>2, <1>3
<1>5. PackAll(rendered) = bytes
  BY <1>4, BatchTypes, Sizes DEF PackAll
<1>6. ASSUME NEW f \in 1..FramesPerBatch, NEW k \in 1..FrameSize
      PROVE  Pack(rendered[f])[k]
               = Nibble * Glyph(rendered[f], 2 * k - 1) + Glyph(rendered[f], 2 * k)
  <2>1. Len(rendered[f]) = length
    BY <1>1
  <2>2. k \in 1..((Len(rendered[f]) + 1) \div 2) /\ 2 * k - 1 <= Len(rendered[f])
    BY <1>2, <2>1, Sizes
  <2>3. Pack(rendered[f])[k] = rendered[f][2 * k - 1] * Nibble + Glyph(rendered[f], 2 * k)
    BY <2>2 DEF Pack, Glyph
  <2>4. rendered[f][2 * k - 1] = Glyph(rendered[f], 2 * k - 1)
    BY <2>2 DEF Glyph
  <2>5. 2 * k - 1 \in 1..DonutStringLength
    BY Sizes DEF DonutStringLength
  <2>6. Glyph(rendered[f], 2 * k - 1) \in Int
    BY <2>5, GlyphType
  <2> QED
    BY <2>3, <2>4, <2>6, Sizes
<1>7. ASSUME NEW f \in 1..FramesPerBatch, NEW k \in 1..FrameSize
      PROVE  Nibble * Glyph(rendered[f], 2 * k - 1) + Glyph(rendered[f], 2 * k) \in Int
  <2>1. 2 * k - 1 \in 1..DonutStringLength /\ 2 * k \in 1..DonutStringLength
    BY Sizes DEF DonutStringLength
  <2>2. Glyph(rendered[f], 2 * k - 1) \in Int /\ Glyph(rendered[f], 2 * k) \in Int
    BY <2>1, GlyphType
  <2> QED
    BY <2>2, Sizes
<1>8. ASSUME NEW j \in 1..BatchSize PROVE bytes[j] \in Int
  <2> DEFINE q == (j - 1) \div FrameSize
             r == (j - 1) % FrameSize
  <2>1. j - 1 \in 0..(FrameSize * FramesPerBatch - 1) /\ j - 1 \in Int
    BY Sizes
  <2>2. q \in 0..(FramesPerBatch - 1) /\ r \in 0..(FrameSize - 1)
    BY <2>1, Sizes, BlockOf, Division
  <2>3. bytes[j] = Pack(rendered[q + 1])[r + 1]
    OBVIOUS
  <2> HIDE DEF q, r, bytes
  <2>4. q + 1 \in 1..FramesPerBatch /\ r + 1 \in 1..FrameSize
    BY <2>2, Sizes
  <2> QED
    BY <1>6, <1>7, <2>3, <2>4
<1>9. bytes \in Seq(Int) /\ Len(bytes) = BatchSize
  <2>1. bytes \in [1..BatchSize -> Int]
    BY <1>8
  <2> HIDE DEF bytes
  <2> QED
    BY <2>1, Sizes, FunctionIsSeq
<1>10. ASSUME NEW f \in 1..FramesPerBatch, NEW k \in 1..FrameSize
       PROVE  bytes[FrameSize * (f - 1) + k] = Pack(rendered[f])[k]
  <2> DEFINE j == FrameSize * (f - 1) + k
  <2>1. f - 1 \in 0..(FramesPerBatch - 1) /\ f - 1 \in Int /\ k - 1 \in 0..(FrameSize - 1)
    BY Sizes
  <2>2. FrameSize * (f - 1) + (k - 1) \in 0..(BatchSize - 1)
    BY <2>1, Sizes, PlaceInBlock
  <2>3. FrameSize * (f - 1) \in Int
    BY <2>1, Sizes
  <2>4. j \in 1..BatchSize /\ j - 1 = FrameSize * (f - 1) + (k - 1)
    BY <2>2, <2>3, Sizes
  <2>5. (j - 1) \div FrameSize = f - 1 /\ (j - 1) % FrameSize = k - 1
    <3>1. /\ (FrameSize * (f - 1) + (k - 1)) % FrameSize = k - 1
          /\ (FrameSize * (f - 1) + (k - 1)) \div FrameSize = f - 1
      BY <2>1, Sizes, DivisionUnique, Zenon
    <3> QED
      BY <2>4, <3>1
  <2>6. ((j - 1) \div FrameSize) + 1 = f /\ ((j - 1) % FrameSize) + 1 = k
    BY <2>5
  <2> QED
    BY <2>4, <2>6
<1> HIDE DEF bytes
<1> QED
  BY <1>5, <1>6, <1>9, <1>10, Zenon

\* The characters decodeFrames takes out of the bytes, before it cuts them.
Chars(bytes) ==
  [j \in 1..(2 * Len(bytes)) |->
     LET byte == bytes[(j + 1) \div 2]
     IN  IF j % 2 = 1 THEN byte \div Nibble ELSE byte % Nibble]

\* They are the columns of the frames, one frame after another.
LEMMA Unpacked ==
  ASSUME NEW rendered, IsBatch(rendered), NEW f \in 1..FramesPerBatch,
         NEW c \in 1..DonutStringLength
  PROVE  /\ (f - 1) * DonutStringLength + c \in 1..(2 * BatchSize)
         /\ Chars(PackAll(rendered))[(f - 1) * DonutStringLength + c]
              = Glyph(rendered[f], c)
<1> DEFINE bytes == PackAll(rendered)
           j == (f - 1) * DonutStringLength + c
           k == (c + 1) \div 2
           base == FrameSize * (f - 1)
           high == Glyph(rendered[f], 2 * k - 1)
           low == Glyph(rendered[f], 2 * k)
<1>1. k \in 1..FrameSize /\ (c % 2 = 1 => c = 2 * k - 1) /\ (c % 2 # 1 => c = 2 * k)
  BY Sizes DEF DonutStringLength
<1>2. f - 1 \in 0..(FramesPerBatch - 1) /\ base \in Nat /\ base + FrameSize <= BatchSize
  <2>1. f - 1 \in 0..(FramesPerBatch - 1) /\ FrameSize - 1 \in 0..(FrameSize - 1)
    BY Sizes
  <2>2. base + 0 \in 0..(BatchSize - 1) /\ base + (FrameSize - 1) \in 0..(BatchSize - 1)
    <3>1. 0 \in 0..(FrameSize - 1)
      BY Sizes
    <3> QED
      BY <2>1, <3>1, Sizes, PlaceInBlock
  <2>3. base \in Int
    BY <2>1, Sizes
  <2> QED
    BY <2>1, <2>2, <2>3, Sizes
<1>3. j = 2 * base + c
  <2>1. (f - 1) * DonutStringLength = 2 * base
    BY Sizes DEF DonutStringLength
  <2> QED
    BY <2>1
<1> HIDE DEF base, k, j
<1>4. c \in 1..(2 * FrameSize)
  BY Sizes DEF DonutStringLength
<1>5. j \in 1..(2 * BatchSize) /\ (j % 2 = 1 <=> c % 2 = 1)
  BY <1>2, <1>3, <1>4, Sizes
<1>6. (j + 1) \div 2 = base + k
  BY <1>2, <1>3, <1>4 DEF k
<1>7. Len(bytes) = BatchSize /\ bytes[base + k] = Nibble * high + low
  BY <1>1, Packed DEF base
<1>8. high \in 0..(Glyphs - 1) /\ low \in 0..(Glyphs - 1)
  <2>1. 2 * k - 1 \in 1..DonutStringLength /\ 2 * k \in 1..DonutStringLength
    BY <1>1, Sizes DEF DonutStringLength
  <2> QED
    BY <2>1, GlyphType
<1>9. Chars(bytes)[j] = IF j % 2 = 1 THEN bytes[base + k] \div Nibble
                                     ELSE bytes[base + k] % Nibble
  BY <1>5, <1>6, <1>7 DEF Chars
<1> HIDE DEF high, low, bytes
<1>10. (Nibble * high + low) \div Nibble = high /\ (Nibble * high + low) % Nibble = low
  <2>1. Nibble \in Nat \ {0} /\ high \in Int /\ low \in 0..(Nibble - 1)
    BY <1>8, Sizes
  <2> QED
    BY <2>1, DivisionUnique
<1>11. Chars(bytes)[j] = IF c % 2 = 1 THEN high ELSE low
  BY <1>5, <1>7, <1>9, <1>10
<1>12. Chars(bytes)[j] = Glyph(rendered[f], c)
  BY <1>1, <1>11 DEF high, low
<1> QED
  BY <1>5, <1>12 DEF j, bytes

\* What one page packs every page unpacks: decodeFrames finds as many frames as
\* there were, throws at no byte, and gives back every glyph.
LEMMA FramesSurvive ==
  ASSUME NEW rendered, IsBatch(rendered)
  PROVE  LET decoded == decodeFrames(PackAll(rendered))
         IN  /\ Len(decoded) = FramesPerBatch
             /\ \A f \in 1..FramesPerBatch :
                  decoded[f] = IF Len(rendered[f]) = DonutStringLength
                               THEN rendered[f] ELSE Append(rendered[f], Space)
<1> DEFINE bytes == PackAll(rendered)
           chars == Chars(bytes)
           size == DonutStringLength
           decoded == decodeFrames(bytes)
<1>1. bytes \in Seq(Int) /\ Len(bytes) = BatchSize
  BY Packed
<1> HIDE DEF bytes
<1>2. size \in Nat \ {0} /\ 2 * BatchSize = size * FramesPerBatch
  BY Sizes DEF DonutStringLength
<1>3. ASSUME NEW j \in 1..(2 * BatchSize) PROVE chars[j] \in 0..(Glyphs - 1)
  <2> DEFINE q == (j - 1) \div size
             c == ((j - 1) % size) + 1
  <2>1. j - 1 \in 0..(size * FramesPerBatch - 1) /\ j - 1 \in Int
    BY <1>2, Sizes
  <2>2. q \in 0..(FramesPerBatch - 1)
    BY <1>2, <2>1, Sizes, BlockOf
  <2>3. (j - 1) % size \in 0..(size - 1) /\ j - 1 = size * q + ((j - 1) % size)
    BY <1>2, <2>1, Division
  <2> HIDE DEF q
  <2>4. c \in 1..size
    BY <1>2, <2>3
  <2>5. j = ((q + 1) - 1) * size + c /\ q + 1 \in 1..FramesPerBatch
    <3>1. (q + 1) - 1 = q /\ q * size = size * q /\ size * q \in Int
      BY <1>2, <2>2, Sizes
    <3>2. ((q + 1) - 1) * size = size * q
      BY <3>1
    <3> QED
      BY <2>2, <2>3, <3>1, <3>2, Sizes
  <2> HIDE DEF c
  <2>6. chars[((q + 1) - 1) * size + c] = Glyph(rendered[q + 1], c)
    BY <2>4, <2>5, Unpacked DEF bytes
  <2> QED
    BY <2>4, <2>5, <2>6, GlyphType
<1>4. chars \in Seq(Int) /\ Len(chars) = 2 * BatchSize
  <2>1. chars = [j \in 1..(2 * BatchSize) |-> chars[j]]
    BY <1>1 DEF Chars
  <2> HIDE DEF chars
  <2>2. \A j \in 1..(2 * BatchSize) : chars[j] \in Int
    BY <1>3
  <2>3. chars \in [1..(2 * BatchSize) -> Int]
    BY <2>1, <2>2
  <2>4. 2 * BatchSize \in Nat
    BY Sizes
  <2> QED
    BY <2>3, <2>4, FunctionIsSeq
<1>5. Len(chars) \div size = FramesPerBatch /\ Len(chars) % size = 0
  <2>1. FramesPerBatch \in Int /\ 0 \in 0..(size - 1)
    BY <1>2, Sizes
  <2>2. /\ (size * FramesPerBatch + 0) % size = 0
        /\ (size * FramesPerBatch + 0) \div size = FramesPerBatch
    BY <1>2, <2>1, DivisionUnique, Zenon
  <2>3. size * FramesPerBatch + 0 = Len(chars)
    BY <1>2, <1>4, Sizes
  <2> QED
    BY <2>2, <2>3
<1>6. ~ \E j \in 1..Len(chars) : chars[j] >= Glyphs
  BY <1>3, <1>4, Sizes
<1>7. decoded = [f \in 1..FramesPerBatch |->
                   SubSeq(chars, (f - 1) * size + 1,
                          IF f <= FramesPerBatch THEN f * size ELSE Len(chars))]
  <2> DEFINE whole == Len(chars) \div size
             rest == IF Len(chars) % size = 0 THEN 0 ELSE 1
  <2>1. decoded = IF \E j \in 1..Len(chars) : chars[j] >= Glyphs THEN << >>
                  ELSE [f \in 1..(whole + rest) |->
                          SubSeq(chars, (f - 1) * size + 1,
                                 IF f <= whole THEN f * size ELSE Len(chars))]
    BY DEF decodeFrames, Chars
  <2>2. whole = FramesPerBatch /\ whole + rest = FramesPerBatch
    BY <1>5, Sizes
  <2> HIDE DEF chars, decoded, whole, rest
  <2> QED
    BY <1>6, <2>1, <2>2
<1>8. Len(decoded) = FramesPerBatch
  BY <1>7, Sizes
<1> HIDE DEF chars
<1>9. ASSUME NEW f \in 1..FramesPerBatch
      PROVE  decoded[f] = IF Len(rendered[f]) = size
                          THEN rendered[f] ELSE Append(rendered[f], Space)
  <2> DEFINE u == SubSeq(chars, (f - 1) * size + 1, f * size)
             padded == IF Len(rendered[f]) = size
                       THEN rendered[f] ELSE Append(rendered[f], Space)
             base == (f - 1) * size
  <2>1. f - 1 \in 0..(FramesPerBatch - 1) /\ 0 \in 0..(size - 1) /\ size - 1 \in 0..(size - 1)
    BY <1>2, Sizes
  <2>2. /\ size * (f - 1) + 0 \in 0..(size * FramesPerBatch - 1)
        /\ size * (f - 1) + (size - 1) \in 0..(size * FramesPerBatch - 1)
    BY <1>2, <2>1, Sizes, PlaceInBlock
  <2>3. base = size * (f - 1) /\ f * size = base + size /\ base \in Int
    BY <1>2, <2>1
  <2> HIDE DEF base
  <2>4. base \in Nat /\ base + size <= Len(chars)
    BY <1>2, <1>4, <2>2, <2>3, Sizes
  <2>5. u = SubSeq(chars, base + 1, base + size)
    BY <2>3 DEF base
  <2>6. u \in Seq(Int) /\ Len(u) = size /\ \A c \in 1..size : u[c] = chars[base + c]
    <3>1. size \in Nat
      BY <1>2
    <3> HIDE DEF u, size
    <3> QED
      BY <1>4, <2>4, <2>5, <3>1, Section
  <2> HIDE DEF u
  <2>7. \A c \in 1..size : u[c] = Glyph(rendered[f], c)
    BY <2>6, Unpacked DEF base, chars, bytes
  <2>8. padded \in Seq(Int) /\ Len(padded) = size
        /\ \A c \in 1..size : padded[c] = Glyph(rendered[f], c)
    <3>1. rendered[f] \in Seq(0..(Glyphs - 1)) /\ Len(rendered[f]) \in {size, size - 1}
      BY BatchTypes DEF Lengths
    <3>2. rendered[f] \in Seq(Int) /\ Space \in Int
      BY <3>1, Sizes
    <3> QED
      BY <1>2, <3>1, <3>2 DEF Glyph
  <2> HIDE DEF padded
  <2>9. u = padded
    BY <2>6, <2>7, <2>8, SameSequence
  <2>10. decoded[f] = u
    <3>1. f <= FramesPerBatch
      BY Sizes
    <3> HIDE DEF decoded
    <3>2. decoded[f] = SubSeq(chars, (f - 1) * size + 1,
                              IF f <= FramesPerBatch THEN f * size ELSE Len(chars))
      BY <1>7, Zenon
    <3> QED
      BY <3>1, <3>2, Zenon DEF u
  <2> QED
    BY <2>9, <2>10 DEF padded
<1> QED
  BY <1>8, <1>9 DEF bytes

----------------------------------------------------------------------------
(* The task, there and back.                                               *)

endFrame == (task.startFrame + FramesPerBatch - 1) % Word32

\* The corruptions that keep a result whole, and the id it is sent under.
Whole == {"None", "UnassignedID"}
answerID == IF corruption = "UnassignedID" THEN (task.id + Byte) % Word32 ELSE task.id

InputInv ==
  /\ task \in [id : Numbers, startFrame : Numbers] /\ count \in Numbers
  /\ IsBatch(frames) /\ corruption \in Corruptions

\* In each phase the message on its way, or what was understood of it, is a
\* function of the inputs.
PhaseInv ==
  /\ phase \in {"assign", "task", "result", "stored", "closed", "broadcast",
                "played", "done"}
  /\ phase = "task" => wire = EncodeRenderTask(task.id, task.startFrame, endFrame)
  /\ phase = "result" =>
       /\ got = [id |-> task.id, startFrame |-> task.startFrame, endFrame |-> endFrame]
       /\ wire = Mangle(encodeRenderResult(task.id, frames), corruption, task.id)
  /\ phase = "stored" =>
       corruption \in Whole /\ result = [id |-> answerID, frames |-> PackAll(frames)]
  /\ phase = "closed" => corruption \notin Whole
  /\ phase = "broadcast" => wire = EncodeFrameBroadcast(PackAll(frames))
  /\ phase = "done" => got = <<count, percent>>

Inv == InputInv /\ PhaseInv /\ FramesSurviveTheWire

LEMMA Fields ==
  ASSUME InputInv
  PROVE  /\ task.id \in 0..(Word32 - 1) /\ task.startFrame \in 0..(Word32 - 1)
         /\ endFrame \in 0..(Word32 - 1) /\ answerID \in 0..(Word32 - 1)
         /\ count \in 0..(Word32 - 1)
         /\ answerID = task.id <=> corruption # "UnassignedID"
<1>1. task.id \in 0..(Word32 - 1) /\ task.startFrame \in 0..(Word32 - 1)
      /\ count \in 0..(Word32 - 1)
  BY NumbersAssumption DEF InputInv
<1>2. Word32 \in Nat \ {0} /\ Byte \in Nat \ {0} /\ Byte < Word32
  BY Sizes
<1>3. task.startFrame + FramesPerBatch - 1 \in Int /\ task.id + Byte \in Int /\ task.id \in Int
  BY <1>1, <1>2, Sizes
<1>4. endFrame \in 0..(Word32 - 1)
  BY <1>2, <1>3, Division DEF endFrame
<1>5. (task.id + Byte) % Word32 \in 0..(Word32 - 1)
  BY <1>2, <1>3, Division
<1>6. (task.id + Byte) % Word32 # task.id
  <2> DEFINE x == task.id
             y == task.id + Byte
  <2>1. x \in Nat /\ x < Word32 /\ y \in Int /\ x \in Int /\ x < y /\ y < x + Word32
    BY <1>1, <1>2
  <2> HIDE DEF x, y
  <2>2. x % Word32 # y % Word32
    BY <1>2, <2>1, RemaindersDiffer
  <2>3. x % Word32 = x
    BY <1>2, <2>1, SmallRemainder
  <2> QED
    BY <2>2, <2>3 DEF x, y
<1> QED
  BY <1>1, <1>4, <1>5, <1>6 DEF answerID

\* What the page sends is what the Go encoder would send.
LEMMA PageEncodesAsServer ==
  ASSUME NEW n \in 0..(Word32 - 1), NEW rendered, IsBatch(rendered)
  PROVE  encodeRenderResult(n, rendered)
           = <<MessageTypeRenderResult>> \o (PutUint32(n) \o PackAll(rendered))
<1> DEFINE a == (n \div (Byte * Byte * Byte)) % Byte
           b == (n \div (Byte * Byte)) % Byte
           c == (n \div Byte) % Byte
           d == n % Byte
           body == PackAll(rendered)
           tag == MessageTypeRenderResult
<1>1. PutUint32(n) = <<a, b, c, d>> /\ PutUint32(n) \in Seq(Int)
  BY NumberIsSeq DEF PutUint32
<1>2. encodeRenderResult(n, rendered) = <<tag, a, b, c, d>> \o body
  BY DEF encodeRenderResult
<1> HIDE DEF a, b, c, d
<1>3. <<tag, a, b, c, d>> = <<tag>> \o <<a, b, c, d>>
  OBVIOUS
<1>4. <<tag>> \in Seq(Int) /\ body \in Seq(Int)
  BY Packed DEF MessageTypeRenderResult
<1> HIDE DEF body
<1>5. (<<tag>> \o PutUint32(n)) \o body = <<tag>> \o (PutUint32(n) \o body)
  BY <1>1, <1>4, Associative
<1> QED
  BY <1>1, <1>2, <1>3, <1>5 DEF body

\* A worker of the harness that keeps its result whole sends one under answerID;
\* any other sends one of a length the server refuses.
LEMMA Mangled ==
  ASSUME InputInv
  PROVE  LET m == Mangle(encodeRenderResult(task.id, frames), corruption, task.id)
         IN  /\ corruption \in Whole =>
                  m = <<MessageTypeRenderResult>> \o (PutUint32(answerID) \o PackAll(frames))
             /\ corruption \notin Whole =>
                  /\ m \in Seq(Int) /\ Len(m) > 0 /\ m[1] = MessageTypeRenderResult
                  /\ Len(m) # 5 + BatchSize
<1> DEFINE honest == encodeRenderResult(task.id, frames)
           body == PackAll(frames)
           tag == MessageTypeRenderResult
           m == Mangle(honest, corruption, task.id)
<1>1. body \in Seq(Int) /\ Len(body) = BatchSize
  BY Packed DEF InputInv
<1>2. honest = <<tag>> \o (PutUint32(task.id) \o body)
  BY Fields, PageEncodesAsServer DEF InputInv
<1> HIDE DEF honest, body
<1>3. /\ honest \in Seq(Int) /\ Len(honest) = 5 + BatchSize /\ honest[1] = tag
      /\ SubSeq(honest, 6, Len(honest)) = body
  BY <1>1, <1>2, Fields, ResultSurvives
<1>4. BatchSize \in Nat \ {0} /\ tag \in Int /\ Byte - 1 \in Int
  BY Sizes DEF MessageTypeRenderResult
<1>5. CASE corruption = "None"
  BY <1>2, <1>5 DEF Mangle, Whole, answerID, honest, body
<1>6. CASE corruption = "UnassignedID"
  <2>1. m = EncodeRenderResult((task.id + Byte) % Word32, body)
    BY <1>3, <1>6 DEF Mangle
  <2>2. m = <<tag>> \o PutUint32(answerID) \o body
    BY <1>6, <2>1 DEF EncodeRenderResult, answerID
  <2>3. PutUint32(answerID) \in Seq(Int) /\ <<tag>> \in Seq(Int)
    BY <1>4, Fields, NumberIsSeq
  <2>4. m = <<tag>> \o (PutUint32(answerID) \o body)
    BY <1>1, <2>2, <2>3, Associative
  <2> QED
    BY <1>6, <2>4 DEF Whole, honest, body
<1>7. CASE corruption = "WrongSize"
  <2>1. m = SubSeq(honest, 0 + 1, 0 + (4 + BatchSize))
    BY <1>3, <1>4, <1>7 DEF Mangle
  <2>2. m \in Seq(Int) /\ Len(m) = 4 + BatchSize /\ m[1] = honest[0 + 1]
    <3>1. 0 \in Nat /\ 4 + BatchSize \in Nat /\ 0 + (4 + BatchSize) <= Len(honest)
          /\ 1 \in 1..(4 + BatchSize)
      BY <1>3, <1>4
    <3> QED
      BY <1>3, <2>1, <3>1, Section
  <2> QED
    BY <1>3, <1>4, <1>7, <2>2 DEF Whole, honest
<1>8. CASE corruption = "Truncated"
  <2>1. m = SubSeq(honest, 0 + 1, 0 + 3)
    BY <1>8 DEF Mangle
  <2>2. m \in Seq(Int) /\ Len(m) = 3 /\ m[1] = honest[0 + 1]
    <3>1. 0 \in Nat /\ 3 \in Nat /\ 0 + 3 <= Len(honest) /\ 1 \in 1..3
      BY <1>3, <1>4
    <3> QED
      BY <1>3, <2>1, <3>1, Section
  <2>3. Len(m) > 0 /\ m[1] = tag /\ Len(m) # 5 + BatchSize
    BY <1>3, <1>4, <2>2
  <2> QED
    BY <1>8, <2>2, <2>3 DEF Whole, honest
<1>9. CASE corruption = "Oversized"
  <2> DEFINE zeros == [k \in 1..maxIncomingMessageBytes |-> 0]
  <2>1. maxIncomingMessageBytes \in Nat /\ maxIncomingMessageBytes = 5 + BatchSize
    BY <1>4 DEF maxIncomingMessageBytes
  <2>2. zeros \in Seq(Int) /\ Len(zeros) = 5 + BatchSize
    BY <2>1
  <2>3. m = <<tag>> \o zeros
    BY <1>9 DEF Mangle
  <2> HIDE DEF zeros
  <2>4. m \in Seq(Int) /\ m[1] = tag /\ Len(m) = 1 + (5 + BatchSize)
    BY <1>4, <2>2, <2>3, TailOfMessage
  <2> QED
    BY <1>4, <1>9, <2>4 DEF Whole, honest
<1>10. CASE corruption = "Garbage"
  <2> DEFINE junk == [k \in 1..(BatchSize - 1) |-> Byte - 1]
  <2>1. BatchSize - 1 \in Nat
    BY <1>4
  <2>2. junk \in Seq(Int) /\ Len(junk) = BatchSize - 1
    BY <1>4, <2>1
  <2>3. m = <<tag>> \o junk
    BY <1>10 DEF Mangle
  <2> HIDE DEF junk
  <2>4. m \in Seq(Int) /\ m[1] = tag /\ Len(m) = 1 + (BatchSize - 1)
    BY <1>4, <2>2, <2>3, TailOfMessage
  <2> QED
    BY <1>4, <1>10, <2>4 DEF Whole, honest
<1> QED
  BY <1>5, <1>6, <1>7, <1>8, <1>9, <1>10, WireAssumption DEF InputInv

----------------------------------------------------------------------------
(* The steps.                                                              *)

LEMMA InvInit == Init => Inv
<1> SUFFICES ASSUME Init PROVE Inv
  OBVIOUS
<1>1. InputInv
  BY DEF Init, InputInv, IsBatch, Lengths
<1> QED
  BY <1>1 DEF Init, Inv, PhaseInv, FramesSurviveTheWire

\* The inputs never change.
LEMMA InputStep == ASSUME InputInv, [Next]_vars PROVE InputInv'
  BY DEF InputInv, Next, Assign, OnTask, HandleReceivedMessage, Broadcast, OnBroadcast,
         Telemetry, vars, inputVars

LEMMA AssignStep == ASSUME Inv, Assign PROVE PhaseInv' /\ FramesSurviveTheWire'
  BY DEF Inv, PhaseInv, Assign, endFrame, FramesSurviveTheWire, inputVars

LEMMA OnTaskStep == ASSUME Inv, OnTask PROVE PhaseInv' /\ FramesSurviveTheWire'
<1>1. phase = "task" /\ phase' = "result" /\ UNCHANGED <<inputVars, result, shown>>
  BY DEF OnTask
<1>2. wire = EncodeRenderTask(task.id, task.startFrame, endFrame)
  BY <1>1 DEF Inv, PhaseInv
<1>3. got' = [id |-> task.id, startFrame |-> task.startFrame, endFrame |-> endFrame]
  <2>1. /\ task.id \in 0..(Word32 - 1) /\ task.startFrame \in 0..(Word32 - 1)
        /\ endFrame \in 0..(Word32 - 1)
    BY Fields DEF Inv
  <2>2. /\ getUint32(wire, 1) = task.id /\ getUint32(wire, 5) = task.startFrame
        /\ getUint32(wire, 9) = endFrame
        /\ DecodeRenderTask(Tail(wire))
             = [id |-> task.id, startFrame |-> task.startFrame, endFrame |-> endFrame]
    BY <1>2, <2>1, TaskSurvives
  <2> QED
    BY <2>2 DEF OnTask
<1>4. got'.id = task.id
  BY <1>3
<1>5. wire' = Mangle(encodeRenderResult(task.id, frames), corruption, task.id)
  BY <1>4 DEF OnTask
<1> QED
  BY <1>1, <1>3, <1>5 DEF PhaseInv, FramesSurviveTheWire, endFrame, inputVars

LEMMA HandleStep ==
  ASSUME Inv, HandleReceivedMessage PROVE PhaseInv' /\ FramesSurviveTheWire'
<1> DEFINE m == Mangle(encodeRenderResult(task.id, frames), corruption, task.id)
<1>1. phase = "result" /\ wire = m /\ UNCHANGED <<inputVars, wire, got, shown>>
  BY DEF HandleReceivedMessage, Inv, PhaseInv
<1>2. InputInv
  BY DEF Inv
<1>3. maxIncomingMessageBytes = 5 + BatchSize /\ BatchSize \in Nat \ {0}
  BY Sizes DEF maxIncomingMessageBytes
<1> HIDE DEF m
<1>4. CASE corruption \in Whole
  <2> DEFINE body == PackAll(frames)
  <2>1. wire = <<MessageTypeRenderResult>> \o (PutUint32(answerID) \o body)
    BY <1>1, <1>2, <1>4, Mangled DEF m
  <2>2. body \in Seq(Int) /\ Len(body) = BatchSize
    BY <1>2, Packed DEF InputInv
  <2> HIDE DEF body
  <2>3. /\ Len(wire) = 5 + BatchSize
        /\ NewRenderResult(Tail(wire)) = [id |-> answerID, frames |-> body]
    BY <1>2, <2>1, <2>2, Fields, ResultSurvives
  <2>4. result' = [id |-> answerID, frames |-> body]
    BY <1>3, <2>3 DEF HandleReceivedMessage
  <2>5. result' # Rejected
    BY <1>2, <2>4, Fields DEF Rejected
  <2>6. phase' = "stored"
    BY <1>3, <2>3, <2>5 DEF HandleReceivedMessage
  <2> QED
    BY <1>1, <1>4, <2>4, <2>6 DEF PhaseInv, FramesSurviveTheWire, answerID, inputVars, body
<1>5. CASE corruption \notin Whole
  <2>1. wire \in Seq(Int) /\ Len(wire) > 0 /\ Len(wire) # 5 + BatchSize
    BY <1>1, <1>2, <1>5, Mangled DEF m
  <2>2. Len(Tail(wire)) = Len(wire) - 1
    BY <2>1
  <2>3. NewRenderResult(Tail(wire)) = Rejected
    <3>1. Len(Tail(wire)) # 4 + BatchSize
      BY <1>3, <2>1, <2>2
    <3> QED
      BY <3>1 DEF NewRenderResult
  <2>4. phase' = "closed"
    BY <2>3 DEF HandleReceivedMessage
  <2> QED
    BY <1>1, <1>5, <2>4 DEF PhaseInv, FramesSurviveTheWire, inputVars
<1> QED
  BY <1>4, <1>5

LEMMA BroadcastStep == ASSUME Inv, Broadcast PROVE PhaseInv' /\ FramesSurviveTheWire'
  BY DEF Inv, PhaseInv, Broadcast, FramesSurviveTheWire, inputVars

LEMMA OnBroadcastStep == ASSUME Inv, OnBroadcast PROVE PhaseInv' /\ FramesSurviveTheWire'
<1>1. phase = "broadcast" /\ phase' = "played" /\ UNCHANGED <<inputVars, wire, got, result>>
  BY DEF OnBroadcast
<1>2. wire = <<MessageTypeFrameBroadcast>> \o PackAll(frames)
  BY <1>1 DEF Inv, PhaseInv, EncodeFrameBroadcast
<1>3. IsBatch(frames)
  BY DEF Inv, InputInv
<1>4. Tail(wire) = PackAll(frames)
  <2>1. MessageTypeFrameBroadcast \in Int /\ PackAll(frames) \in Seq(Int)
    BY <1>3, Packed DEF MessageTypeFrameBroadcast
  <2> QED
    BY <1>2, <2>1, TailOfMessage
<1>5. shown' = decodeFrames(PackAll(frames))
  BY <1>4 DEF OnBroadcast
<1>6. FramesSurviveTheWire'
  BY <1>1, <1>3, <1>5, FramesSurvive DEF FramesSurviveTheWire, inputVars
<1> QED
  BY <1>1, <1>6 DEF PhaseInv

LEMMA TelemetryStep == ASSUME Inv, Telemetry PROVE PhaseInv' /\ FramesSurviveTheWire'
<1>1. phase' = "done" /\ UNCHANGED inputVars
  BY DEF Telemetry
<1> DEFINE m == <<MessageTypeClientCount>> \o PutUint32(count)
<1>2. getUint32(EncodeClientCount(count), 1) = count
  <2>1. PutUint32(count) \in Seq(Int) /\ Len(PutUint32(count)) = 4
        /\ <<MessageTypeClientCount>> \in Seq(Int) /\ Len(<<MessageTypeClientCount>>) = 1
    BY Fields, NumberIsSeq DEF Inv, MessageTypeClientCount
  <2>2. /\ m \in Seq(Int)
        /\ Len(m) = Len(<<MessageTypeClientCount>>) + Len(PutUint32(count))
        /\ \A k \in 1..Len(PutUint32(count)) :
             m[Len(<<MessageTypeClientCount>>) + k] = PutUint32(count)[k]
    BY <2>1, Concatenation
  <2> HIDE DEF m
  <2>3. 1 \in Nat /\ 1 + 4 <= Len(m) /\ \A k \in 1..4 : m[1 + k] = PutUint32(count)[k]
    BY <2>1, <2>2
  <2>4. Uint32(SubSeq(m, 1 + 1, 1 + 4)) = count
    BY <2>2, <2>3, Fields, NumberAt, Zenon DEF Inv
  <2> QED
    BY <2>4 DEF m, getUint32, EncodeClientCount
<1>3. EncodeBufferFullness(percent)[2] = percent
  BY DEF EncodeBufferFullness
<1>4. got' = <<count, percent>>
  BY <1>2, <1>3 DEF Telemetry
<1> QED
  BY <1>1, <1>4 DEF PhaseInv, FramesSurviveTheWire, inputVars

LEMMA InvStep == Inv /\ [Next]_vars => Inv'
<1> SUFFICES ASSUME Inv, [Next]_vars PROVE Inv'
  OBVIOUS
<1>1. InputInv'
  BY InputStep DEF Inv
<1>2. CASE UNCHANGED vars
  <2>1. PhaseInv' /\ FramesSurviveTheWire'
    BY <1>2 DEF Inv, PhaseInv, FramesSurviveTheWire, endFrame, answerID, vars
  <2> QED
    BY <1>1, <2>1 DEF Inv
<1>3. CASE Next
  <2>1. PhaseInv' /\ FramesSurviveTheWire'
    BY <1>3, AssignStep, OnTaskStep, HandleStep, BroadcastStep, OnBroadcastStep,
       TelemetryStep DEF Next
  <2> QED
    BY <1>1, <2>1 DEF Inv
<1> QED
  BY <1>2, <1>3

LEMMA InvAlways == Spec => []Inv
  BY InvInit, InvStep, PTL DEF Spec

\* For every batch size: the server accepts a result exactly when it is whole.
\* One byte less, three bytes in all, one byte more than the read limit, or junk,
\* is refused; a whole result never is.
THEOREM ServerAcceptsExactlyWholeBatches == Spec => []AcceptsExactlyWholeBatches
<1>1. Inv => AcceptsExactlyWholeBatches
  BY DEF Inv, PhaseInv, Whole, AcceptsExactlyWholeBatches
<1> QED
  BY <1>1, InvAlways, PTL

\* For every number that fits its field: Go and JavaScript read what the other
\* wrote, for task, result and telemetry.
THEOREM TasksSurviveTheWire == Spec => []TaskSurvivesTheWire
<1>1. Inv => TaskSurvivesTheWire
  <2> SUFFICES ASSUME Inv PROVE TaskSurvivesTheWire
    OBVIOUS
  <2>1. phase = "stored" => (result.id = task.id <=> corruption # "UnassignedID")
    BY Fields DEF Inv, PhaseInv
  <2> QED
    BY <2>1 DEF Inv, PhaseInv, TaskSurvivesTheWire, endFrame
<1> QED
  BY <1>1, InvAlways, PTL

\* For every size of nibble, frame and batch and every batch of frames: what one
\* page rendered, packed by its Web Worker, checked by the server and unpacked by
\* another page, is shown glyph for glyph.
THEOREM AllFramesSurviveTheWire == Spec => []FramesSurviveTheWire
<1>1. Inv => FramesSurviveTheWire
  BY DEF Inv
<1> QED
  BY <1>1, InvAlways, PTL
=============================================================================
