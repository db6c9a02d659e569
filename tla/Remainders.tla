----------------------------- MODULE Remainders -----------------------------
(***************************************************************************)
(* Lemmas on quotients and remainders, for the proofs about the two rings: *)
(* the server's frame buffer and the page's.                               *)
(***************************************************************************)
EXTENDS Integers, TLAPS

\* What division by n yields.
LEMMA Division ==
  ASSUME NEW n \in Nat \ {0}, NEW a \in Int
  PROVE  /\ a \div n \in Int /\ a % n \in 0..(n - 1)
         /\ a = n * (a \div n) + (a % n)
<1>1. n \in Nat /\ n > 0
  OBVIOUS
<1>2. a \div n \in Int
  BY <1>1
<1>3. a % n \in 0..(n - 1)
  BY <1>1
<1>4. a = n * (a \div n) + (a % n)
  BY <1>1
<1> QED
  BY <1>2, <1>3, <1>4

\* Quotient and remainder are unique.
LEMMA DivisionUnique ==
  ASSUME NEW n \in Nat \ {0}, NEW q \in Int, NEW r \in 0..(n - 1)
  PROVE  (n * q + r) % n = r /\ (n * q + r) \div n = q
<1> DEFINE a == n * q + r
           p == a \div n
           s == a % n
<1>1. n > 0 /\ a \in Int /\ r \in Int
  OBVIOUS
<1>2. p \in Int /\ s \in 0..(n - 1) /\ a = n * p + s
  BY <1>1, Division
<1> HIDE DEF p, s
<1>3. n * (q - p) = s - r
  BY <1>1, <1>2
<1>4. CASE q - p >= 1
  <2>1. n * (q - p) >= n
    BY <1>1, <1>2, <1>4
  <2> QED
    BY <1>1, <1>2, <1>3, <2>1
<1>5. CASE q - p <= -1
  <2>1. n * (q - p) <= -n
    BY <1>1, <1>2, <1>5
  <2> QED
    BY <1>1, <1>2, <1>3, <2>1
<1>6. CASE q = p
  BY <1>1, <1>2, <1>6 DEF p, s
<1> QED
  BY <1>1, <1>2, <1>4, <1>5, <1>6

\* A position may be reduced before an offset is added to it.
LEMMA RemainderOfSum ==
  ASSUME NEW n \in Nat \ {0}, NEW a \in Int, NEW b \in Int
  PROVE  ((a % n) + b) % n = (a + b) % n
<1> DEFINE q == a \div n
           p == ((a % n) + b) \div n
           r == ((a % n) + b) % n
<1>1. q \in Int /\ a % n \in Int /\ a = n * q + (a % n)
  BY Division
<1>2. p \in Int /\ r \in 0..(n - 1) /\ r \in Int /\ (a % n) + b = n * p + r
  BY <1>1, Division
<1> HIDE DEF q, p, r
<1>3. a + b = n * q + (n * p + r)
  BY <1>1, <1>2
<1>4. a + b = n * (q + p) + r /\ q + p \in Int
  BY <1>1, <1>2, <1>3
<1>5. (a + b) % n = r
  BY <1>2, <1>4, DivisionUnique
<1> QED
  BY <1>5 DEF r

\* Positions less than a ring apart have different slots.
LEMMA RemaindersDiffer ==
  ASSUME NEW n \in Nat \ {0}, NEW a \in Int, NEW b \in Int, a < b, b < a + n
  PROVE  a % n # b % n
<1> DEFINE p == a \div n
           q == b \div n
<1>1. /\ p \in Int /\ a % n \in Int /\ a = n * p + (a % n)
      /\ q \in Int /\ b % n \in Int /\ b = n * q + (b % n)
  BY Division
<1> HIDE DEF p, q
<1> SUFFICES ASSUME a % n = b % n PROVE FALSE
  OBVIOUS
<1>2. n * (q - p) = b - a
  BY <1>1
<1>3. CASE q - p >= 1
  <2>1. n * (q - p) >= n
    BY <1>1, <1>3
  <2> QED
    BY <1>2, <2>1
<1>4. CASE q - p <= 0
  <2>1. n * (q - p) <= 0
    BY <1>1, <1>4
  <2> QED
    BY <1>2, <2>1
<1> QED
  BY <1>1, <1>3, <1>4

\* Multiplying by a positive number keeps and reflects order.
LEMMA ScaleOrder ==
  ASSUME NEW n \in Nat \ {0}, NEW a \in Int, NEW b \in Int
  PROVE  (a <= b <=> n * a <= n * b) /\ (a < b <=> n * a < n * b)
<1>1. CASE a < b
  <2>1. n * (b - a) >= n /\ n * (b - a) = n * b - n * a
    BY <1>1
  <2> QED
    BY <1>1, <2>1
<1>2. CASE a > b
  <2>1. n * (a - b) >= n /\ n * (a - b) = n * a - n * b
    BY <1>2
  <2> QED
    BY <1>2, <2>1
<1>3. CASE a = b
  BY <1>3
<1> QED
  BY <1>1, <1>2, <1>3

\* A number below the modulus is its own remainder.
LEMMA SmallRemainder ==
  ASSUME NEW n \in Nat \ {0}, NEW a \in Nat, a < n
  PROVE  a % n = a /\ a \div n = 0
<1>1. n * 0 + a = a /\ a \in 0..(n - 1) /\ 0 \in Int
  OBVIOUS
<1>2. (n * 0 + a) % n = a /\ (n * 0 + a) \div n = 0
  BY <1>1, DivisionUnique
<1> QED
  BY <1>1, <1>2

\* A whole multiple of the modulus does not change a remainder.
LEMMA RemainderOfMultiple ==
  ASSUME NEW n \in Nat \ {0}, NEW a \in Int, NEW b \in Int
  PROVE  (n * a + b) % n = b % n
<1> DEFINE q == b \div n
           r == b % n
<1>1. q \in Int /\ r \in 0..(n - 1) /\ b = n * q + r
  BY Division
<1> HIDE DEF q, r
<1>2. n * a + b = n * (a + q) + r /\ a + q \in Int
  BY <1>1
<1>3. (n * (a + q) + r) % n = r
  BY <1>1, <1>2, DivisionUnique
<1> QED
  BY <1>2, <1>3 DEF r

\* A factor may be reduced before the multiplication.
LEMMA RemainderOfProduct ==
  ASSUME NEW n \in Nat \ {0}, NEW a \in Int, NEW c \in Int
  PROVE  ((a % n) * c) % n = (a * c) % n
<1> DEFINE q == a \div n
           r == a % n
<1>1. q \in Int /\ r \in Int /\ a = n * q + r
  BY Division
<1> HIDE DEF q, r
<1>2. a * c = n * (q * c) + r * c /\ q * c \in Int /\ r * c \in Int
  BY <1>1
<1>3. (n * (q * c) + r * c) % n = (r * c) % n
  BY <1>2, RemainderOfMultiple
<1> QED
  BY <1>2, <1>3 DEF r

\* Position k of block a, in a ring of m blocks of n positions each.
LEMMA RemainderOfBlock ==
  ASSUME NEW n \in Nat \ {0}, NEW m \in Nat \ {0}, NEW a \in Int, NEW k \in 0..(n - 1)
  PROVE  (n * a + k) % (n * m) = n * (a % m) + k
<1> DEFINE q == a \div m
           r == a % m
<1>1. q \in Int /\ r \in 0..(m - 1) /\ a = m * q + r
  BY Division
<1> HIDE DEF q, r
<1>2. n * m \in Nat \ {0}
  OBVIOUS
<1>3. n * a + k = (n * m) * q + (n * r + k)
  <2>1. n * (m * q + r) = n * (m * q) + n * r /\ n * (m * q) = (n * m) * q
    BY <1>1
  <2>2. (n * m) * q \in Int /\ n * r \in Int /\ k \in Int
    BY <1>1
  <2> QED
    BY <1>1, <2>1, <2>2
<1>4. n * r + k \in 0..(n * m - 1)
  <2>1. n * r <= n * (m - 1) /\ n * (m - 1) = n * m - n /\ n * r >= 0
    <3>1. r \in Int /\ m - 1 \in Int /\ r <= m - 1 /\ r >= 0
      BY <1>1
    <3>2. n * r <= n * (m - 1)
      BY <3>1, ScaleOrder
    <3> QED
      BY <3>1, <3>2
  <2>2. n * r \in Int /\ n * m \in Int /\ k \in Int
    BY <1>1
  <2> QED
    BY <2>1, <2>2
<1>5. ((n * m) * q + (n * r + k)) % (n * m) = n * r + k
  BY <1>1, <1>2, <1>4, DivisionUnique
<1> QED
  BY <1>3, <1>5 DEF r

\* Dividing twice is dividing by the product.
LEMMA QuotientOfQuotient ==
  ASSUME NEW n \in Nat \ {0}, NEW m \in Nat \ {0}, NEW a \in Int
  PROVE  a \div (n * m) = (a \div n) \div m
<1> DEFINE q == a \div n
           r == a % n
           p == q \div m
           s == q % m
<1>1. q \in Int /\ r \in 0..(n - 1) /\ a = n * q + r
  BY Division
<1> HIDE DEF q, r
<1>2. p \in Int /\ s \in 0..(m - 1) /\ q = m * p + s
  BY <1>1, Division
<1> HIDE DEF p, s
<1>3. n * m \in Nat \ {0}
  OBVIOUS
<1>4. a = (n * m) * p + (n * s + r)
  BY <1>1, <1>2
<1>5. n * s + r \in 0..(n * m - 1)
  <2>1. s \in Int /\ m - 1 \in Int /\ s <= m - 1 /\ 0 <= s /\ r \in Int
    BY <1>1, <1>2
  <2>2. n * s <= n * (m - 1) /\ n * 0 <= n * s
    BY <2>1, ScaleOrder
  <2>3. n * (m - 1) = n * m - n /\ n * 0 = 0 /\ n * s \in Int /\ n * m \in Int
    BY <2>1
  <2> QED
    BY <1>1, <2>1, <2>2, <2>3
<1>6. ((n * m) * p + (n * s + r)) \div (n * m) = p
  BY <1>2, <1>3, <1>5, DivisionUnique
<1>7. a \div (n * m) = p
  BY <1>4, <1>6
<1> QED
  BY <1>7 DEF p, q

\* Numbering m blocks of n: the block of a number, and the number of a place in a
\* block, are within bounds.
LEMMA BlockOf ==
  ASSUME NEW n \in Nat \ {0}, NEW m \in Nat \ {0}, NEW i \in 0..(n * m - 1)
  PROVE  i \div n \in 0..(m - 1)
<1> DEFINE q == i \div n
<1>1. n * m \in Int /\ i \in Int /\ 0 <= i /\ i < n * m
  OBVIOUS
<1>2. q \in Int /\ i % n \in 0..(n - 1) /\ i = n * q + (i % n)
  BY <1>1, Division
<1> HIDE DEF q
<1>3. n * q \in Int /\ n * q < n * m /\ n * (-1) < n * q
  <2>1. n * (-1) = - n /\ n * q \in Int
    BY <1>2
  <2> QED
    BY <1>1, <1>2, <2>1
<1>4. q < m /\ -1 < q
  BY <1>2, <1>3, ScaleOrder
<1> QED
  BY <1>2, <1>4 DEF q

LEMMA PlaceInBlock ==
  ASSUME NEW n \in Nat \ {0}, NEW m \in Nat \ {0}, NEW a \in 0..(m - 1), NEW k \in 0..(n - 1)
  PROVE  n * a + k \in 0..(n * m - 1)
<1>1. n * a <= n * (m - 1) /\ n * 0 <= n * a
  BY ScaleOrder
<1>2. n * (m - 1) = n * m - n /\ n * 0 = 0 /\ n * a \in Int /\ n * m \in Int
  OBVIOUS
<1> QED
  BY <1>1, <1>2
=============================================================================
