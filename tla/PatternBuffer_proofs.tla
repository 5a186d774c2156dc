------------------------ MODULE PatternBuffer_proofs ------------------------
(***************************************************************************)
(* Proofs about PatternBuffer, for any sizes of ring and counters and any  *)
(* edefs: index rings, reference counts and lookups.                       *)
(***************************************************************************)
EXTENDS PatternBuffer, WellFoundedInduction, FiniteSetTheorems, TLAPS

-----------------------------------------------------------------------------
(* Remainders, of negative numbers too. *)

LEMMA Remainder ==
  ASSUME NEW c \in Nat \ {0}, NEW a \in Int
  PROVE  a % c \in 0 .. c - 1 /\ \E q \in Int : a = c * q + (a % c)
<1>1. a = c * (a \div c) + (a % c) /\ a % c \in 0 .. c - 1
  BY SMT
<1>2. a \div c \in Int
  BY SMT
<1>3. QED  BY <1>1, <1>2

\* The only multiple of c strictly between -c and c is 0.
LEMMA SmallMultiple ==
  ASSUME NEW c \in Nat \ {0}, NEW k \in Int, NEW d \in Int,
         d = c * k, 0 - c < d, d < c
  PROVE  d = 0
<1>1. CASE k >= 1
  <2>1. c * k >= c
    BY <1>1, SMT
  <2>2. QED  BY <2>1, SMT
<1>2. CASE k <= 0 - 1
  <2>1. c * k <= 0 - c
    BY <1>2, SMT
  <2>2. QED  BY <2>1, SMT
<1>3. CASE k = 0
  BY <1>3, SMT
<1>4. QED  BY <1>1, <1>2, <1>3

LEMMA RemainderIs ==
  ASSUME NEW c \in Nat \ {0}, NEW a \in Int, NEW q \in Int, NEW r \in 0 .. c - 1,
         a = c * q + r
  PROVE  a % c = r
<1> DEFINE m == a % c
<1>1. PICK p \in Int : a = c * p + m /\ m \in 0 .. c - 1
  BY Remainder
<1> HIDE DEF m
<1>2. m - r = c * (q - p)
  BY <1>1, SMT
<1>3. m - r \in Int /\ q - p \in Int /\ 0 - c < m - r /\ m - r < c
  BY <1>1, SMT
<1>4. m - r = 0
  BY <1>2, <1>3, SmallMultiple
<1>5. QED  BY <1>1, <1>4 DEF m

LEMMA SmallRemainder ==
  ASSUME NEW c \in Nat \ {0}, NEW a \in 0 .. c - 1
  PROVE  a % c = a
<1>1. a = c * 0 + a /\ a \in Int
  BY SMT
<1>2. QED  BY <1>1, RemainderIs

\* Numbers with the same remainder differ by a multiple, and vice versa.
LEMMA Congruent ==
  ASSUME NEW c \in Nat \ {0}, NEW a \in Int, NEW b \in Int
  PROVE  a % c = b % c <=> \E k \in Int : a = b + c * k
<1> DEFINE r == a % c
           s == b % c
<1>1. PICK p \in Int : a = c * p + r /\ r \in 0 .. c - 1
  BY Remainder
<1>2. PICK q \in Int : b = c * q + s /\ s \in 0 .. c - 1
  BY Remainder
<1>3. ASSUME r = s
      PROVE  \E k \in Int : a = b + c * k
  <2> HIDE DEF r, s
  <2>1. a = b + c * (p - q)
    BY <1>1, <1>2, <1>3, SMT
  <2>2. QED  BY <2>1
<1>4. ASSUME NEW k \in Int, a = b + c * k
      PROVE  r = s
  <2> HIDE DEF r, s
  <2>1. a = c * (q + k) + s /\ q + k \in Int
    BY <1>2, <1>4, SMT
  <2>2. a % c = s
    BY <1>2, <2>1, RemainderIs
  <2>3. QED  BY <2>2 DEF r
<1>5. QED  BY <1>3, <1>4

LEMMA CongruentBy ==
  ASSUME NEW c \in Nat \ {0}, NEW a \in Int, NEW b \in Int, NEW k \in Int, a = b + c * k
  PROVE  a % c = b % c
BY Congruent

\* Sums and differences of numbers with the same remainder.
LEMMA SameRemainder ==
  ASSUME NEW c \in Nat \ {0}, NEW a \in Int, NEW b \in Int, NEW d \in Int, a % c = b % c
  PROVE  /\ (a + d) % c = (b + d) % c /\ (d + a) % c = (d + b) % c
         /\ (a - d) % c = (b - d) % c /\ (d - a) % c = (d - b) % c
<1>1. PICK k \in Int : a = b + c * k
  BY Congruent
<1>2. PICK m \in Int : m = c * k
  BY SMT
<1>3. (a + d) % c = (b + d) % c
  <2>1. PICK u \in Int, v \in Int : u = a + d /\ v = b + d
    BY SMT
  <2>2. u = v + c * k
    BY <1>1, <1>2, <2>1, SMT
  <2>3. \E n \in Int : u = v + c * n
    BY <2>2
  <2>4. u % c = v % c
    BY <2>3, Congruent
  <2>5. QED  BY <2>1, <2>4
<1>4. (a - d) % c = (b - d) % c
  <2>1. PICK u \in Int, v \in Int : u = a - d /\ v = b - d
    BY SMT
  <2>2. u = v + c * k
    BY <1>1, <1>2, <2>1, SMT
  <2>3. \E n \in Int : u = v + c * n
    BY <2>2
  <2>4. u % c = v % c
    BY <2>3, Congruent
  <2>5. QED  BY <2>1, <2>4
<1>5. (d - b) % c = (d - a) % c
  <2>1. PICK u \in Int, v \in Int : u = d - b /\ v = d - a
    BY SMT
  <2>2. u = v + c * k
    BY <1>1, <1>2, <2>1, SMT
  <2>3. \E n \in Int : u = v + c * n
    BY <2>2
  <2>4. u % c = v % c
    BY <2>3, Congruent
  <2>5. QED  BY <2>1, <2>4
<1>6. d + a = a + d /\ d + b = b + d
  BY SMT
<1>7. QED  BY <1>3, <1>4, <1>5, <1>6

\* Cutting to a width that is a multiple of c does not matter modulo c.
LEMMA Cut ==
  ASSUME NEW c \in Nat \ {0}, NEW m \in Nat \ {0}, m % c = 0, NEW a \in Int
  PROVE  (a % m) % c = a % c
<1> DEFINE r == a % m
<1>1. PICK q \in Int : a = m * q + r /\ r \in 0 .. m - 1
  BY Remainder
<1>2. PICK k \in Int : m = c * k
  <2>1. m \in Int
    OBVIOUS
  <2>2. PICK k \in Int : m = c * k + (m % c)
    BY <2>1, Remainder
  <2>3. m = c * k
    BY <2>2, SMT
  <2>4. QED  BY <2>3
<1> HIDE DEF r
<1>3. k * q \in Int /\ r \in Int /\ (c * k) * q = c * (k * q)
  BY <1>1, SMT
<1>4. a = r + c * (k * q)
  <2>1. a = c * (k * q) + r
    BY <1>1, <1>2, <1>3
  <2>2. PICK n \in Int : n = c * (k * q)
    BY <1>3, SMT
  <2>3. QED  BY <1>3, <2>1, <2>2
<1>5. a % c = r % c
  BY <1>3, <1>4, CongruentBy
<1>6. QED  BY <1>5 DEF r

\* A difference when one of the numbers moves on by one.
LEMMA ShiftDown ==
  ASSUME NEW c \in Nat \ {0}, NEW x \in Int, NEW i \in Int, NEW j \in Int,
         j % c = (i + 1) % c, (x - i) % c # 0
  PROVE  (x - j) % c = ((x - i) % c) - 1
<1> DEFINE r == (x - i) % c
<1>1. (x - j) % c = (x - (i + 1)) % c
  <2>1. i + 1 \in Int
    BY SMT
  <2>2. QED  BY <2>1, SameRemainder
<1>2. x - i \in Int
  BY SMT
<1>3. PICK q \in Int : x - i = c * q + r /\ r \in 0 .. c - 1
  BY <1>2, Remainder
<1>4. r # 0
  OBVIOUS
<1> HIDE DEF r
<1>5. /\ x - (i + 1) \in Int /\ r - 1 \in 0 .. c - 1
      /\ x - (i + 1) = c * q + (r - 1)
  BY <1>3, <1>4, SMT
<1>6. (x - (i + 1)) % c = r - 1
  BY <1>5, RemainderIs
<1>7. QED  BY <1>1, <1>6 DEF r

LEMMA ShiftUp ==
  ASSUME NEW c \in Nat \ {0}, NEW y \in Int, NEW i \in Int, NEW j \in Int,
         j % c = (i + 1) % c, (i - y) % c # c - 1
  PROVE  (j - y) % c = ((i - y) % c) + 1
<1> DEFINE r == (i - y) % c
<1>1. (j - y) % c = ((i + 1) - y) % c
  <2>1. i + 1 \in Int
    BY SMT
  <2>2. QED  BY <2>1, SameRemainder
<1>2. i - y \in Int
  BY SMT
<1>3. PICK q \in Int : i - y = c * q + r /\ r \in 0 .. c - 1
  BY <1>2, Remainder
<1>4. r # c - 1
  OBVIOUS
<1> HIDE DEF r
<1>5. /\ (i + 1) - y \in Int /\ r + 1 \in 0 .. c - 1
      /\ (i + 1) - y = c * q + (r + 1)
  BY <1>3, <1>4, SMT
<1>6. ((i + 1) - y) % c = r + 1
  BY <1>5, RemainderIs
<1>7. QED  BY <1>1, <1>6 DEF r

\* Adding what was subtracted.
LEMMA BackAgain ==
  ASSUME NEW c \in Nat \ {0}, NEW x \in Int, NEW y \in Int
  PROVE  (y + ((x - y) % c)) % c = x % c
<1> DEFINE r == (x - y) % c
<1>1. x - y \in Int
  BY SMT
<1>2. PICK q \in Int : x - y = c * q + r /\ r \in 0 .. c - 1
  BY <1>1, Remainder
<1> HIDE DEF r
<1>3. y + r \in Int /\ r \in Int
  BY <1>2, SMT
<1>4. x = (y + r) + c * q
  BY <1>2, <1>3, SMT
<1>5. \E n \in Int : x = (y + r) + c * n
  BY <1>4
<1>6. x % c = (y + r) % c
  BY <1>3, <1>5, Congruent
<1>7. QED  BY <1>6 DEF r

-----------------------------------------------------------------------------
(* The ring. *)

LEMMA Sizes ==
  /\ Capacity \in Nat \ {0} /\ IdxMod \in Nat \ {0} /\ PatMod \in Nat \ {0}
  /\ IdxMod > Capacity /\ IdxMod % Capacity = 0 /\ PatMod % Capacity = 0
  /\ MinFill \in Nat /\ MinFill < Capacity
BY RingAssumption, PatternBufferAssumption

LEMMA IncIs ==
  ASSUME NEW i \in 0 .. IdxMod - 1
  PROVE  /\ Inc(i) \in 0 .. IdxMod - 1
         /\ Inc(i) % IdxMod = (i + 1) % IdxMod
         /\ Inc(i) % Capacity = (i + 1) % Capacity
<1>1. i \in Int /\ i + 1 \in Int /\ IdxMod \in Nat \ {0} /\ Capacity \in Nat \ {0}
  BY Sizes
<1>2. Inc(i) \in 0 .. IdxMod - 1 /\ Inc(i) \in Int
  BY Sizes DEF Inc
<1>3. Inc(i) % IdxMod = (i + 1) % IdxMod
  <2>1. CASE i = IdxMod - 1
    <3>1. i + 1 = Inc(i) + IdxMod * 1
      BY <1>1, <2>1 DEF Inc
    <3>2. \E n \in Int : i + 1 = Inc(i) + IdxMod * n
      BY <3>1
    <3>3. QED  BY <1>1, <1>2, <3>2, Congruent
  <2>2. CASE i # IdxMod - 1
    BY <2>2 DEF Inc
  <2>3. QED  BY <2>1, <2>2
<1>4. Inc(i) % Capacity = (i + 1) % Capacity
  <2>1. (Inc(i) % IdxMod) % Capacity = Inc(i) % Capacity
    BY <1>2, Sizes, Cut
  <2>2. ((i + 1) % IdxMod) % Capacity = (i + 1) % Capacity
    BY <1>1, Sizes, Cut
  <2>3. QED  BY <1>3, <2>1, <2>2
<1>5. QED  BY <1>2, <1>3, <1>4

\* A position leads to the element of that number, wherever the head is.
LEMMA AtPositionIs ==
  ASSUME h \in Int, NEW x \in Int
  PROVE  AtPosition(x) = x % Capacity /\ At((x - h) % Capacity) = x % Capacity
<1>1. At((x - h) % Capacity) = x % Capacity
  BY BackAgain, Sizes DEF At
<1>2. AtPosition(x) = x % Capacity
  <2> DEFINE y == (x - h) % IdxMod
  <2>1. y \in 0 .. IdxMod - 1 /\ x - h \in Int
    BY Sizes, Remainder
  <2>2. y % Capacity = (x - h) % Capacity
    BY <2>1, Sizes, Cut
  <2>3. ((x - h) % Capacity) \in 0 .. Capacity - 1
    BY <2>1, Sizes, Remainder
  <2>4. ((x - h) % Capacity) % Capacity = (x - h) % Capacity
    BY <2>3, Sizes, SmallRemainder
  <2> HIDE DEF y
  <2>5. (h + y) % Capacity = (h + ((x - h) % Capacity)) % Capacity
    <3>1. PICK z \in Int : z = (x - h) % Capacity
      BY <2>3
    <3>2. y \in Int /\ y % Capacity = z % Capacity
      BY <2>1, <2>2, <2>4, <3>1
    <3>3. (h + y) % Capacity = (h + z) % Capacity
      BY <3>2, Sizes, SameRemainder
    <3>4. QED  BY <3>1, <3>3
  <2>6. QED  BY <1>1, <2>5 DEF AtPosition, At, y
<1>3. QED  BY <1>1, <1>2

\* Different offsets below the capacity are different elements.
LEMMA AtIs ==
  ASSUME h \in Int, NEW k \in 0 .. Capacity - 1
  PROVE  /\ At(k) \in Elements
         /\ (At(k) - h) % Capacity = k
<1>1. k \in Int /\ h + k \in Int
  BY Sizes
<1>2. At(k) \in 0 .. Capacity - 1
  BY <1>1, Sizes, Remainder DEF At
<1>3. At(k) % Capacity = (h + k) % Capacity
  BY <1>2, Sizes, SmallRemainder DEF At
<1>4. (At(k) - h) % Capacity = ((h + k) - h) % Capacity
  <2>1. At(k) \in Int
    BY <1>2, Sizes
  <2>2. QED  BY <1>1, <1>3, <2>1, Sizes, SameRemainder
<1>5. (h + k) - h = k
  BY <1>1
<1>6. k % Capacity = k
  BY Sizes, SmallRemainder
<1>7. QED  BY <1>2, <1>4, <1>5, <1>6 DEF Elements

LEMMA AtDiffers ==
  ASSUME h \in Int, NEW k \in 0 .. Capacity - 1, NEW l \in 0 .. Capacity - 1, At(k) = At(l)
  PROVE  k = l
BY AtIs

LEMMA SizeIs ==
  ASSUME h \in 0 .. IdxMod - 1, t \in 0 .. IdxMod - 1
  PROVE  size \in 0 .. IdxMod - 1 /\ (t - h) % IdxMod = size /\ At(size) = t % Capacity
<1>1. size \in 0 .. IdxMod - 1 /\ size \in Int /\ h \in Int /\ t \in Int /\ t - h \in Int
  BY Sizes DEF size
<1>2. (t - h) % IdxMod = size
  <2>1. t - h = IdxMod * 0 + size \/ t - h = IdxMod * (0 - 1) + size
    BY Sizes DEF size
  <2>2. \E q \in Int : t - h = IdxMod * q + size
    BY <2>1
  <2>3. QED  BY <1>1, <2>2, Sizes, RemainderIs
<1>3. At(size) = t % Capacity
  <2>1. size % Capacity = (t - h) % Capacity
    BY <1>1, <1>2, Sizes, Cut
  <2>2. PICK z \in Int : z = (t - h) % Capacity /\ z \in 0 .. Capacity - 1
    BY <1>1, Sizes, Remainder
  <2>3. z % Capacity = z
    BY <2>2, Sizes, SmallRemainder
  <2>4. (h + size) % Capacity = (h + z) % Capacity
    <3>1. PICK n \in Int : n = size
      BY <1>1
    <3>2. n % Capacity = z % Capacity /\ h \in Int
      BY <1>1, <2>1, <2>2, <2>3, <3>1
    <3>3. (h + n) % Capacity = (h + z) % Capacity
      BY <3>2, Sizes, SameRemainder
    <3>4. QED  BY <3>1, <3>3
  <2>5. QED  BY <1>1, <2>2, <2>4, AtPositionIs DEF At
<1>4. QED  BY <1>1, <1>2, <1>3

\* The ring grows at its end and shrinks at its front.
LEMMA Grows ==
  ASSUME h \in 0 .. IdxMod - 1, t \in 0 .. IdxMod - 1, size < Capacity, t' = Inc(t), h' = h
  PROVE  size' = size + 1 /\ \A k : At(k)' = At(k)
<1>1. size' = size + 1
  BY Sizes DEF size, Inc
<1>2. QED  BY <1>1 DEF At

LEMMA Shrinks ==
  ASSUME h \in 0 .. IdxMod - 1, t \in 0 .. IdxMod - 1, size > 0, h' = Inc(h), t' = t
  PROVE  size' = size - 1 /\ \A k \in Int : (h' + k) % Capacity = At(k + 1)
<1>1. size' = size - 1
  BY Sizes DEF size, Inc
<1>2. ASSUME NEW k \in Int
      PROVE  (h' + k) % Capacity = At(k + 1)
  <2>1. PICK a \in Int, b \in Int : a = h' /\ b = h + 1
    BY IncIs, Sizes
  <2>2. a % Capacity = b % Capacity
    BY <2>1, IncIs
  <2>3. (a + k) % Capacity = (b + k) % Capacity
    BY <2>2, Sizes, SameRemainder
  <2>4. b + k = h + (k + 1)
    BY <2>1
  <2>5. QED  BY <2>1, <2>3, <2>4 DEF At
<1>3. QED  BY <1>1, <1>2

-----------------------------------------------------------------------------
(* The index rings. *)

\* Patterns are counted from the head here.
Offsets == 0 .. size - 1
Involves(n, e) == e \in anyMask(buf[At(n)])

\* The entries of an index ring, and the pattern that each of them leads to.
Entries(e) == 0 .. IndexSize(e) - 1
Leads(e, k) == (IndexAt(e, k) - h) % Capacity

\* The entries lead to the patterns that involve the edef, in their order (from
\* one entry to the next there is at least one pattern), and each of these
\* patterns knows its entry.
IndexOK(e) ==
  /\ IndexSize(e) <= size
  /\ \A k \in Entries(e) : Leads(e, k) \in Offsets /\ Involves(Leads(e, k), e)
  /\ \A k, l \in Entries(e) : k < l => l - k <= Leads(e, l) - Leads(e, k)
  /\ \A n \in Offsets : Involves(n, e) =>
       IndexOffset(At(n), e) \in Entries(e) /\ Leads(e, IndexOffset(At(n), e)) = n

Bounded == TypeOK /\ size <= Capacity

IndexInv == \A e \in Edefs : IndexOK(e)

LEMMA RingTypes ==
  ASSUME TypeOK
  PROVE  /\ h \in 0 .. IdxMod - 1 /\ t \in 0 .. IdxMod - 1 /\ h \in Int /\ t \in Int
         /\ size \in 0 .. IdxMod - 1 /\ size \in Nat
<1>1. h \in 0 .. IdxMod - 1 /\ t \in 0 .. IdxMod - 1
  BY DEF TypeOK
<1>2. size \in 0 .. IdxMod - 1
  BY <1>1, SizeIs
<1>3. QED  BY <1>1, <1>2, Sizes

LEMMA IndexTypes ==
  ASSUME TypeOK, NEW e \in Edefs
  PROVE  /\ index[e].h \in 0 .. IdxMod - 1 /\ index[e].t \in 0 .. IdxMod - 1
         /\ index[e].h \in Int /\ index[e].t \in Int
         /\ index[e].buf \in [Elements -> 0 .. PatMod - 1]
         /\ IndexSize(e) \in 0 .. IdxMod - 1 /\ IndexSize(e) \in Nat
         /\ (index[e].h + IndexSize(e)) % Capacity = index[e].t % Capacity
         /\ \A k \in Int : /\ (index[e].h + k) % Capacity \in Elements
                           /\ IndexAt(e, k) \in Int /\ Leads(e, k) \in 0 .. Capacity - 1
         /\ \A i \in Elements : buf[i].seqIdx[e] \in Int /\ IndexOffset(i, e) \in 0 .. Capacity - 1
<1>1. /\ index[e] \in [buf : [Elements -> 0 .. PatMod - 1], h : 0 .. IdxMod - 1, t : 0 .. IdxMod - 1]
      /\ h \in Int
  BY RingTypes DEF TypeOK
<1>2. /\ index[e].h \in 0 .. IdxMod - 1 /\ index[e].t \in 0 .. IdxMod - 1
      /\ index[e].h \in Int /\ index[e].t \in Int
      /\ index[e].buf \in [Elements -> 0 .. PatMod - 1]
  BY <1>1, Sizes
<1>3. index[e].t - index[e].h \in Int
  BY <1>2
<1>4. IndexSize(e) \in 0 .. IdxMod - 1
  BY <1>3, Sizes, Remainder DEF IndexSize
<1>5. (index[e].h + IndexSize(e)) % Capacity = index[e].t % Capacity
  <2>1. PICK a \in Int, b \in Int, s \in Int : a = index[e].h /\ b = index[e].t /\ s = IndexSize(e)
    BY <1>2, <1>4, Sizes
  <2>2. (a + s) % IdxMod = b % IdxMod
    <3>1. (a + ((b - a) % IdxMod)) % IdxMod = b % IdxMod
      BY Sizes, BackAgain
    <3>2. QED  BY <2>1, <3>1 DEF IndexSize
  <2>3. ((a + s) % IdxMod) % Capacity = (a + s) % Capacity
    <3>1. a + s \in Int
      OBVIOUS
    <3>2. QED  BY <3>1, Sizes, Cut
  <2>4. (b % IdxMod) % Capacity = b % Capacity
    BY Sizes, Cut
  <2>5. QED  BY <2>1, <2>2, <2>3, <2>4
<1>6. ASSUME NEW k \in Int
      PROVE  /\ (index[e].h + k) % Capacity \in Elements
             /\ IndexAt(e, k) \in Int /\ Leads(e, k) \in 0 .. Capacity - 1
  <2>1. index[e].h + k \in Int
    BY <1>2
  <2>2. (index[e].h + k) % Capacity \in Elements
    BY <2>1, Sizes, Remainder DEF Elements
  <2>3. IndexAt(e, k) \in Int
    BY <1>2, <2>2, Sizes DEF IndexAt
  <2>4. IndexAt(e, k) - h \in Int
    BY <1>1, <2>3
  <2>5. QED  BY <2>2, <2>3, <2>4, Sizes, Remainder DEF Leads
<1>7. ASSUME NEW i \in Elements
      PROVE  buf[i].seqIdx[e] \in Int /\ IndexOffset(i, e) \in 0 .. Capacity - 1
  <2>1. buf[i].seqIdx[e] \in 0 .. PatMod - 1
    BY DEF TypeOK
  <2>2. buf[i].seqIdx[e] \in Int /\ buf[i].seqIdx[e] - index[e].h \in Int
    BY <1>2, <2>1, Sizes
  <2>3. QED  BY <2>2, Sizes, Remainder DEF IndexOffset
<1>8. QED  BY <1>2, <1>4, <1>5, <1>6, <1>7, Sizes

\* Where the oldest pattern of an edef is the front, its entry is the first.
LEMMA FrontEntry ==
  ASSUME Bounded, NEW e \in Edefs, IndexOK(e), size > 0
  PROVE  /\ Involves(0, e) => 0 \in Entries(e) /\ Leads(e, 0) = 0 /\ IndexOffset(At(0), e) = 0
         /\ ~Involves(0, e) => \A k \in Entries(e) : Leads(e, k) # 0
<1>1. IndexSize(e) \in Nat /\ size \in Nat
  BY IndexTypes, RingTypes DEF Bounded
<1>2. ASSUME Involves(0, e)
      PROVE  0 \in Entries(e) /\ Leads(e, 0) = 0 /\ IndexOffset(At(0), e) = 0
  <2>1. PICK k : k = IndexOffset(At(0), e)
    OBVIOUS
  <2>2. k \in Entries(e) /\ Leads(e, k) = 0
    <3>1. 0 \in Offsets
      BY <1>1 DEF Offsets
    <3>2. QED  BY <1>2, <2>1, <3>1 DEF IndexOK
  <2>3. 0 \in Entries(e) /\ k \in Int /\ k >= 0
    BY <1>1, <2>2 DEF Entries
  <2>4. Leads(e, 0) \in Offsets
    BY <2>3 DEF IndexOK
  <2>5. k > 0 => k - 0 <= 0 - Leads(e, 0)
    BY <2>2, <2>3 DEF IndexOK
  <2>6. k = 0
    BY <1>1, <2>3, <2>4, <2>5 DEF Offsets
  <2>7. QED  BY <2>1, <2>2, <2>6
<1>3. QED  BY <1>2 DEF IndexOK

\* Patterns that stay in the buffer and the entries that lead to them.
LEMMA OthersKept ==
  ASSUME Bounded, size < Capacity, NEW new, buf' = [buf EXCEPT ![t % Capacity] = new], h' = h
  PROVE  /\ \A n \in 0 .. Capacity - 1 : At(n)' = At(n)
         /\ \A n \in Offsets : buf'[At(n)] = buf[At(n)]
         /\ buf'[At(size)] = new
<1>1. /\ h \in Int /\ size \in Nat /\ At(size) = t % Capacity
      /\ buf \in [Elements -> [ts : 0 .. MaxTs, init : SUBSET Edefs, act : SUBSET Edefs,
                               seqIdx : [Edefs -> 0 .. PatMod - 1]]]
  BY RingTypes, SizeIs DEF Bounded, TypeOK
<1>2. \A n \in Offsets : n \in 0 .. Capacity - 1 /\ n # size
  BY <1>1, Sizes DEF Offsets
<1>3. size \in 0 .. Capacity - 1
  BY <1>1, Sizes
<1>4. \A n \in Offsets : At(n) \in Elements /\ At(n) # At(size)
  BY <1>1, <1>2, <1>3, AtIs, AtDiffers
<1>5. At(size) \in Elements
  BY <1>1, <1>3, AtIs
<1>6. QED  BY <1>1, <1>4, <1>5 DEF At

\* A new pattern gets the next entry of each index ring of its edefs.
LEMMA PushIndexed ==
  ASSUME Bounded, size < Capacity, NEW e \in Edefs, IndexOK(e),
         NEW new, new.seqIdx[e] = index[e].t % PatMod, e \in anyMask(new),
         buf' = [buf EXCEPT ![t % Capacity] = new], h' = h, t' = Inc(t),
         index'[e] = [index[e] EXCEPT !.buf[index[e].t % Capacity] = t % PatMod, !.t = Inc(@)]
  PROVE  IndexOK(e)' /\ IndexSize(e)' = IndexSize(e) + 1
<1> DEFINE ih == index[e].h
           it == index[e].t
           pos == t % PatMod
<1>0. PICK s \in Nat, z \in Nat : s = IndexSize(e) /\ z = size
  BY IndexTypes, RingTypes DEF Bounded
<1>1. /\ h \in 0 .. IdxMod - 1 /\ t \in 0 .. IdxMod - 1 /\ h \in Int /\ t \in Int
      /\ ih \in 0 .. IdxMod - 1 /\ it \in 0 .. IdxMod - 1 /\ ih \in Int /\ it \in Int
      /\ index[e].buf \in [Elements -> 0 .. PatMod - 1]
      /\ s <= z /\ z < Capacity /\ (ih + s) % Capacity = it % Capacity
      /\ \A k \in Int : /\ (ih + k) % Capacity \in Elements
                        /\ IndexAt(e, k) \in Int /\ Leads(e, k) \in 0 .. Capacity - 1
  BY <1>0, RingTypes, IndexTypes DEF Bounded, IndexOK
<1>2. /\ \A n \in 0 .. Capacity - 1 : At(n)' = At(n)
      /\ \A n \in 0 .. z - 1 : buf'[At(n)] = buf[At(n)]
      /\ buf'[At(z)] = new
  BY <1>0, OthersKept DEF Offsets
<1>3. size' = z + 1
  BY <1>0, <1>1, Grows
<1>4. /\ index'[e].h = ih /\ index'[e].t = Inc(it)
      /\ index'[e].buf = [index[e].buf EXCEPT ![it % Capacity] = pos]
  <2>1. index[e] \in [buf : [Elements -> 0 .. PatMod - 1], h : 0 .. IdxMod - 1, t : 0 .. IdxMod - 1]
    BY DEF Bounded, TypeOK
  <2>2. QED  BY <2>1
<1>5. IndexSize(e)' = s + 1
  <2>1. Inc(it) \in Int /\ Inc(it) % IdxMod = (it + 1) % IdxMod
    BY <1>1, IncIs, Sizes
  <2>2. (it - ih) % IdxMod = s
    BY <1>0 DEF IndexSize
  <2>3. (it - ih) % IdxMod # IdxMod - 1
    BY <1>0, <1>1, <2>2, Sizes
  <2>4. (Inc(it) - ih) % IdxMod = ((it - ih) % IdxMod) + 1
    BY <1>1, <2>1, <2>3, Sizes, ShiftUp
  <2>5. QED  BY <1>4, <2>2, <2>4 DEF IndexSize
<1>6. \A k \in 0 .. s - 1 : (ih + k) % Capacity # it % Capacity
  <2>1. ASSUME NEW k \in 0 .. s - 1, (ih + k) % Capacity = (ih + s) % Capacity
        PROVE  FALSE
    <3>1. k \in Int /\ ih + k \in Int /\ ih + s \in Int /\ s \in 0 .. Capacity - 1
          /\ k \in 0 .. Capacity - 1 /\ k # s
      BY <1>0, <1>1, Sizes
    <3>2. PICK a \in Int, b \in Int : a = ih + k /\ b = ih + s
      BY <3>1
    <3>3. (a - ih) % Capacity = (b - ih) % Capacity
      BY <1>1, <2>1, <3>2, Sizes, SameRemainder
    <3>4. a - ih = k /\ b - ih = s
      BY <1>1, <3>1, <3>2
    <3>5. k % Capacity = k /\ s % Capacity = s
      BY <3>1, Sizes, SmallRemainder
    <3>6. QED  BY <3>1, <3>3, <3>4, <3>5
  <2>2. QED  BY <1>1, <2>1
<1>7. \A k \in 0 .. s - 1 : IndexAt(e, k)' = IndexAt(e, k)
  <2>1. \A k \in 0 .. s - 1 : k \in Int /\ (ih + k) % Capacity \in Elements
    BY <1>0, <1>1
  <2>2. QED  BY <1>1, <1>4, <1>6, <2>1 DEF IndexAt
<1>8. IndexAt(e, s)' = pos
  <2>1. it % Capacity \in Elements
    BY <1>0, <1>1, Sizes
  <2>2. QED  BY <1>1, <1>4, <2>1 DEF IndexAt
<1>9. /\ \A k \in 0 .. s - 1 : Leads(e, k)' = Leads(e, k)
      /\ Leads(e, s)' = z
  <2>1. (pos - h) % Capacity = z
    <3>1. pos \in Int /\ pos % Capacity = t % Capacity
      BY <1>1, Sizes, Remainder, Cut
    <3>2. PICK p \in Int : p = pos /\ p % Capacity = t % Capacity
      BY <3>1
    <3>3. (p - h) % Capacity = (t - h) % Capacity
      BY <1>1, <3>2, Sizes, SameRemainder
    <3>4. (t - h) % IdxMod = z /\ t - h \in Int
      BY <1>0, <1>1, SizeIs
    <3>5. z % Capacity = (t - h) % Capacity
      BY <3>4, Sizes, Cut
    <3>6. z % Capacity = z
      <4>1. z \in 0 .. Capacity - 1
        BY <1>0, <1>1, Sizes
      <4>2. QED  BY <4>1, Sizes, SmallRemainder
    <3>7. QED  BY <3>2, <3>3, <3>5, <3>6
  <2>2. QED  BY <1>7, <1>8, <2>1 DEF Leads
<1>10. \A n \in 0 .. z - 1 : IndexOffset(At(n), e)' = IndexOffset(At(n), e)
  <2>1. \A n \in 0 .. z - 1 : n \in 0 .. Capacity - 1
    BY <1>0, <1>1, Sizes
  <2>2. QED  BY <1>2, <1>4, <2>1 DEF IndexOffset
<1>11. IndexOffset(At(z), e)' = s
  <2>0. PICK a \in Int, b \in Int : a = ih /\ b = it
    BY <1>1
  <2>1. PICK p \in Int : p = it % PatMod /\ p % Capacity = it % Capacity
    <3>1. b % PatMod \in Int /\ (b % PatMod) % Capacity = b % Capacity
      BY Sizes, Remainder, Cut
    <3>2. QED  BY <2>0, <3>1
  <2>2. (p - ih) % Capacity = (it - ih) % Capacity
    <3>1. p % Capacity = b % Capacity
      BY <2>0, <2>1
    <3>2. (p - a) % Capacity = (b - a) % Capacity
      BY <3>1, Sizes, SameRemainder
    <3>3. QED  BY <2>0, <3>2
  <2>3. ((it - ih) % IdxMod) % Capacity = (it - ih) % Capacity
    <3>1. it - ih \in Int
      BY <1>1
    <3>2. QED  BY <3>1, Sizes, Cut
  <2>4. s % Capacity = s
    <3>1. s \in 0 .. Capacity - 1
      BY <1>0, <1>1, Sizes
    <3>2. QED  BY <3>1, Sizes, SmallRemainder
  <2>5. (p - ih) % Capacity = s
    BY <1>0, <2>2, <2>3, <2>4 DEF IndexSize
  <2>6. At(z)' = At(z)
    <3>1. z \in 0 .. Capacity - 1
      BY <1>0, <1>1, Sizes
    <3>2. QED  BY <1>2, <3>1
  <2>7. QED  BY <1>2, <1>4, <2>1, <2>5, <2>6 DEF IndexOffset
<1>12. IndexOK(e)'
  <2> HIDE DEF ih, it, pos
  <2>1. /\ \A k \in 0 .. s - 1 : Leads(e, k) \in 0 .. z - 1 /\ Involves(Leads(e, k), e)
        /\ \A k, l \in 0 .. s - 1 : k < l => l - k <= Leads(e, l) - Leads(e, k)
        /\ \A n \in 0 .. z - 1 : Involves(n, e) =>
             IndexOffset(At(n), e) \in 0 .. s - 1 /\ Leads(e, IndexOffset(At(n), e)) = n
    BY <1>0 DEF IndexOK, Entries, Offsets
  <2>2. /\ \A n \in 0 .. z - 1 : Involves(n, e)' <=> Involves(n, e)
        /\ Involves(z, e)'
    <3>1. \A n \in 0 .. z : n \in 0 .. Capacity - 1
      BY <1>0, <1>1, Sizes
    <3>2. QED  BY <1>0, <1>2, <3>1 DEF Involves
  <2>3. ASSUME NEW k \in 0 .. s
        PROVE  Leads(e, k)' \in 0 .. z /\ Involves(Leads(e, k), e)'
    <3>1. CASE k = s
      BY <1>0, <1>9, <2>2, <3>1 DEF Involves
    <3>2. CASE k # s
      <4>1. k \in 0 .. s - 1
        BY <1>0, <3>2
      <4>2. PICK n \in 0 .. z - 1 : n = Leads(e, k) /\ Involves(n, e)
        BY <2>1, <4>1
      <4>3. Leads(e, k)' = n /\ Involves(n, e)'
        BY <1>9, <2>2, <4>1, <4>2
      <4>4. QED  BY <1>0, <4>3 DEF Involves
    <3>3. QED  BY <3>1, <3>2
  <2>4. ASSUME NEW k \in 0 .. s, NEW l \in 0 .. s, k < l
        PROVE  l - k <= Leads(e, l)' - Leads(e, k)'
    <3>1. k \in 0 .. s - 1 /\ Leads(e, k)' = Leads(e, k) /\ Leads(e, k) \in 0 .. z - 1
      BY <1>0, <1>9, <2>1, <2>4
    <3>2. CASE l = s
      <4>1. CASE k = s - 1
        BY <1>0, <1>9, <3>1, <3>2, <4>1
      <4>2. CASE k # s - 1
        <5>1. k < s - 1 /\ s - 1 \in 0 .. s - 1
          BY <1>0, <3>1, <4>2
        <5>2. (s - 1) - k <= Leads(e, s - 1) - Leads(e, k) /\ Leads(e, s - 1) \in 0 .. z - 1
          BY <2>1, <3>1, <5>1
        <5>3. QED  BY <1>0, <1>9, <3>1, <3>2, <5>1, <5>2
      <4>3. QED  BY <4>1, <4>2
    <3>3. CASE l # s
      <4>1. l \in 0 .. s - 1 /\ Leads(e, l)' = Leads(e, l)
        BY <1>0, <1>9, <3>3
      <4>2. QED  BY <2>1, <2>4, <3>1, <4>1
    <3>4. QED  BY <3>2, <3>3
  <2>5. ASSUME NEW n \in 0 .. z, Involves(n, e)'
        PROVE  IndexOffset(At(n), e)' \in 0 .. s /\ Leads(e, IndexOffset(At(n), e))' = n
    <3>1. CASE n = z
      BY <1>0, <1>9, <1>11, <3>1 DEF Leads, IndexAt
    <3>2. CASE n # z
      <4>1. n \in 0 .. z - 1
        BY <1>0, <3>2
      <4>2. PICK k \in 0 .. s - 1 : k = IndexOffset(At(n), e) /\ Leads(e, k) = n
        BY <2>1, <2>2, <2>5, <4>1
      <4>3. IndexOffset(At(n), e)' = k /\ Leads(e, k)' = n
        BY <1>9, <1>10, <4>1, <4>2
      <4>4. QED  BY <1>0, <4>3 DEF Leads, IndexAt
    <3>3. QED  BY <3>1, <3>2
  <2>6. IndexSize(e)' <= size'
    BY <1>0, <1>1, <1>3, <1>5
  <2>7. Entries(e)' = 0 .. s /\ Offsets' = 0 .. z
    <3>1. (s + 1) - 1 = s /\ (z + 1) - 1 = z
      BY <1>0
    <3>2. QED  BY <1>3, <1>5, <3>1 DEF Entries, Offsets
  <2>8. QED  BY <2>3, <2>4, <2>5, <2>6, <2>7 DEF IndexOK
<1>13. QED  BY <1>0, <1>5, <1>12

\* The index rings of other edefs are not concerned by a new pattern.
LEMMA PushOther ==
  ASSUME Bounded, size < Capacity, NEW e \in Edefs, IndexOK(e),
         NEW new, e \notin anyMask(new),
         buf' = [buf EXCEPT ![t % Capacity] = new], h' = h, t' = Inc(t),
         index'[e] = index[e]
  PROVE  IndexOK(e)' /\ IndexSize(e)' = IndexSize(e)
<1>0. PICK s \in Nat, z \in Nat : s = IndexSize(e) /\ z = size
  BY IndexTypes, RingTypes DEF Bounded
<1>1. h \in 0 .. IdxMod - 1 /\ t \in 0 .. IdxMod - 1 /\ s <= z /\ z < Capacity
  BY <1>0, RingTypes DEF Bounded, IndexOK
<1>2. /\ \A n \in 0 .. Capacity - 1 : At(n)' = At(n)
      /\ \A n \in 0 .. z - 1 : buf'[At(n)] = buf[At(n)]
      /\ buf'[At(z)] = new
  BY <1>0, OthersKept DEF Offsets
<1>3. size' = z + 1
  BY <1>0, <1>1, Grows
<1>4. IndexSize(e)' = s
  BY <1>0 DEF IndexSize
<1>5. \A k : IndexAt(e, k)' = IndexAt(e, k) /\ Leads(e, k)' = Leads(e, k)
  BY DEF IndexAt, Leads
<1>6. \A n \in 0 .. z : n \in 0 .. Capacity - 1 /\ At(n)' = At(n)
  BY <1>0, <1>1, <1>2, Sizes
<1>7. \A n \in 0 .. z - 1 : /\ IndexOffset(At(n), e)' = IndexOffset(At(n), e)
                            /\ Involves(n, e)' <=> Involves(n, e)
  <2>1. \A n \in 0 .. z - 1 : At(n)' = At(n)
    BY <1>0, <1>6
  <2>2. QED  BY <1>2, <2>1 DEF IndexOffset, Involves
<1>8. ~Involves(z, e)'
  BY <1>0, <1>2, <1>6 DEF Involves
<1>9. Entries(e) = 0 .. s - 1 /\ Entries(e)' = 0 .. s - 1 /\ Offsets = 0 .. z - 1 /\ Offsets' = 0 .. z
  <2>1. (z + 1) - 1 = z
    BY <1>0
  <2>2. QED  BY <1>0, <1>3, <1>4, <2>1 DEF Entries, Offsets
<1>10. \A k \in 0 .. s - 1 : Leads(e, k)' \in 0 .. z /\ Involves(Leads(e, k), e)'
  <2>1. TAKE k \in 0 .. s - 1
  <2>2. PICK n \in 0 .. z - 1 : n = Leads(e, k) /\ Involves(n, e)
    BY <1>9 DEF IndexOK
  <2>3. Leads(e, k)' = n /\ Involves(n, e)' /\ n \in 0 .. z
    BY <1>0, <1>5, <1>7, <2>2
  <2>4. QED  BY <2>3 DEF Involves
<1>11. \A n \in 0 .. z : Involves(n, e)' =>
         IndexOffset(At(n), e)' \in 0 .. s - 1 /\ Leads(e, IndexOffset(At(n), e))' = n
  <2>1. SUFFICES ASSUME NEW n \in 0 .. z, Involves(n, e)'
                 PROVE  IndexOffset(At(n), e)' \in 0 .. s - 1 /\ Leads(e, IndexOffset(At(n), e))' = n
    OBVIOUS
  <2>2. n \in 0 .. z - 1
    BY <1>0, <1>8, <2>1
  <2>3. PICK k \in 0 .. s - 1 : k = IndexOffset(At(n), e) /\ Leads(e, k) = n
    BY <1>7, <1>9, <2>1, <2>2 DEF IndexOK
  <2>4. IndexOffset(At(n), e)' = k /\ Leads(e, k)' = n
    BY <1>5, <1>7, <2>2, <2>3
  <2>5. QED  BY <2>4 DEF Leads, IndexAt
<1>12. \A k, l \in 0 .. s - 1 : k < l => l - k <= Leads(e, l)' - Leads(e, k)'
  BY <1>5, <1>9 DEF IndexOK
<1>13. IndexSize(e)' <= size'
  BY <1>0, <1>1, <1>3, <1>4
<1>14. QED  BY <1>0, <1>4, <1>9, <1>10, <1>11, <1>12, <1>13 DEF IndexOK

\* When the oldest pattern goes, the offsets of the others are one less.
LEMMA PopShifts ==
  ASSUME Bounded, size > 0, buf' = buf, h' = Inc(h), t' = t, NEW e \in Edefs
  PROVE  /\ size' = size - 1
         /\ \A n \in Offsets' : /\ n + 1 \in Offsets /\ At(n)' = At(n + 1)
                                /\ Involves(n, e)' <=> Involves(n + 1, e)
         /\ \A x \in Int : (x - h) % Capacity # 0 => (x - h') % Capacity = ((x - h) % Capacity) - 1
<1>1. h \in 0 .. IdxMod - 1 /\ t \in 0 .. IdxMod - 1 /\ h \in Int /\ size \in Nat
  BY RingTypes DEF Bounded
<1>2. size' = size - 1 /\ \A k \in Int : (h' + k) % Capacity = At(k + 1)
  BY <1>1, Shrinks
<1>3. ASSUME NEW n \in Offsets'
      PROVE  n + 1 \in Offsets /\ At(n)' = At(n + 1) /\ (Involves(n, e)' <=> Involves(n + 1, e))
  <2>1. n \in Int /\ n + 1 \in Offsets
    BY <1>1, <1>2 DEF Offsets
  <2>2. At(n)' = At(n + 1)
    BY <1>2, <2>1 DEF At
  <2>3. QED  BY <2>1, <2>2 DEF Involves
<1>4. ASSUME NEW x \in Int, (x - h) % Capacity # 0
      PROVE  (x - h') % Capacity = ((x - h) % Capacity) - 1
  <2>1. h' \in Int /\ h' % Capacity = (h + 1) % Capacity
    BY <1>1, IncIs, Sizes
  <2>2. QED  BY <1>1, <1>4, <2>1, Sizes, ShiftDown
<1>5. QED  BY <1>2, <1>3, <1>4

\* Entries and patterns they lead to have the same distance at most.
LEMMA EntriesFit ==
  ASSUME Bounded, NEW e \in Edefs, IndexOK(e), ~Involves(0, e), size > 0
  PROVE  IndexSize(e) <= size - 1
<1>0. PICK s \in Nat, z \in Nat : s = IndexSize(e) /\ z = size /\ s <= z
  BY IndexTypes, RingTypes DEF Bounded, IndexOK
<1>1. CASE s = 0
  BY <1>0, <1>1
<1>2. CASE s # 0
  <2>1. 0 \in Entries(e) /\ s - 1 \in Entries(e)
    BY <1>0, <1>2 DEF Entries
  <2>2. /\ Leads(e, 0) \in 0 .. z - 1 /\ Leads(e, s - 1) \in 0 .. z - 1
        /\ 0 < s - 1 => (s - 1) - 0 <= Leads(e, s - 1) - Leads(e, 0)
    BY <1>0, <2>1 DEF IndexOK, Offsets
  <2>3. Leads(e, 0) # 0
    BY <1>0, <2>1, FrontEntry
  <2>4. QED  BY <1>0, <1>2, <2>2, <2>3
<1>3. QED  BY <1>1, <1>2

\* The index rings of the other edefs keep their entries.
LEMMA PopOther ==
  ASSUME Bounded, size > 0, NEW e \in Edefs, IndexOK(e), ~Involves(0, e),
         buf' = buf, h' = Inc(h), t' = t, index'[e] = index[e]
  PROVE  IndexOK(e)' /\ IndexSize(e)' = IndexSize(e)
<1>0. PICK s \in Nat, z \in Nat : s = IndexSize(e) /\ z = size /\ s <= z - 1
  BY IndexTypes, RingTypes, EntriesFit DEF Bounded, IndexOK
<1>1. /\ size' = z - 1
      /\ \A n \in Offsets' : /\ n + 1 \in Offsets /\ At(n)' = At(n + 1)
                             /\ Involves(n, e)' <=> Involves(n + 1, e)
      /\ \A x \in Int : (x - h) % Capacity # 0 => (x - h') % Capacity = ((x - h) % Capacity) - 1
  BY <1>0, PopShifts
<1>2. IndexSize(e)' = s
  BY <1>0 DEF IndexSize
<1>3. Entries(e) = 0 .. s - 1 /\ Entries(e)' = 0 .. s - 1 /\ Offsets = 0 .. z - 1 /\ Offsets' = 0 .. z - 2
  <2>1. (z - 1) - 1 = z - 2
    BY <1>0
  <2>2. QED  BY <1>0, <1>1, <1>2, <2>1 DEF Entries, Offsets
<1>4. \A k \in 0 .. s - 1 : /\ Leads(e, k) \in 1 .. z - 1 /\ Involves(Leads(e, k), e)
                            /\ Leads(e, k)' = Leads(e, k) - 1
  <2> TAKE k \in 0 .. s - 1
  <2>1. Leads(e, k) \in 0 .. z - 1 /\ Involves(Leads(e, k), e)
    BY <1>3 DEF IndexOK
  <2>2. Leads(e, k) # 0
    BY <1>0, <1>3, FrontEntry
  <2>3. k \in Int /\ IndexAt(e, k) \in Int
    BY <1>0, IndexTypes DEF Bounded
  <2>4. (IndexAt(e, k) - h') % Capacity = ((IndexAt(e, k) - h) % Capacity) - 1
    BY <1>1, <2>2, <2>3 DEF Leads
  <2>5. IndexAt(e, k)' = IndexAt(e, k)
    BY DEF IndexAt
  <2>6. QED  BY <1>0, <2>1, <2>2, <2>4, <2>5 DEF Leads
<1>5. \A k \in 0 .. s - 1 : Leads(e, k)' \in 0 .. z - 2 /\ Involves(Leads(e, k), e)'
  <2> TAKE k \in 0 .. s - 1
  <2>1. PICK n \in 0 .. z - 2 : n = Leads(e, k)' /\ n + 1 = Leads(e, k)
    BY <1>0, <1>4
  <2>2. Involves(n, e)'
    BY <1>1, <1>3, <1>4, <2>1
  <2>3. QED  BY <2>1, <2>2 DEF Involves
<1>6. \A k, l \in 0 .. s - 1 : k < l => l - k <= Leads(e, l)' - Leads(e, k)'
  <2> TAKE k \in 0 .. s - 1, l \in 0 .. s - 1
  <2> HAVE k < l
  <2>1. l - k <= Leads(e, l) - Leads(e, k)
    BY <1>3 DEF IndexOK
  <2>2. QED  BY <1>0, <1>4, <2>1
<1>7. \A n \in 0 .. z - 2 : Involves(n, e)' =>
        IndexOffset(At(n), e)' \in 0 .. s - 1 /\ Leads(e, IndexOffset(At(n), e))' = n
  <2> TAKE n \in 0 .. z - 2
  <2> HAVE Involves(n, e)'
  <2>1. n + 1 \in Offsets /\ At(n)' = At(n + 1) /\ Involves(n + 1, e)
    BY <1>1, <1>3
  <2>2. PICK k \in 0 .. s - 1 : k = IndexOffset(At(n + 1), e) /\ Leads(e, k) = n + 1
    BY <1>3, <2>1 DEF IndexOK
  <2>3. IndexOffset(At(n), e)' = k
    BY <2>1, <2>2 DEF IndexOffset
  <2>4. Leads(e, k)' = n
    BY <1>0, <1>4, <2>2
  <2>5. QED  BY <2>3, <2>4 DEF Leads, IndexAt
<1>8. IndexSize(e)' <= size'
  BY <1>0, <1>1, <1>2
<1>9. QED  BY <1>0, <1>2, <1>3, <1>5, <1>6, <1>7, <1>8 DEF IndexOK

\* The index rings of the oldest pattern lose their first entry.
LEMMA PopIndexed ==
  ASSUME Bounded, size > 0, NEW e \in Edefs, IndexOK(e), Involves(0, e),
         buf' = buf, h' = Inc(h), t' = t, index'[e] = [index[e] EXCEPT !.h = Inc(@)]
  PROVE  IndexOK(e)' /\ IndexSize(e)' = IndexSize(e) - 1
<1>0. PICK s \in Nat, z \in Nat : s = IndexSize(e) /\ z = size /\ s <= z
  BY IndexTypes, RingTypes DEF Bounded, IndexOK
<1>1. /\ size' = z - 1
      /\ \A n \in Offsets' : /\ n + 1 \in Offsets /\ At(n)' = At(n + 1)
                             /\ Involves(n, e)' <=> Involves(n + 1, e)
      /\ \A x \in Int : (x - h) % Capacity # 0 => (x - h') % Capacity = ((x - h) % Capacity) - 1
  BY <1>0, PopShifts
<1>2. /\ 0 \in Entries(e) /\ Leads(e, 0) = 0 /\ s > 0
  <2>1. 0 \in Entries(e) /\ Leads(e, 0) = 0
    BY FrontEntry
  <2>2. QED  BY <1>0, <2>1 DEF Entries
<1>3. PICK ih \in Int, it \in Int, jh \in Int :
        /\ ih = index[e].h /\ it = index[e].t /\ jh = Inc(ih)
        /\ index'[e].h = jh /\ index'[e].t = it /\ index'[e].buf = index[e].buf
        /\ jh % IdxMod = (ih + 1) % IdxMod /\ jh % Capacity = (ih + 1) % Capacity
  <2>1. index[e] \in [buf : [Elements -> 0 .. PatMod - 1], h : 0 .. IdxMod - 1, t : 0 .. IdxMod - 1]
    BY DEF Bounded, TypeOK
  <2>2. index[e].h \in 0 .. IdxMod - 1 /\ index[e].h \in Int /\ index[e].t \in Int
    BY IndexTypes DEF Bounded
  <2>3. Inc(index[e].h) \in Int
    BY <2>2, IncIs, Sizes
  <2>4. /\ index'[e].h = Inc(index[e].h) /\ index'[e].t = index[e].t
        /\ index'[e].buf = index[e].buf
    BY <2>1
  <2>5. QED  BY <2>2, <2>3, <2>4, IncIs
<1>4. IndexSize(e)' = s - 1
  <2>1. (it - ih) % IdxMod = s
    BY <1>0, <1>3 DEF IndexSize
  <2>2. (it - jh) % IdxMod = ((it - ih) % IdxMod) - 1
    <3>1. (it - ih) % IdxMod # 0
      BY <1>0, <1>2, <2>1
    <3>2. QED  BY <1>3, <3>1, Sizes, ShiftDown
  <2>3. QED  BY <1>3, <2>1, <2>2 DEF IndexSize
<1>5. \A k \in Int : IndexAt(e, k)' = IndexAt(e, k + 1)
  <2> TAKE k \in Int
  <2>1. (jh + k) % Capacity = ((ih + 1) + k) % Capacity
    <3>1. ih + 1 \in Int
      OBVIOUS
    <3>2. QED  BY <1>3, <3>1, Sizes, SameRemainder
  <2>2. (ih + 1) + k = ih + (k + 1)
    OBVIOUS
  <2>3. QED  BY <1>3, <2>1, <2>2 DEF IndexAt
<1>6. Entries(e) = 0 .. s - 1 /\ Entries(e)' = 0 .. s - 2 /\ Offsets = 0 .. z - 1 /\ Offsets' = 0 .. z - 2
  <2>1. (z - 1) - 1 = z - 2 /\ (s - 1) - 1 = s - 2
    BY <1>0
  <2>2. QED  BY <1>0, <1>1, <1>4, <2>1 DEF Entries, Offsets
<1>7. \A k \in 1 .. s - 1 : /\ Leads(e, k) \in 1 .. z - 1 /\ Involves(Leads(e, k), e)
                            /\ Leads(e, k - 1)' = Leads(e, k) - 1
  <2> TAKE k \in 1 .. s - 1
  <2>0. k \in 0 .. s - 1 /\ 0 < k /\ k \in Int /\ k - 1 \in Int /\ (k - 1) + 1 = k
    BY <1>0
  <2>1. Leads(e, k) \in 0 .. z - 1 /\ Involves(Leads(e, k), e)
    BY <1>6, <2>0 DEF IndexOK
  <2>2. k - 0 <= Leads(e, k) - Leads(e, 0)
    BY <1>2, <1>6, <2>0 DEF IndexOK
  <2>3. Leads(e, k) # 0
    BY <1>2, <2>0, <2>1, <2>2
  <2>4. IndexAt(e, k) \in Int
    BY <2>0, IndexTypes DEF Bounded
  <2>5. (IndexAt(e, k) - h') % Capacity = ((IndexAt(e, k) - h) % Capacity) - 1
    BY <1>1, <2>3, <2>4 DEF Leads
  <2>6. IndexAt(e, k - 1)' = IndexAt(e, k)
    BY <1>5, <2>0
  <2>7. QED  BY <1>0, <2>1, <2>3, <2>5, <2>6 DEF Leads
<1>8. \A k \in 0 .. s - 2 : /\ k + 1 \in 1 .. s - 1 /\ Leads(e, k)' = Leads(e, k + 1) - 1
                            /\ Leads(e, k)' \in 0 .. z - 2 /\ Involves(Leads(e, k), e)'
  <2> TAKE k \in 0 .. s - 2
  <2>0. k + 1 \in 1 .. s - 1 /\ (k + 1) - 1 = k
    BY <1>0
  <2>1. Leads(e, k + 1) \in 1 .. z - 1 /\ Involves(Leads(e, k + 1), e) /\ Leads(e, k)' = Leads(e, k + 1) - 1
    <3>1. Leads(e, (k + 1) - 1)' = Leads(e, k + 1) - 1
      BY <1>7, <2>0
    <3>2. QED  BY <1>7, <2>0, <3>1
  <2>2. PICK n \in 0 .. z - 2 : n = Leads(e, k)' /\ n + 1 = Leads(e, k + 1)
    BY <1>0, <2>1
  <2>3. Involves(n, e)'
    BY <1>1, <1>6, <2>1, <2>2
  <2>4. QED  BY <2>0, <2>1, <2>2, <2>3 DEF Involves
<1>9. \A k, l \in 0 .. s - 2 : k < l => l - k <= Leads(e, l)' - Leads(e, k)'
  <2> TAKE k \in 0 .. s - 2, l \in 0 .. s - 2
  <2> HAVE k < l
  <2>1. k + 1 \in 0 .. s - 1 /\ l + 1 \in 0 .. s - 1 /\ k + 1 < l + 1
    BY <1>0
  <2>2. (l + 1) - (k + 1) <= Leads(e, l + 1) - Leads(e, k + 1)
    BY <1>6, <2>1 DEF IndexOK
  <2>3. Leads(e, l + 1) \in Int /\ Leads(e, k + 1) \in Int
    BY <1>0, <1>7, <1>8
  <2>4. QED  BY <1>0, <1>8, <2>2, <2>3
<1>10. \A n \in 0 .. z - 2 : Involves(n, e)' =>
         IndexOffset(At(n), e)' \in 0 .. s - 2 /\ Leads(e, IndexOffset(At(n), e))' = n
  <2> TAKE n \in 0 .. z - 2
  <2> HAVE Involves(n, e)'
  <2>1. n + 1 \in Offsets /\ At(n)' = At(n + 1) /\ Involves(n + 1, e)
    BY <1>1, <1>6
  <2>2. PICK k \in 0 .. s - 1 : k = IndexOffset(At(n + 1), e) /\ Leads(e, k) = n + 1
    BY <1>6, <2>1 DEF IndexOK
  <2>3. k # 0
    BY <1>0, <1>2, <2>2
  <2>4. PICK x \in Int : x = buf[At(n + 1)].seqIdx[e]
    <3>1. n + 1 \in 0 .. Capacity - 1
      BY <1>0, <2>1, Sizes DEF Offsets, Bounded
    <3>2. At(n + 1) \in Elements
      BY <3>1, AtIs, RingTypes DEF Bounded
    <3>3. QED  BY <3>2, IndexTypes DEF Bounded
  <2>5. (x - ih) % Capacity = k
    BY <1>3, <2>2, <2>4 DEF IndexOffset
  <2>6. (x - jh) % Capacity = ((x - ih) % Capacity) - 1
    BY <1>3, <2>3, <2>5, Sizes, ShiftDown
  <2>7. IndexOffset(At(n), e)' = k - 1
    BY <1>3, <2>1, <2>4, <2>5, <2>6 DEF IndexOffset
  <2>8. k - 1 \in 0 .. s - 2 /\ k \in 1 .. s - 1
    BY <1>0, <2>2, <2>3
  <2>9. Leads(e, k - 1)' = n
    BY <1>0, <1>7, <2>2, <2>8
  <2>10. QED  BY <2>7, <2>8, <2>9 DEF Leads, IndexAt
<1>11. IndexSize(e)' <= size'
  BY <1>0, <1>1, <1>4
<1>12. QED  BY <1>0, <1>4, <1>6, <1>8, <1>9, <1>10, <1>11 DEF IndexOK

-----------------------------------------------------------------------------
(* The invariant. *)

\* Time stamps increase from the front to the back.
TsInv ==
  /\ \A m, n \in Offsets : m < n => buf[At(m)].ts < buf[At(n)].ts
  /\ \A n \in Offsets : buf[At(n)].ts <= lastTs

\* The active edefs are those whose index rings have an entry.
ActiveInv == activeEdefSet = {e \in Edefs : IndexSize(e) > 0}

\* Nobody holds a reference to an element outside the buffer.
HeldInv == \A i \in Elements : ref[i] > 0 => \E n \in Offsets : i = At(n)

BufferInv == Bounded /\ IndexInv /\ TsInv /\ ActiveInv /\ HeldInv

LEMMA InitInv == Init => BufferInv
<1> SUFFICES ASSUME Init
             PROVE  BufferInv
  OBVIOUS
<1> USE DEF Init
<1>1. h = 0 /\ t = 0 /\ size = 0 /\ 0 \in 0 .. IdxMod - 1 /\ 0 \in 0 .. PatMod - 1
  BY Sizes DEF size
<1>2. Offsets = {}
  BY <1>1 DEF Offsets
<1>3. \A e \in Edefs : IndexSize(e) = 0
  <2>1. (0 - 0) % IdxMod = 0
    BY Sizes
  <2>2. QED  BY <2>1 DEF IndexSize
<1>4. \A e \in Edefs : Entries(e) = {}
  BY <1>3 DEF Entries
<1>5. IndexInv
  BY <1>1, <1>2, <1>3, <1>4 DEF IndexInv, IndexOK
<1>6. TypeOK
  <2>1. /\ {} \subseteq Edefs /\ 0 \in 0 .. MaxTs /\ 0 \in 0 .. MaxRefs
        /\ 0 \in 0 .. PatMod - 1
    BY <1>1, PatternBufferAssumption
  <2>2. buf \in [Elements -> [ts : 0 .. MaxTs, init : SUBSET Edefs, act : SUBSET Edefs,
                              seqIdx : [Edefs -> 0 .. PatMod - 1]]]
    BY <2>1
  <2>3. index \in [Edefs -> [buf : [Elements -> 0 .. PatMod - 1],
                             h : 0 .. IdxMod - 1, t : 0 .. IdxMod - 1]]
    BY <1>1, <2>1
  <2>4. ref \in [Elements -> 0 .. MaxRefs]
    BY <2>1
  <2>5. QED  BY <1>1, <2>1, <2>2, <2>3, <2>4 DEF TypeOK
<1>7. ActiveInv
  BY <1>3 DEF ActiveInv
<1>8. TsInv
  BY <1>2 DEF TsInv
<1>9. HeldInv
  <2>1. \A i \in Elements : ref[i] = 0
    OBVIOUS
  <2>2. QED  BY <2>1 DEF HeldInv
<1>10. QED  BY <1>1, <1>5, <1>6, <1>7, <1>8, <1>9, Sizes DEF BufferInv, Bounded

\* While the ring and the index rings stay, so does what they say.
LEMMA RingStays ==
  ASSUME UNCHANGED <<ringVars, index>>
  PROVE  /\ size' = size /\ Offsets' = Offsets
         /\ \A n : At(n)' = At(n)
         /\ \A e : IndexSize(e)' = IndexSize(e) /\ (IndexOK(e)' <=> IndexOK(e))
<1>1. h' = h /\ t' = t /\ buf' = buf /\ index' = index
  BY DEF ringVars
<1>2. size' = size
  BY <1>1 DEF size
<1>3. Offsets' = Offsets /\ \A n : At(n)' = At(n)
  BY <1>1, <1>2 DEF Offsets, At
<1>4. ASSUME NEW e
      PROVE  IndexSize(e)' = IndexSize(e) /\ (IndexOK(e)' <=> IndexOK(e))
  <2>1. IndexSize(e)' = IndexSize(e)
    BY <1>1 DEF IndexSize
  <2>2. \A k : IndexAt(e, k)' = IndexAt(e, k) /\ Leads(e, k)' = Leads(e, k)
    BY <1>1 DEF IndexAt, Leads
  <2>3. \A n : Involves(n, e)' <=> Involves(n, e)
    BY <1>1, <1>3 DEF Involves
  <2>4. \A n : IndexOffset(At(n), e)' = IndexOffset(At(n), e)
    BY <1>1, <1>3 DEF IndexOffset
  <2>5. Entries(e)' = Entries(e)
    BY <2>1 DEF Entries
  <2>6. \A n : Leads(e, IndexOffset(At(n), e))' = Leads(e, IndexOffset(At(n), e))
    BY <1>1, <1>3 DEF IndexOffset, Leads, IndexAt
  <2>7. \A k : Involves(Leads(e, k), e)' <=> Involves(Leads(e, k), e)
    BY <1>1 DEF Involves, Leads, IndexAt, At
  <2>8. QED  BY <1>2, <1>3, <2>1, <2>2, <2>3, <2>4, <2>5, <2>6, <2>7 DEF IndexOK
<1>5. QED  BY <1>2, <1>3, <1>4

\* No element has more references than there are in all.
LEMMA RefsCounted ==
  ASSUME TypeOK, NEW i \in Elements
  PROVE  ref[i] <= Cardinality(References)
<1> DEFINE R == {i} \X (1 .. ref[i])
<1>1. ref[i] \in Nat /\ ref[i] <= MaxRefs /\ MaxRefs \in Nat
  BY PatternBufferAssumption DEF TypeOK
<1>2. IsFiniteSet(References)
  <2>1. IsFiniteSet(1 .. MaxRefs) /\ IsFiniteSet(Elements)
    BY <1>1, FS_Interval, Sizes DEF Elements
  <2>2. IsFiniteSet(Elements \X (1 .. MaxRefs))
    BY <2>1, FS_Product
  <2>3. References \subseteq Elements \X (1 .. MaxRefs)
    BY DEF References
  <2>4. QED  BY <2>2, <2>3, FS_Subset
<1>3. R \subseteq References
  BY <1>1 DEF References
<1>4. IsFiniteSet(R) /\ Cardinality(R) = ref[i]
  <2>1. IsFiniteSet({i}) /\ Cardinality({i}) = 1
    BY FS_Singleton
  <2>2. IsFiniteSet(1 .. ref[i]) /\ Cardinality(1 .. ref[i]) = ref[i]
    <3>1. PICK k \in Nat : k = ref[i]
      BY <1>1
    <3>2. IsFiniteSet(1 .. k) /\ Cardinality(1 .. k) = IF 1 > k THEN 0 ELSE k - 1 + 1
      BY FS_Interval
    <3>3. Cardinality(1 .. k) = k
      BY <3>2
    <3>4. QED  BY <3>1, <3>2, <3>3
  <2>3. IsFiniteSet(R) /\ Cardinality(R) = 1 * ref[i]
    BY <2>1, <2>2, FS_Product
  <2>4. QED  BY <1>1, <2>3
<1>5. Cardinality(R) <= Cardinality(References)
  BY <1>2, <1>3, FS_Subset
<1>6. QED  BY <1>4, <1>5

\* A step that only changes the references.
LEMMA IncRefInv ==
  ASSUME BufferInv, NEW i, incRef(i), \E n \in Offsets : i = At(n)
  PROVE  BufferInv'
<1>1. /\ i \in Elements /\ Cardinality(References) < MaxRefs
      /\ ref' = [ref EXCEPT ![i] = @ + 1]
      /\ UNCHANGED <<ringVars, index, activeEdefSet, lastTs>>
      /\ TypeOK /\ size <= Capacity
  BY DEF BufferInv, Bounded, incRef
<1>2. ref \in [Elements -> 0 .. MaxRefs] /\ MaxRefs \in Nat /\ ref[i] \in Nat
  BY <1>1, PatternBufferAssumption DEF TypeOK
<1>3. ref[i] <= Cardinality(References)
  BY <1>1, RefsCounted
<1>4. Cardinality(References) \in Nat
  <2>1. IsFiniteSet(References)
    <3>1. IsFiniteSet(1 .. MaxRefs) /\ IsFiniteSet(Elements)
      BY <1>2, FS_Interval, Sizes DEF Elements
    <3>2. IsFiniteSet(Elements \X (1 .. MaxRefs))
      BY <3>1, FS_Product
    <3>3. References \subseteq Elements \X (1 .. MaxRefs)
      BY DEF References
    <3>4. QED  BY <3>2, <3>3, FS_Subset
  <2>2. QED  BY <2>1, FS_CardinalityType
<1>5. ref' \in [Elements -> 0 .. MaxRefs]
  <2>1. ref[i] + 1 \in 0 .. MaxRefs
    BY <1>1, <1>2, <1>3, <1>4
  <2>2. QED  BY <1>1, <1>2, <2>1
<1>6. h' = h /\ t' = t /\ buf' = buf /\ index' = index /\ activeEdefSet' = activeEdefSet /\ lastTs' = lastTs
  BY <1>1 DEF ringVars
<1>7. TypeOK'
  BY <1>1, <1>5, <1>6 DEF TypeOK
<1>8. /\ size' = size /\ Offsets' = Offsets
      /\ \A n : At(n)' = At(n)
      /\ \A e : IndexSize(e)' = IndexSize(e) /\ (IndexOK(e)' <=> IndexOK(e))
  BY <1>1, RingStays
<1>9. IndexInv'
  BY <1>8 DEF BufferInv, IndexInv
<1>10. TsInv'
  BY <1>6, <1>8 DEF BufferInv, TsInv
<1>11. ActiveInv'
  BY <1>6, <1>8 DEF BufferInv, ActiveInv
<1>12. HeldInv'
  BY <1>1, <1>2, <1>8 DEF BufferInv, HeldInv
<1>13. QED  BY <1>1, <1>7, <1>8, <1>9, <1>10, <1>11, <1>12 DEF BufferInv, Bounded

LEMMA PutInv ==
  ASSUME BufferInv, NEW i \in Held, patternPut(i)
  PROVE  BufferInv'
<1>1. /\ i \in Elements /\ ref[i] > 0
      /\ ref' = [ref EXCEPT ![i] = @ - 1]
      /\ UNCHANGED <<ringVars, index, activeEdefSet, lastTs>>
      /\ TypeOK /\ size <= Capacity
  BY DEF BufferInv, Bounded, patternPut, Held
<1>2. ref \in [Elements -> 0 .. MaxRefs] /\ MaxRefs \in Nat /\ ref[i] \in Nat
  BY <1>1, PatternBufferAssumption DEF TypeOK
<1>3. ref' \in [Elements -> 0 .. MaxRefs]
  <2>1. ref[i] - 1 \in 0 .. MaxRefs
    BY <1>1, <1>2
  <2>2. QED  BY <1>1, <1>2, <2>1
<1>4. h' = h /\ t' = t /\ buf' = buf /\ index' = index /\ activeEdefSet' = activeEdefSet /\ lastTs' = lastTs
  BY <1>1 DEF ringVars
<1>5. TypeOK'
  BY <1>1, <1>3, <1>4 DEF TypeOK
<1>6. /\ size' = size /\ Offsets' = Offsets
      /\ \A n : At(n)' = At(n)
      /\ \A e : IndexSize(e)' = IndexSize(e) /\ (IndexOK(e)' <=> IndexOK(e))
  BY <1>1, RingStays
<1>7. IndexInv' /\ TsInv' /\ ActiveInv'
  BY <1>4, <1>6 DEF BufferInv, IndexInv, TsInv, ActiveInv
<1>8. HeldInv'
  <2>1. \A j \in Elements : ref'[j] > 0 => ref[j] > 0
    BY <1>1, <1>2
  <2>2. QED  BY <1>6, <2>1 DEF BufferInv, HeldInv
<1>9. QED  BY <1>1, <1>5, <1>6, <1>7, <1>8 DEF BufferInv, Bounded

LEMMA PushInv ==
  ASSUME BufferInv, NEW shape \in Shapes, lastTs < MaxTs, PushBack(shape)
  PROVE  BufferInv'
<1> DEFINE mask == anyMask(shape)
           new == [ts |-> lastTs + 1, init |-> shape.init, act |-> shape.act,
                   seqIdx |-> [e \in Edefs |->
                     IF e \in mask THEN index[e].t % PatMod
                                   ELSE buf[t % Capacity].seqIdx[e]]]
<1>1. /\ TypeOK /\ size <= Capacity /\ lastTs \in 0 .. MaxTs /\ MaxTs \in Nat
      /\ lastTs' = lastTs + 1 /\ ref' = ref
      /\ lastTs' \in 0 .. MaxTs
  BY PatternBufferAssumption DEF BufferInv, Bounded, TypeOK, PushBack
<1>2. CASE UNCHANGED <<ringVars, index, activeEdefSet>>
  <2>1. h' = h /\ t' = t /\ buf' = buf /\ index' = index /\ activeEdefSet' = activeEdefSet
    BY <1>2 DEF ringVars
  <2>2. TypeOK'
    BY <1>1, <2>1 DEF TypeOK
  <2>3. /\ size' = size /\ Offsets' = Offsets
        /\ \A n : At(n)' = At(n)
        /\ \A e : IndexSize(e)' = IndexSize(e) /\ (IndexOK(e)' <=> IndexOK(e))
    BY <1>2, RingStays
  <2>4. IndexInv' /\ ActiveInv' /\ HeldInv'
    BY <1>1, <2>1, <2>3 DEF BufferInv, IndexInv, ActiveInv, HeldInv
  <2>5. TsInv'
    <3>1. \A n \in Offsets : buf[At(n)].ts <= lastTs'
      <4> TAKE n \in Offsets
      <4>1. At(n) \in Elements
        <5>1. n \in 0 .. Capacity - 1
          BY <1>1, RingTypes, Sizes DEF Offsets
        <5>2. QED  BY <1>1, <5>1, AtIs, RingTypes
      <4>2. buf[At(n)].ts \in 0 .. MaxTs
        BY <1>1, <4>1 DEF TypeOK
      <4>3. buf[At(n)].ts <= lastTs
        BY DEF BufferInv, TsInv
      <4>4. QED  BY <1>1, <4>2, <4>3
    <3>2. QED  BY <2>1, <2>3, <3>1 DEF BufferInv, TsInv
  <2>6. QED  BY <1>1, <2>2, <2>3, <2>4, <2>5 DEF BufferInv, Bounded
<1>3. CASE ~full /\ Store(new) /\ finalizePush(new, t)
  <2>1. /\ buf' = [buf EXCEPT ![t % Capacity] = new] /\ t' = Inc(t) /\ h' = h
        /\ activeEdefSet' = activeEdefSet \cup anyMask(new)
        /\ index' = [e \in Edefs |->
             IF e \in anyMask(new)
               THEN [index[e] EXCEPT !.buf[index[e].t % Capacity] = t % PatMod, !.t = Inc(@)]
               ELSE index[e]]
    BY <1>3 DEF Store, finalizePush
  <2>2. anyMask(new) = mask /\ new.ts = lastTs + 1
    BY DEF anyMask
  <2>3. mask \subseteq Edefs /\ shape.init \subseteq Edefs /\ shape.act \subseteq Edefs
    BY PatternBufferAssumption DEF anyMask
  <2>4. /\ size < Capacity /\ h \in 0 .. IdxMod - 1 /\ t \in 0 .. IdxMod - 1 /\ size \in Nat
        /\ h \in Int /\ t \in Int
    BY <1>1, <1>3, RingTypes, Sizes DEF full
  <2>5. size' = size + 1
    BY <2>1, <2>4, Grows
  <2>6. /\ \A n \in 0 .. Capacity - 1 : At(n)' = At(n)
        /\ \A n \in Offsets : buf'[At(n)] = buf[At(n)]
        /\ buf'[At(size)] = new
    BY <2>1, <2>4, OthersKept DEF BufferInv
  <2>7. TypeOK'
    <3>1. t % Capacity \in Elements
      BY <2>4, Sizes DEF Elements
    <3>2. \A e \in Edefs : /\ index[e].t \in 0 .. IdxMod - 1
                           /\ index[e].t % PatMod \in 0 .. PatMod - 1
                           /\ buf[t % Capacity].seqIdx[e] \in 0 .. PatMod - 1
      <4> TAKE e \in Edefs
      <4>1. index[e].t \in 0 .. IdxMod - 1 /\ index[e].t \in Int
        BY <1>1, IndexTypes
      <4>2. index[e].t % PatMod \in 0 .. PatMod - 1
        BY <4>1, Sizes, Remainder
      <4>3. buf[t % Capacity].seqIdx[e] \in 0 .. PatMod - 1
        BY <1>1, <3>1 DEF TypeOK
      <4>4. QED  BY <4>1, <4>2, <4>3
    <3>3. new.seqIdx \in [Edefs -> 0 .. PatMod - 1]
      BY <3>2
    <3>4. new \in [ts : 0 .. MaxTs, init : SUBSET Edefs, act : SUBSET Edefs,
                   seqIdx : [Edefs -> 0 .. PatMod - 1]]
      <4>1. lastTs + 1 \in 0 .. MaxTs
        BY <1>1
      <4>2. QED  BY <2>3, <3>3, <4>1
    <3> HIDE DEF new
    <3>5. buf' \in [Elements -> [ts : 0 .. MaxTs, init : SUBSET Edefs, act : SUBSET Edefs,
                                 seqIdx : [Edefs -> 0 .. PatMod - 1]]]
      BY <1>1, <2>1, <3>1, <3>4 DEF TypeOK
    <3>6. t' \in 0 .. IdxMod - 1
      BY <2>1, <2>4, IncIs
    <3>7. index' \in [Edefs -> [buf : [Elements -> 0 .. PatMod - 1],
                                h : 0 .. IdxMod - 1, t : 0 .. IdxMod - 1]]
      <4>1. t % PatMod \in 0 .. PatMod - 1
        BY <2>4, Sizes, Remainder
      <4>2. \A e \in Edefs :
              /\ index[e] \in [buf : [Elements -> 0 .. PatMod - 1],
                               h : 0 .. IdxMod - 1, t : 0 .. IdxMod - 1]
              /\ Inc(index[e].t) \in 0 .. IdxMod - 1
        BY <1>1, <3>2, IncIs DEF TypeOK
      <4>3. \A e \in Edefs : index'[e] \in [buf : [Elements -> 0 .. PatMod - 1],
                                            h : 0 .. IdxMod - 1, t : 0 .. IdxMod - 1]
        BY <2>1, <4>1, <4>2
      <4>4. QED  BY <2>1, <4>3
    <3>8. activeEdefSet' \subseteq Edefs
      BY <1>1, <2>1, <2>2, <2>3 DEF TypeOK
    <3>9. QED  BY <1>1, <2>1, <2>4, <3>5, <3>6, <3>7, <3>8 DEF TypeOK
  <2>8. \A e \in Edefs : IndexOK(e)' /\ (IndexSize(e)' > 0 <=> (IndexSize(e) > 0 \/ e \in mask))
    <3> TAKE e \in Edefs
    <3>0. IndexOK(e) /\ Bounded /\ IndexSize(e) \in Nat
      BY <1>1, IndexTypes DEF BufferInv, IndexInv
    <3>1. CASE e \in mask
      <4>1. new.seqIdx[e] = index[e].t % PatMod
        BY <3>1
      <4>2. index'[e] = [index[e] EXCEPT !.buf[index[e].t % Capacity] = t % PatMod, !.t = Inc(@)]
        BY <2>1, <2>2, <3>1
      <4> HIDE DEF new
      <4>3. IndexOK(e)' /\ IndexSize(e)' = IndexSize(e) + 1
        BY <2>1, <2>2, <2>4, <3>0, <3>1, <4>1, <4>2, PushIndexed
      <4>4. QED  BY <3>0, <3>1, <4>3
    <3>2. CASE e \notin mask
      <4>1. index'[e] = index[e]
        BY <2>1, <2>2, <3>2
      <4> HIDE DEF new
      <4>2. IndexOK(e)' /\ IndexSize(e)' = IndexSize(e)
        BY <2>1, <2>2, <2>4, <3>0, <3>2, <4>1, PushOther
      <4>3. QED  BY <3>2, <4>2
    <3>3. QED  BY <3>1, <3>2
  <2>9. ActiveInv'
    BY <2>1, <2>2, <2>3, <2>8 DEF BufferInv, ActiveInv
  <2>10. /\ \A n \in Offsets' : n \in Offsets \/ n = size
         /\ \A n \in Offsets : n < size /\ n \in Offsets' /\ n \in Int
         /\ \A n \in Offsets' : At(n)' = At(n) /\ n \in Int
    <3>1. Offsets' = 0 .. size /\ \A n \in Offsets' : n \in 0 .. Capacity - 1
      <4>1. (size + 1) - 1 = size
        BY <2>4
      <4>2. Offsets' = 0 .. size
        BY <2>5, <4>1 DEF Offsets
      <4>3. QED  BY <2>4, <4>2, Sizes
    <3>2. PICK z \in Nat : z = size /\ Offsets = 0 .. z - 1
      BY <2>4 DEF Offsets
    <3>3. QED  BY <2>6, <3>1, <3>2
  <2>11. TsInv'
    <3>1. \A n \in Offsets : /\ buf'[At(n)].ts = buf[At(n)].ts
                             /\ buf[At(n)].ts \in 0 .. MaxTs /\ buf[At(n)].ts <= lastTs
      <4> TAKE n \in Offsets
      <4>1. At(n) \in Elements
        <5>1. n \in 0 .. Capacity - 1
          BY <2>4, Sizes DEF Offsets
        <5>2. QED  BY <2>4, <5>1, AtIs
      <4>2. QED  BY <1>1, <2>6, <4>1 DEF TypeOK, BufferInv, TsInv
    <3>2. buf'[At(size)].ts = lastTs + 1
      BY <2>2, <2>6
    <3>3. ASSUME NEW m \in Offsets', NEW n \in Offsets', m < n
          PROVE  buf'[At(m)].ts < buf'[At(n)].ts
      <4>1. m \in Offsets
        BY <2>4, <2>10, <3>3
      <4>2. CASE n \in Offsets
        BY <3>1, <3>3, <4>1, <4>2 DEF BufferInv, TsInv
      <4>3. CASE n = size
        BY <1>1, <3>1, <3>2, <4>1, <4>3
      <4>4. QED  BY <2>10, <4>2, <4>3
    <3>4. ASSUME NEW n \in Offsets'
          PROVE  buf'[At(n)].ts <= lastTs'
      <4>1. CASE n \in Offsets
        BY <1>1, <3>1, <4>1
      <4>2. CASE n = size
        BY <1>1, <3>2, <4>2
      <4>3. QED  BY <2>10, <4>1, <4>2
    <3>5. QED  BY <2>10, <3>3, <3>4 DEF TsInv
  <2>12. HeldInv'
    <3>1. ASSUME NEW i \in Elements, ref'[i] > 0
          PROVE  \E n \in Offsets' : i = At(n)'
      <4>1. PICK n \in Offsets : i = At(n)
        BY <1>1, <3>1 DEF BufferInv, HeldInv
      <4>2. QED  BY <2>10, <4>1
    <3>2. QED  BY <3>1 DEF HeldInv
  <2>13. size' <= Capacity
    BY <2>4, <2>5, Sizes
  <2>14. QED  BY <2>7, <2>8, <2>9, <2>11, <2>12, <2>13 DEF BufferInv, Bounded, IndexInv
<1>4. QED  BY <1>2, <1>3 DEF PushBack

\* An edef is active when some pattern in the buffer involves it.
LEMMA EntryForPattern ==
  ASSUME Bounded, NEW e \in Edefs, IndexOK(e)
  PROVE  IndexSize(e) > 0 <=> \E n \in Offsets : Involves(n, e)
<1>1. IndexSize(e) \in Nat
  BY IndexTypes DEF Bounded
<1>2. ASSUME IndexSize(e) > 0
      PROVE  \E n \in Offsets : Involves(n, e)
  <2>1. 0 \in Entries(e)
    BY <1>1, <1>2 DEF Entries
  <2>2. QED  BY <2>1 DEF IndexOK
<1>3. ASSUME NEW n \in Offsets, Involves(n, e)
      PROVE  IndexSize(e) > 0
  <2>1. IndexOffset(At(n), e) \in Entries(e)
    BY <1>3 DEF IndexOK
  <2>2. QED  BY <1>1, <2>1 DEF Entries
<1>4. QED  BY <1>2, <1>3

LEMMA PopInv ==
  ASSUME BufferInv, Pop
  PROVE  BufferInv'
<1>1. /\ TypeOK /\ Bounded /\ size <= Capacity /\ size \in Nat /\ size > 0
      /\ h \in 0 .. IdxMod - 1 /\ t \in 0 .. IdxMod - 1 /\ h \in Int
  BY RingTypes, Sizes DEF BufferInv, Bounded, Pop
<1>2. /\ h' = Inc(h) /\ t' = t /\ buf' = buf /\ ref' = ref /\ lastTs' = lastTs
      /\ ref[At(0)] = 0 /\ front = buf[At(0)]
      /\ index' = [e \in Edefs |->
           IF e \in anyMask(front) THEN [index[e] EXCEPT !.h = Inc(@)] ELSE index[e]]
      /\ activeEdefSet' = {e \in activeEdefSet : e \in anyMask(front) => IndexSize(e) > 1}
  <2>1. At(0) = h % Capacity
    BY <1>1 DEF At
  <2>2. QED  BY <2>1 DEF Pop, Drop, frontUnused, finalizePop, front
<1>3. \A e \in Edefs : /\ IndexOK(e) /\ IndexSize(e) \in Nat
                       /\ IndexOK(e)'
                       /\ e \in anyMask(front) => IndexSize(e)' = IndexSize(e) - 1
                       /\ e \notin anyMask(front) => IndexSize(e)' = IndexSize(e)
  <2> TAKE e \in Edefs
  <2>1. IndexOK(e) /\ IndexSize(e) \in Nat
    BY <1>1, IndexTypes DEF BufferInv, IndexInv
  <2>2. CASE e \in anyMask(front)
    <3>1. Involves(0, e)
      BY <1>2, <2>2 DEF Involves
    <3>2. index'[e] = [index[e] EXCEPT !.h = Inc(@)]
      BY <1>2, <2>2
    <3>3. IndexOK(e)' /\ IndexSize(e)' = IndexSize(e) - 1
      BY <1>1, <1>2, <2>1, <3>1, <3>2, PopIndexed
    <3>4. QED  BY <2>1, <2>2, <3>3
  <2>3. CASE e \notin anyMask(front)
    <3>1. ~Involves(0, e)
      BY <1>2, <2>3 DEF Involves
    <3>2. index'[e] = index[e]
      BY <1>2, <2>3
    <3>3. IndexOK(e)' /\ IndexSize(e)' = IndexSize(e)
      BY <1>1, <1>2, <2>1, <3>1, <3>2, PopOther
    <3>4. QED  BY <2>1, <2>3, <3>3
  <2>4. QED  BY <2>2, <2>3
<1>4. size' = size - 1 /\ \A k \in Int : (h' + k) % Capacity = At(k + 1)
  BY <1>1, <1>2, Shrinks
<1>5. /\ \A n \in Offsets' : n + 1 \in Offsets /\ At(n)' = At(n + 1) /\ n \in Int
      /\ \A n \in Offsets : n # 0 => n - 1 \in Offsets' /\ (n - 1) + 1 = n
  BY <1>1, <1>4 DEF Offsets, At
<1>6. TypeOK'
  <2>1. h' \in 0 .. IdxMod - 1
    BY <1>1, <1>2, IncIs
  <2>2. \A e \in Edefs : /\ index[e] \in [buf : [Elements -> 0 .. PatMod - 1],
                                          h : 0 .. IdxMod - 1, t : 0 .. IdxMod - 1]
                         /\ Inc(index[e].h) \in 0 .. IdxMod - 1
    BY <1>1, IndexTypes, IncIs DEF TypeOK
  <2>3. \A e \in Edefs : index'[e] \in [buf : [Elements -> 0 .. PatMod - 1],
                                        h : 0 .. IdxMod - 1, t : 0 .. IdxMod - 1]
    BY <1>2, <2>2
  <2>4. index' \in [Edefs -> [buf : [Elements -> 0 .. PatMod - 1],
                              h : 0 .. IdxMod - 1, t : 0 .. IdxMod - 1]]
    BY <1>2, <2>3
  <2>5. QED  BY <1>1, <1>2, <2>1, <2>4 DEF TypeOK
<1>7. ActiveInv'
  <2>1. \A e \in Edefs : IndexSize(e)' > 0 <=>
          IndexSize(e) > 0 /\ (e \in anyMask(front) => IndexSize(e) > 1)
    BY <1>3
  <2>2. activeEdefSet = {e \in Edefs : IndexSize(e) > 0}
    BY DEF BufferInv, ActiveInv
  <2>3. QED  BY <1>2, <2>1, <2>2 DEF ActiveInv
<1>8. TsInv'
  <2>1. ASSUME NEW m \in Offsets', NEW n \in Offsets', m < n
        PROVE  buf'[At(m)'].ts < buf'[At(n)'].ts
    <3>1. m + 1 \in Offsets /\ n + 1 \in Offsets /\ m + 1 < n + 1
      BY <1>5, <2>1
    <3>2. QED  BY <1>2, <1>5, <3>1 DEF BufferInv, TsInv
  <2>2. ASSUME NEW n \in Offsets'
        PROVE  buf'[At(n)'].ts <= lastTs'
    BY <1>2, <1>5 DEF BufferInv, TsInv
  <2>3. QED  BY <2>1, <2>2 DEF TsInv
<1>9. HeldInv'
  <2>1. ASSUME NEW i \in Elements, ref'[i] > 0
        PROVE  \E n \in Offsets' : i = At(n)'
    <3>1. PICK n \in Offsets : i = At(n)
      BY <1>2, <2>1 DEF BufferInv, HeldInv
    <3>2. n # 0
      BY <1>2, <2>1, <3>1
    <3>3. n - 1 \in Offsets' /\ At(n - 1)' = At(n)
      <4>1. PICK m \in Offsets' : m = n - 1 /\ m + 1 = n
        BY <1>5, <3>2
      <4>2. At(m)' = At(n)
        BY <1>5, <4>1
      <4>3. QED  BY <4>1, <4>2 DEF At
    <3>4. QED  BY <3>1, <3>3 DEF At
  <2>2. QED  BY <2>1 DEF HeldInv
<1>10. size' <= Capacity
  BY <1>1, <1>4, Sizes
<1>11. QED  BY <1>3, <1>6, <1>7, <1>8, <1>9, <1>10 DEF BufferInv, Bounded, IndexInv

-----------------------------------------------------------------------------
(* What the lookups find. *)

\* An entry of an index ring leads to a pattern in the buffer.
LEMMA EntryFound ==
  ASSUME Bounded, NEW e \in Edefs, IndexOK(e), NEW k \in Entries(e)
  PROVE  /\ Leads(e, k) \in Offsets /\ Involves(Leads(e, k), e)
         /\ AtPosition(IndexAt(e, k)) = At(Leads(e, k))
<1>1. IndexAt(e, k) \in Int /\ h \in Int
  BY IndexTypes, RingTypes DEF Bounded, Entries
<1>2. AtPosition(IndexAt(e, k)) = At(Leads(e, k))
  BY <1>1, AtPositionIs DEF Leads
<1>3. QED  BY <1>2 DEF IndexOK

LEMMA OldestFound ==
  ASSUME Bounded, NEW e \in Edefs, IndexOK(e)
  PROVE  \/ patternGetOldest(e) = Null /\ IndexSize(e) = 0
         \/ /\ IndexSize(e) > 0 /\ 0 \in Entries(e)
            /\ patternGetOldest(e) = At(Leads(e, 0))
<1>1. IndexSize(e) \in Nat
  BY IndexTypes DEF Bounded
<1>2. CASE IndexSize(e) = 0
  BY <1>2 DEF patternGetOldest
<1>3. CASE IndexSize(e) > 0
  <2>1. 0 \in Entries(e)
    BY <1>1, <1>3 DEF Entries
  <2>2. patternGetOldest(e) = AtPosition(IndexAt(e, 0))
    BY <1>1, <1>3 DEF patternGetOldest
  <2>3. QED  BY <1>3, <2>1, <2>2, EntryFound
<1>4. QED  BY <1>1, <1>2, <1>3

LEMMA NextFound ==
  ASSUME Bounded, NEW e \in Edefs, IndexOK(e), NEW i \in Elements
  PROVE  \/ patternGetNext(i, e) = Null
         \/ /\ IndexOffset(i, e) + 1 \in Entries(e)
            /\ patternGetNext(i, e) = At(Leads(e, IndexOffset(i, e) + 1))
<1> DEFINE k == IndexOffset(i, e) + 1
<1>1. IndexSize(e) \in Nat /\ k \in Nat
  BY IndexTypes DEF Bounded
<1>2. CASE ShiftMask[e] \cap anyMask(buf[i]) = {} \/ k >= IndexSize(e)
  BY <1>2 DEF patternGetNext
<1>3. CASE ~(ShiftMask[e] \cap anyMask(buf[i]) = {} \/ k >= IndexSize(e))
  <2>1. k \in Entries(e)
    BY <1>1, <1>3 DEF Entries
  <2>2. patternGetNext(i, e) = AtPosition(IndexAt(e, k))
    BY <1>3 DEF patternGetNext
  <2>3. QED  BY <2>1, <2>2, EntryFound
<1>4. QED  BY <1>2, <1>3

-----------------------------------------------------------------------------
(* The binary search.  Its recursive definition has a solution because the *)
(* bounds come closer with every step.                                     *)

LessOnNat == {ss \in Nat \X Nat : ss[1] < ss[2]}

LEMMA LeastExists ==
  ASSUME NEW S, S \subseteq Nat, S # {}
  PROVE  \E n \in S : \A m \in S : n <= m
<1>1. LessOnNat = OpToRel(<, Nat)
  BY DEF OpToRel, LessOnNat
<1>2. PICK n \in S : \A m \in S : ~ <<m, n>> \in LessOnNat
  BY <1>1, NatLessThanWellFounded, WFMin
<1>3. ASSUME NEW m \in S
      PROVE  n <= m
  <2>1. m \in Nat /\ n \in Nat
    OBVIOUS
  <2>2. <<m, n>> \in Nat \X Nat /\ <<m, n>>[1] = m /\ <<m, n>>[2] = n
    BY <2>1
  <2>3. ~ (<<m, n>>[1] < <<m, n>>[2])
    BY <1>2, <2>2, Zenon DEF LessOnNat
  <2>4. QED  BY <2>1, <2>2, <2>3
<1>4. QED  BY <1>3

Bounds == (0 .. size) \X (-1 .. size - 1)
Width(r) == (r[2] - r[1]) + 1

SearchStep(ts, f, r) ==
  IF r[1] > r[2]
    THEN NotThere(r[1], r[2])
  ELSE IF ts < buf[At(Midpoint(r[1], r[2]))].ts
    THEN f[<<r[1], Midpoint(r[1], r[2]) - 1>>]
  ELSE IF ts > buf[At(Midpoint(r[1], r[2]))].ts
    THEN f[<<Midpoint(r[1], r[2]) + 1, r[2]>>]
  ELSE At(Midpoint(r[1], r[2]))

Searches(ts, f) == f = [r \in Bounds |-> SearchStep(ts, f, r)]

\* The bounds of the next step.
LEMMA Narrower ==
  ASSUME size \in Nat, NEW r \in Bounds
  PROVE  /\ r[1] \in Nat /\ r[2] \in Int /\ Width(r) \in Int /\ Width(r) <= size
         /\ r[1] <= r[2] =>
              /\ Width(r) \in Nat \ {0}
              /\ Midpoint(r[1], r[2]) \in r[1] .. r[2]
              /\ Midpoint(r[1], r[2]) \in Offsets
              /\ <<r[1], Midpoint(r[1], r[2]) - 1>> \in Bounds
              /\ Width(<<r[1], Midpoint(r[1], r[2]) - 1>>) < Width(r)
              /\ <<Midpoint(r[1], r[2]) + 1, r[2]>> \in Bounds
              /\ Width(<<Midpoint(r[1], r[2]) + 1, r[2]>>) < Width(r)
<1>1. PICK z \in Nat : z = size
  OBVIOUS
<1>2. PICK a \in 0 .. z, b \in -1 .. z - 1 : r = <<a, b>> /\ r[1] = a /\ r[2] = b
  BY <1>1 DEF Bounds
<1>3. a \in Nat /\ b \in Int /\ (b - a) + 1 \in Int /\ (b - a) + 1 <= z
  BY <1>1, <1>2
<1>4. ASSUME a <= b
      PROVE  /\ (b - a) + 1 \in Nat \ {0}
             /\ Midpoint(a, b) \in a .. b /\ Midpoint(a, b) \in Offsets
             /\ <<a, Midpoint(a, b) - 1>> \in Bounds
             /\ Width(<<a, Midpoint(a, b) - 1>>) < (b - a) + 1
             /\ <<Midpoint(a, b) + 1, b>> \in Bounds
             /\ Width(<<Midpoint(a, b) + 1, b>>) < (b - a) + 1
  <2>1. PICK m \in Int : m = Midpoint(a, b) /\ a <= m /\ m <= b
    BY <1>3, <1>4 DEF Midpoint
  <2>2. m \in a .. b /\ m \in 0 .. z - 1 /\ m - 1 \in -1 .. z - 1 /\ m + 1 \in 0 .. z
    BY <1>1, <1>2, <1>3, <2>1
  <2>3. <<a, m - 1>> \in Bounds /\ <<m + 1, b>> \in Bounds /\ m \in Offsets
    BY <1>1, <1>2, <2>2 DEF Bounds, Offsets
  <2>4. Width(<<a, m - 1>>) = ((m - 1) - a) + 1 /\ Width(<<m + 1, b>>) = (b - (m + 1)) + 1
    BY DEF Width
  <2>5. /\ ((m - 1) - a) + 1 < (b - a) + 1 /\ (b - (m + 1)) + 1 < (b - a) + 1
        /\ (b - a) + 1 \in Nat \ {0}
    BY <1>3, <1>4, <2>1
  <2>6. QED  BY <2>1, <2>2, <2>3, <2>4, <2>5
<1>5. QED  BY <1>1, <1>2, <1>3, <1>4 DEF Width

LEMMA BoundTypes ==
  ASSUME size \in Nat, NEW r \in Bounds
  PROVE  /\ r[1] \in Nat /\ r[2] \in Int /\ Width(r) \in Int /\ Width(r) <= size
         /\ r[1] > r[2] <=> ~(r[1] <= r[2])
         /\ Width(r) < 0 => r[1] > r[2]
<1>1. r[1] \in Nat /\ r[2] \in Int /\ Width(r) \in Int /\ Width(r) <= size
  BY Narrower
<1>2. Width(r) < 0 => r[1] > r[2]
  <2>1. PICK a \in Int, b \in Int : a = r[1] /\ b = r[2]
    BY <1>1
  <2>2. (b - a) + 1 < 0 => a > b
    OBVIOUS
  <2>3. QED  BY <2>1, <2>2 DEF Width
<1>3. QED  BY <1>1, <1>2

\* A step only looks at narrower bounds.
LEMMA StepLocal ==
  ASSUME size \in Nat, NEW ts, NEW f, NEW g, NEW r \in Bounds,
         \A q \in Bounds : Width(q) < Width(r) => f[q] = g[q]
  PROVE  SearchStep(ts, f, r) = SearchStep(ts, g, r)
<1>1. CASE r[1] > r[2]
  BY <1>1 DEF SearchStep
<1>2. CASE ~(r[1] > r[2])
  <2>1. r[1] <= r[2]
    BY <1>2, BoundTypes
  <2>2. f[<<r[1], Midpoint(r[1], r[2]) - 1>>] = g[<<r[1], Midpoint(r[1], r[2]) - 1>>]
    BY <2>1, Narrower
  <2>3. f[<<Midpoint(r[1], r[2]) + 1, r[2]>>] = g[<<Midpoint(r[1], r[2]) + 1, r[2]>>]
    BY <2>1, Narrower
  <2>4. QED  BY <2>2, <2>3 DEF SearchStep
<1>3. QED  BY <1>1, <1>2

LEMMA SearchExists ==
  ASSUME size \in Nat, NEW ts
  PROVE  \E f : Searches(ts, f)
<1> DEFINE P(w) == \E f : \A r \in Bounds : Width(r) <= w => f[r] = SearchStep(ts, f, r)
           Bad == {w \in Nat : ~P(w)}
<1>1. Bad = {}
  <2> SUFFICES ASSUME Bad # {}
               PROVE  FALSE
    OBVIOUS
  <2>1. PICK w \in Bad : \A v \in Bad : w <= v
    <3>1. Bad \subseteq Nat
      OBVIOUS
    <3> HIDE DEF Bad
    <3>2. QED  BY <3>1, LeastExists
  <2>2. w \in Nat /\ ~P(w)
    OBVIOUS
  <2>3. PICK f : \A r \in Bounds : Width(r) < w => f[r] = SearchStep(ts, f, r)
    <3>1. CASE w = 0
      <4> DEFINE f == [r \in Bounds |-> NotThere(r[1], r[2])]
      <4>1. ASSUME NEW r \in Bounds, Width(r) < w
            PROVE  f[r] = SearchStep(ts, f, r)
        <5>1. r[1] > r[2]
          BY <3>1, <4>1, BoundTypes
        <5>2. QED  BY <5>1 DEF SearchStep
      <4>2. QED  BY <4>1
    <3>2. CASE w # 0
      <4>1. w - 1 \in Nat /\ ~(w <= w - 1)
        BY <2>2, <3>2
      <4>2. w - 1 \notin Bad
        BY <2>1, <4>1
      <4>3. P(w - 1)
        BY <4>1, <4>2
      <4>4. \A r \in Bounds : Width(r) < w => Width(r) <= w - 1
        BY <2>2, BoundTypes
      <4>5. QED  BY <4>3, <4>4
    <3>3. QED  BY <3>1, <3>2
  <2> DEFINE g == [r \in Bounds |-> IF Width(r) < w THEN f[r] ELSE SearchStep(ts, f, r)]
  <2>4. ASSUME NEW r \in Bounds, Width(r) <= w
        PROVE  g[r] = SearchStep(ts, g, r)
    <3>1. \A q \in Bounds : Width(q) < Width(r) => Width(q) < w
      BY <2>2, <2>4, BoundTypes
    <3>2. \A q \in Bounds : Width(q) < Width(r) => f[q] = g[q]
      BY <3>1
    <3>3. g[r] = SearchStep(ts, f, r)
      BY <2>3
    <3> HIDE DEF g
    <3>4. SearchStep(ts, f, r) = SearchStep(ts, g, r)
      BY <3>2, StepLocal
    <3>5. QED  BY <3>3, <3>4
  <2>5. P(w)
    <3> HIDE DEF g
    <3>1. QED  BY <2>4
  <2>6. QED  BY <2>2, <2>5
<1>2. PICK f : \A r \in Bounds : Width(r) <= size => f[r] = SearchStep(ts, f, r)
  BY <1>1
<1> DEFINE g == [r \in Bounds |-> f[r]]
<1>3. ASSUME NEW r \in Bounds
      PROVE  g[r] = SearchStep(ts, g, r)
  <2>1. g[r] = SearchStep(ts, f, r)
    BY <1>2, BoundTypes
  <2>2. \A q \in Bounds : Width(q) < Width(r) => f[q] = g[q]
    OBVIOUS
  <2> HIDE DEF g
  <2>3. SearchStep(ts, f, r) = SearchStep(ts, g, r)
    BY <2>2, StepLocal
  <2>4. QED  BY <2>1, <2>3
<1>4. Searches(ts, g)
  <2>1. [r \in Bounds |-> SearchStep(ts, g, r)] = [r \in Bounds |-> g[r]]
    <3> HIDE DEF g
    <3>1. QED  BY <1>3
  <2>2. g = [r \in Bounds |-> g[r]]
    OBVIOUS
  <2> HIDE DEF g
  <2>3. QED  BY <2>1, <2>2 DEF Searches
<1>5. QED  BY <1>4

LEMMA SearchIs ==
  ASSUME size \in Nat, NEW ts
  PROVE  \E f : Searches(ts, f) /\ patternGet(ts) = f[<<0, size - 1>>]
<1> DEFINE f == CHOOSE f : Searches(ts, f)
<1>1. Searches(ts, f)
  <2>1. \E g : Searches(ts, g)
    BY SearchExists
  <2>2. QED  BY <2>1
<1>2. patternGet(ts) = f[<<0, size - 1>>]
  BY DEF patternGet, Searches, SearchStep, Bounds
<1>3. QED  BY <1>1, <1>2

\* What a search is to return.
SearchPost(ts, x) ==
  \/ \E n \in Offsets : buf[At(n)].ts = ts /\ x = At(n)
  \/ /\ \A n \in Offsets : buf[At(n)].ts # ts
     /\ x = IF \A n \in Offsets : buf[At(n)].ts < ts THEN TooNew
            ELSE IF \A n \in Offsets : ts < buf[At(n)].ts THEN Expired
            ELSE NotFound

\* Everything in front of the bounds is older, everything behind is newer.
Encloses(ts, r) ==
  /\ Width(r) \in Nat
  /\ \A n \in Offsets : /\ n < r[1] => buf[At(n)].ts < ts
                        /\ r[2] < n => ts < buf[At(n)].ts

LEMMA StampTypes ==
  ASSUME Bounded
  PROVE  \A n \in Offsets : n \in Nat /\ n < size /\ At(n) \in Elements /\ buf[At(n)].ts \in Int
<1>1. size \in Nat /\ size <= Capacity /\ h \in Int
  BY RingTypes DEF Bounded
<1> TAKE n \in Offsets
<1>2. n \in 0 .. Capacity - 1 /\ n \in Nat /\ n < size
  BY <1>1, Sizes DEF Offsets
<1>3. At(n) \in Elements
  BY <1>1, <1>2, AtIs
<1>4. buf[At(n)].ts \in 0 .. MaxTs
  BY <1>3 DEF Bounded, TypeOK
<1>5. QED  BY <1>2, <1>3, <1>4, PatternBufferAssumption

\* Bounds that have met.
LEMMA SearchFails ==
  ASSUME Bounded, NEW ts \in Int, NEW r \in Bounds, Encloses(ts, r), r[1] > r[2]
  PROVE  SearchPost(ts, NotThere(r[1], r[2]))
<1>1. PICK a \in Nat, b \in Int, z \in Nat :
        /\ a = r[1] /\ b = r[2] /\ z = size /\ a <= z /\ a = b + 1
        /\ Offsets = 0 .. z - 1
  <2>1. size \in Nat
    BY RingTypes DEF Bounded
  <2>2. r[1] \in 0 .. size /\ r[2] \in -1 .. size - 1 /\ (r[2] - r[1]) + 1 \in Nat
    BY DEF Bounds, Encloses, Width
  <2>3. PICK a \in Int, b \in Int, z \in Nat : a = r[1] /\ b = r[2] /\ z = size
    BY <2>1, <2>2
  <2>4. a \in Nat /\ a <= z /\ a = b + 1
    BY <2>2, <2>3
  <2>5. QED  BY <2>3, <2>4 DEF Offsets
<1>2. \A n \in Offsets : /\ n \in Nat /\ n < z /\ buf[At(n)].ts \in Int
                         /\ n < a => buf[At(n)].ts < ts
                         /\ n >= a => ts < buf[At(n)].ts
  <2> TAKE n \in Offsets
  <2>1. n \in Nat /\ n < z /\ buf[At(n)].ts \in Int
    BY <1>1, StampTypes
  <2>2. (n < a => buf[At(n)].ts < ts) /\ (b < n => ts < buf[At(n)].ts)
    BY <1>1 DEF Encloses
  <2>3. n >= a => b < n
    BY <1>1, <2>1
  <2>4. QED  BY <2>1, <2>2, <2>3
<1>3. \A n \in Offsets : buf[At(n)].ts # ts
  <2> TAKE n \in Offsets
  <2>1. n < a \/ n >= a
    BY <1>1, <1>2
  <2>2. QED  BY <1>2, <2>1
<1>4. CASE a = z
  <2>1. \A n \in Offsets : buf[At(n)].ts < ts
    BY <1>1, <1>2, <1>4
  <2>2. NotThere(r[1], r[2]) = TooNew
    BY <1>1, <1>4 DEF NotThere
  <2>3. QED  BY <1>3, <2>1, <2>2 DEF SearchPost
<1>5. CASE a # z /\ b < 0
  <2>1. a = 0 /\ 0 \in Offsets /\ b < 0
    BY <1>1, <1>5
  <2>2. \A n \in Offsets : ts < buf[At(n)].ts
    BY <1>2, <2>1
  <2>3. ~ \A n \in Offsets : buf[At(n)].ts < ts
    <3>1. PICK x \in Int : x = buf[At(0)].ts /\ ts < x
      BY <1>2, <2>1, <2>2
    <3>2. ~(x < ts)
      BY <3>1
    <3>3. QED  BY <2>1, <3>1, <3>2
  <2>4. NotThere(r[1], r[2]) = Expired
    BY <1>1, <1>5 DEF NotThere
  <2>5. QED  BY <1>3, <2>2, <2>3, <2>4 DEF SearchPost
<1>6. CASE a # z /\ ~(b < 0)
  <2>1. a \in Offsets /\ 0 \in Offsets /\ 0 < a
    BY <1>1, <1>6
  <2>2. ~ \A n \in Offsets : buf[At(n)].ts < ts
    <3>1. PICK x \in Int : x = buf[At(a)].ts /\ ts < x
      BY <1>1, <1>2, <2>1
    <3>2. ~(x < ts)
      BY <3>1
    <3>3. QED  BY <2>1, <3>1, <3>2
  <2>3. ~ \A n \in Offsets : ts < buf[At(n)].ts
    <3>1. PICK x \in Int : x = buf[At(0)].ts /\ x < ts
      BY <1>1, <1>2, <2>1
    <3>2. ~(ts < x)
      BY <3>1
    <3>3. QED  BY <2>1, <3>1, <3>2
  <2>4. NotThere(r[1], r[2]) = NotFound
    BY <1>1, <1>6 DEF NotThere
  <2>5. QED  BY <1>3, <2>2, <2>3, <2>4 DEF SearchPost
<1>7. QED  BY <1>4, <1>5, <1>6

\* Every step keeps the pattern, if there is one, between the bounds.
LEMMA SearchFinds ==
  ASSUME Bounded, TsInv, NEW ts \in Int, NEW f, Searches(ts, f),
         NEW r \in Bounds, Encloses(ts, r)
  PROVE  SearchPost(ts, f[r])
<1> DEFINE Bad == {w \in Nat : \E q \in Bounds :
                     Width(q) = w /\ Encloses(ts, q) /\ ~SearchPost(ts, f[q])}
<1>1. Bad = {}
  <2> SUFFICES ASSUME Bad # {}
               PROVE  FALSE
    OBVIOUS
  <2>1. PICK w \in Bad : \A v \in Bad : w <= v
    <3>1. Bad \subseteq Nat
      OBVIOUS
    <3> HIDE DEF Bad
    <3>2. QED  BY <3>1, LeastExists
  <2>2. PICK q \in Bounds : Width(q) = w /\ Encloses(ts, q) /\ ~SearchPost(ts, f[q])
    OBVIOUS
  <2>3. \A p \in Bounds : Width(p) < w /\ Encloses(ts, p) => SearchPost(ts, f[p])
    <3> TAKE p \in Bounds
    <3> HAVE Width(p) < w /\ Encloses(ts, p)
    <3>1. w \in Nat /\ Width(p) \in Nat /\ ~(w <= Width(p))
      BY DEF Encloses
    <3>2. Width(p) \notin Bad
      BY <2>1, <3>1
    <3>3. QED  BY <3>1, <3>2
  <2>4. size \in Nat
    BY RingTypes DEF Bounded
  <2>5. f[q] = SearchStep(ts, f, q)
    BY DEF Searches
  <2>6. CASE q[1] > q[2]
    <3>1. f[q] = NotThere(q[1], q[2])
      BY <2>5, <2>6 DEF SearchStep
    <3>2. QED  BY <2>2, <2>6, <3>1, SearchFails
  <2>7. CASE ~(q[1] > q[2])
    <3>1. q[1] <= q[2]
      BY <2>4, <2>7, BoundTypes
    <3>2. PICK a \in Int, b \in Int, m \in Int :
            /\ a = q[1] /\ b = q[2] /\ m = Midpoint(q[1], q[2])
            /\ a <= m /\ m <= b /\ m \in Offsets
            /\ <<a, m - 1>> \in Bounds /\ Width(<<a, m - 1>>) < w
            /\ <<m + 1, b>> \in Bounds /\ Width(<<m + 1, b>>) < w
      <4>1. /\ q[1] \in Int /\ q[2] \in Int
            /\ Midpoint(q[1], q[2]) \in q[1] .. q[2]
            /\ Midpoint(q[1], q[2]) \in Offsets
            /\ <<q[1], Midpoint(q[1], q[2]) - 1>> \in Bounds
            /\ Width(<<q[1], Midpoint(q[1], q[2]) - 1>>) < w
            /\ <<Midpoint(q[1], q[2]) + 1, q[2]>> \in Bounds
            /\ Width(<<Midpoint(q[1], q[2]) + 1, q[2]>>) < w
        BY <2>2, <2>4, <3>1, Narrower
      <4>2. Midpoint(q[1], q[2]) \in Int /\ q[1] <= Midpoint(q[1], q[2]) /\ Midpoint(q[1], q[2]) <= q[2]
        BY <4>1
      <4>3. QED  BY <4>1, <4>2
    <3>3. PICK s \in Int : s = buf[At(m)].ts
      BY <3>2, StampTypes
    <3>4. \A n \in Offsets : /\ n \in Nat /\ buf[At(n)].ts \in Int
                             /\ n < m => buf[At(n)].ts < s
                             /\ m < n => s < buf[At(n)].ts
                             /\ n < a => buf[At(n)].ts < ts
                             /\ b < n => ts < buf[At(n)].ts
      BY <2>2, <3>2, <3>3, StampTypes DEF TsInv, Encloses
    <3>5. f[q] = IF ts < s THEN f[<<a, m - 1>>] ELSE IF ts > s THEN f[<<m + 1, b>>] ELSE At(m)
      BY <2>5, <2>7, <3>2, <3>3 DEF SearchStep
    <3>6. CASE ts < s
      <4>1. Encloses(ts, <<a, m - 1>>)
        <5>1. Width(<<a, m - 1>>) \in Nat
          BY <3>2 DEF Width
        <5>2. \A n \in Offsets : m - 1 < n => ts < buf[At(n)].ts
          <6> TAKE n \in Offsets
          <6> HAVE m - 1 < n
          <6>1. m < n \/ n = m
            BY <3>2, <3>4
          <6>2. PICK x \in Int : x = buf[At(n)].ts /\ (x = s \/ s < x)
            BY <3>3, <3>4, <6>1
          <6>3. QED  BY <3>6, <6>2
        <5>3. QED  BY <3>4, <5>1, <5>2 DEF Encloses
      <4>2. SearchPost(ts, f[<<a, m - 1>>])
        BY <2>3, <3>2, <4>1
      <4>3. QED  BY <2>2, <3>5, <3>6, <4>2
    <3>7. CASE ts > s
      <4>1. Encloses(ts, <<m + 1, b>>)
        <5>1. Width(<<m + 1, b>>) \in Nat
          BY <3>2 DEF Width
        <5>2. \A n \in Offsets : n < m + 1 => buf[At(n)].ts < ts
          <6> TAKE n \in Offsets
          <6> HAVE n < m + 1
          <6>1. n < m \/ n = m
            BY <3>2, <3>4
          <6>2. PICK x \in Int : x = buf[At(n)].ts /\ (x = s \/ x < s)
            BY <3>3, <3>4, <6>1
          <6>3. QED  BY <3>7, <6>2
        <5>3. QED  BY <3>4, <5>1, <5>2 DEF Encloses
      <4>2. SearchPost(ts, f[<<m + 1, b>>])
        BY <2>3, <3>2, <4>1
      <4>3. f[q] = f[<<m + 1, b>>]
        BY <3>5, <3>7
      <4>4. QED  BY <2>2, <4>2, <4>3
    <3>8. CASE ts = s
      <4>1. f[q] = At(m)
        BY <3>5, <3>8
      <4>2. QED  BY <2>2, <3>2, <3>3, <3>8, <4>1 DEF SearchPost
    <3>9. QED  BY <3>6, <3>7, <3>8
  <2>8. QED  BY <2>6, <2>7
<1>2. Width(r) \in Nat
  BY DEF Encloses
<1>3. QED  BY <1>1, <1>2

LEMMA GetFound ==
  ASSUME Bounded, TsInv, NEW ts \in Int
  PROVE  SearchPost(ts, patternGet(ts))
<1>1. size \in Nat
  BY RingTypes DEF Bounded
<1>2. PICK f : Searches(ts, f) /\ patternGet(ts) = f[<<0, size - 1>>]
  BY <1>1, SearchIs
<1>3. PICK z \in Nat : z = size /\ Bounds = (0 .. z) \X (-1 .. z - 1) /\ Offsets = 0 .. z - 1
  BY <1>1 DEF Bounds, Offsets
<1>4. <<0, z - 1>> \in Bounds
  BY <1>3
<1>5. Encloses(ts, <<0, z - 1>>)
  <2>1. Width(<<0, z - 1>>) = z
    BY <1>3 DEF Width
  <2>2. \A n \in Offsets : ~(n < 0) /\ ~(z - 1 < n)
    BY <1>3
  <2>3. QED  BY <1>3, <2>1, <2>2 DEF Encloses
<1>6. QED  BY <1>2, <1>3, <1>4, <1>5, SearchFinds

-----------------------------------------------------------------------------
(* The steps. *)

LEMMA LookupInv ==
  ASSUME BufferInv, Lookup
  PROVE  BufferInv'
<1>1. Bounded /\ TsInv /\ \A e \in Edefs : IndexOK(e)
  BY DEF BufferInv, IndexInv
<1>2. \A i : i \in {Null, TooNew, Expired, NotFound} => i \notin Elements
  BY DEF Null, TooNew, Expired, NotFound, Elements
<1>3. ASSUME NEW ts \in 0 .. MaxTs + 1, incRef(patternGet(ts))
      PROVE  BufferInv'
  <2>1. ts \in Int /\ patternGet(ts) \in Elements
    BY <1>3, PatternBufferAssumption DEF incRef
  <2>2. SearchPost(ts, patternGet(ts))
    BY <1>1, <2>1, GetFound
  <2>3. \E n \in Offsets : patternGet(ts) = At(n)
    BY <1>2, <2>1, <2>2 DEF SearchPost
  <2>4. QED  BY <1>3, <2>3, IncRefInv
<1>4. ASSUME NEW e \in Edefs, incRef(patternGetOldest(e))
      PROVE  BufferInv'
  <2>1. patternGetOldest(e) # Null
    BY <1>2, <1>4 DEF incRef
  <2>2. 0 \in Entries(e) /\ patternGetOldest(e) = At(Leads(e, 0))
    BY <1>1, <2>1, OldestFound
  <2>3. \E n \in Offsets : patternGetOldest(e) = At(n)
    BY <1>1, <2>2, EntryFound
  <2>4. QED  BY <1>4, <2>3, IncRefInv
<1>5. ASSUME NEW i \in Held, NEW e \in Edefs, incRef(patternGetNext(i, e))
      PROVE  BufferInv'
  <2>1. patternGetNext(i, e) # Null /\ i \in Elements
    BY <1>2, <1>5 DEF incRef, Held
  <2>2. /\ IndexOffset(i, e) + 1 \in Entries(e)
        /\ patternGetNext(i, e) = At(Leads(e, IndexOffset(i, e) + 1))
    BY <1>1, <2>1, NextFound
  <2>3. \E n \in Offsets : patternGetNext(i, e) = At(n)
    BY <1>1, <2>2, EntryFound
  <2>4. QED  BY <1>5, <2>3, IncRefInv
<1>6. ASSUME NEW i \in Held, incRef(i)
      PROVE  BufferInv'
  <2>1. \E n \in Offsets : i = At(n)
    BY DEF Held, BufferInv, HeldInv
  <2>2. QED  BY <1>6, <2>1, IncRefInv
<1>7. QED  BY <1>3, <1>4, <1>5, <1>6 DEF Lookup

LEMMA StutterInv ==
  ASSUME BufferInv, UNCHANGED vars
  PROVE  BufferInv'
<1>1. /\ UNCHANGED <<ringVars, index>>
      /\ h' = h /\ t' = t /\ buf' = buf /\ index' = index /\ ref' = ref
      /\ activeEdefSet' = activeEdefSet /\ lastTs' = lastTs
  BY DEF vars, ringVars
<1>2. /\ size' = size /\ Offsets' = Offsets
      /\ \A n : At(n)' = At(n)
      /\ \A e : IndexSize(e)' = IndexSize(e) /\ (IndexOK(e)' <=> IndexOK(e))
  BY <1>1, RingStays
<1>3. TypeOK'
  BY <1>1 DEF BufferInv, Bounded, TypeOK
<1>4. QED  BY <1>1, <1>2, <1>3 DEF BufferInv, Bounded, IndexInv, TsInv, ActiveInv, HeldInv

LEMMA StepInv == BufferInv /\ [Next]_vars => BufferInv'
<1> SUFFICES ASSUME BufferInv, [Next]_vars
             PROVE  BufferInv'
  OBVIOUS
<1>1. ASSUME lastTs < MaxTs, NEW shape \in Shapes, PushBack(shape)
      PROVE  BufferInv'
  BY <1>1, PushInv
<1>2. CASE Pop
  BY <1>2, PopInv
<1>3. CASE Lookup
  BY <1>3, LookupInv
<1>4. ASSUME NEW i \in Held, patternPut(i)
      PROVE  BufferInv'
  BY <1>4, PutInv
<1>5. CASE UNCHANGED vars
  BY <1>5, StutterInv
<1>6. QED  BY <1>1, <1>2, <1>3, <1>4, <1>5 DEF Next

LEMMA AlwaysInv == Spec => []BufferInv
BY InitInv, StepInv, PTL DEF Spec

-----------------------------------------------------------------------------
(* What the users rely on. *)

\* Type correctness of the pattern buffer.
THEOREM TypeCorrect == Spec => []TypeOK
<1>1. BufferInv => TypeOK
  BY DEF BufferInv, Bounded
<1>2. QED  BY <1>1, AlwaysInv, PTL

\* An element somebody holds a reference to is in the buffer, and so is not
\* the one that push_back writes to.
THEOREM NeverOverwritten == Spec => []NoOverwrite
<1>1. BufferInv => NoOverwrite
  <2> SUFFICES ASSUME BufferInv, NEW i \in Held
               PROVE  \E n \in 1 .. size : i = Pointer(n)
    BY DEF NoOverwrite
  <2>1. PICK n \in Offsets : i = At(n)
    BY DEF Held, BufferInv, HeldInv
  <2>2. size \in Nat
    BY RingTypes DEF BufferInv, Bounded
  <2>3. PICK m \in 1 .. size : m # 0 /\ m - 1 = n
    <3>1. n + 1 \in 1 .. size /\ n + 1 # 0 /\ (n + 1) - 1 = n
      BY <2>2 DEF Offsets
    <3>2. QED  BY <3>1
  <2>4. i = Pointer(m)
    BY <2>1, <2>3 DEF Pointer
  <2>5. QED  BY <2>4
<1>2. QED  BY <1>1, AlwaysInv, PTL

\* The patterns of the buffer in the numbering of PatternWindow.
LEMMA StoredIs ==
  ASSUME Bounded
  PROVE  /\ Len(Stored) = size /\ size \in Nat
         /\ \A n \in 1 .. size : /\ Stored[n] = buf[At(n - 1)] /\ n - 1 \in Offsets
                                 /\ Pointer(n) = At(n - 1) /\ n # 0 /\ n \in Nat
         /\ \A n \in Offsets : n + 1 \in 1 .. size /\ (n + 1) - 1 = n
         /\ W!Window = 1 .. size
         /\ \A n \in 1 .. size, e \in Edefs : e \in W!Involved(n) <=> Involves(n - 1, e)
<1>1. size \in Nat
  BY RingTypes DEF Bounded
<1>2. Len(Stored) = size
  BY <1>1 DEF Stored
<1>3. \A n \in 1 .. size : /\ Stored[n] = buf[At(n - 1)] /\ n - 1 \in Offsets
                           /\ Pointer(n) = At(n - 1) /\ n # 0 /\ n \in Nat
  BY <1>1 DEF Stored, Pointer, Offsets
<1>4. \A n \in Offsets : n + 1 \in 1 .. size /\ (n + 1) - 1 = n
  BY <1>1 DEF Offsets
<1>5. W!Window = 1 .. size
  BY <1>2 DEF W!Window
<1>6. \A n \in 1 .. size, e \in Edefs : e \in W!Involved(n) <=> Involves(n - 1, e)
  BY <1>3 DEF W!Involved, Involves, anyMask
<1>7. QED  BY <1>1, <1>2, <1>3, <1>4, <1>5, <1>6

\* The edefs marked as active are those that some pattern involves.
THEOREM ActiveEdefsExact == Spec => []ActiveExact
<1>1. BufferInv => ActiveExact
  <2> SUFFICES ASSUME BufferInv
               PROVE  ActiveExact
    OBVIOUS
  <2>1. /\ Bounded /\ activeEdefSet = {e \in Edefs : IndexSize(e) > 0}
        /\ \A e \in Edefs : IndexOK(e)
    BY DEF BufferInv, ActiveInv, IndexInv
  <2>2. \A e \in Edefs : e \in activeEdefSet <=> \E n \in Offsets : Involves(n, e)
    BY <2>1, EntryForPattern
  <2>3. \A n \in 1 .. size : anyMask(Stored[n]) = anyMask(buf[At(n - 1)]) /\ n - 1 \in Offsets
    BY <2>1, StoredIs
  <2>4. \A n \in Offsets : n + 1 \in 1 .. size /\ anyMask(Stored[n + 1]) = anyMask(buf[At(n)])
    BY <2>1, StoredIs
  <2>5. \A n \in Offsets : anyMask(buf[At(n)]) \subseteq Edefs
    <3> TAKE n \in Offsets
    <3>1. At(n) \in Elements
      BY <2>1, StampTypes
    <3>2. buf[At(n)].init \subseteq Edefs /\ buf[At(n)].act \subseteq Edefs
      BY <2>1, <3>1 DEF Bounded, TypeOK
    <3>3. QED  BY <3>2 DEF anyMask
  <2>6. ASSUME NEW e \in activeEdefSet
        PROVE  e \in UNION {anyMask(Stored[n]) : n \in 1 .. size}
    <3>1. PICK n \in Offsets : e \in anyMask(buf[At(n)])
      BY <2>1, <2>2 DEF Involves
    <3>2. n + 1 \in 1 .. size /\ e \in anyMask(Stored[n + 1])
      BY <2>4, <3>1
    <3>3. QED  BY <3>2
  <2>7. ASSUME NEW e \in UNION {anyMask(Stored[n]) : n \in 1 .. size}
        PROVE  e \in activeEdefSet
    <3>1. PICK n \in 1 .. size : e \in anyMask(Stored[n])
      OBVIOUS
    <3>2. n - 1 \in Offsets /\ e \in anyMask(buf[At(n - 1)])
      BY <2>3, <3>1
    <3>3. QED  BY <2>2, <2>5, <3>2 DEF Involves
  <2>8. QED  BY <2>6, <2>7 DEF ActiveExact
<1>2. QED  BY <1>1, AlwaysInv, PTL

LEMMA EarliestIs ==
  ASSUME NEW S, S \subseteq Nat, NEW m \in S, \A x \in S : m <= x
  PROVE  W!Earliest(S) = m
<1>1. ASSUME NEW n \in S, \A x \in S : n <= x
      PROVE  n = m
  BY <1>1
<1>2. QED  BY <1>1 DEF W!Earliest

\* Entries further back in an index ring lead to later patterns.
LEMMA EntriesOrdered ==
  ASSUME Bounded, NEW e \in Edefs, IndexOK(e), NEW k \in Entries(e), NEW l \in Entries(e)
  PROVE  /\ k \in Nat /\ l \in Nat /\ Leads(e, k) \in Nat /\ Leads(e, l) \in Nat
         /\ Leads(e, k) < Leads(e, l) <=> k < l
<1>1. k \in Nat /\ l \in Nat
  BY IndexTypes DEF Bounded, Entries
<1>2. Leads(e, k) \in Nat /\ Leads(e, l) \in Nat
  BY StampTypes DEF IndexOK
<1>3. /\ k < l => l - k <= Leads(e, l) - Leads(e, k)
      /\ l < k => k - l <= Leads(e, k) - Leads(e, l)
  BY DEF IndexOK
<1>4. PICK x \in Nat, y \in Nat : x = Leads(e, k) /\ y = Leads(e, l)
  BY <1>2
<1>5. x < y <=> k < l
  <2>1. k < l => x < y
    BY <1>1, <1>3, <1>4
  <2>2. l < k => y < x
    BY <1>1, <1>3, <1>4
  <2>3. k = l => x = y
    BY <1>4
  <2>4. QED  BY <1>1, <1>4, <2>1, <2>2, <2>3
<1>6. QED  BY <1>1, <1>4, <1>5

LEMMA OldestRight == BufferInv => OldestAgrees
<1> SUFFICES ASSUME BufferInv, NEW e \in Edefs
             PROVE  patternGetOldest(e) = Pointer(W!patternGetOldest(e))
  BY DEF OldestAgrees
<1> DEFINE S == {n \in 1 .. size : Involves(n - 1, e)}
<1>1. Bounded /\ IndexOK(e)
  BY DEF BufferInv, IndexInv
<1>2. W!patternGetOldest(e) = W!Earliest(S)
  <2>1. {n \in W!Window : e \in W!Involved(n)} = S
    BY <1>1, StoredIs
  <2>2. QED  BY <2>1 DEF W!patternGetOldest
<1>3. S \subseteq Nat
  BY <1>1, StoredIs
<1>4. CASE patternGetOldest(e) = Null /\ IndexSize(e) = 0
  <2>1. S = {}
    <3>1. ~ \E n \in Offsets : Involves(n, e)
      BY <1>1, <1>4, EntryForPattern
    <3>2. QED  BY <1>1, <3>1, StoredIs
  <2>2. QED  BY <1>2, <1>4, <2>1 DEF W!Earliest, Pointer
<1>5. CASE 0 \in Entries(e) /\ patternGetOldest(e) = At(Leads(e, 0))
  <2>1. PICK n \in Offsets : n = Leads(e, 0) /\ Involves(n, e) /\ n \in Nat
    BY <1>1, <1>5, EntryFound, StampTypes
  <2>2. PICK m \in 1 .. size : m = n + 1 /\ m - 1 = n /\ Pointer(m) = At(n)
    <3>1. n + 1 \in 1 .. size /\ (n + 1) - 1 = n
      BY <1>1, <2>1, StoredIs
    <3>2. Pointer(n + 1) = At((n + 1) - 1)
      BY <1>1, <3>1, StoredIs
    <3>3. QED  BY <3>1, <3>2
  <2>3. m \in S
    BY <2>1, <2>2
  <2>4. \A x \in S : m <= x
    <3> TAKE x \in S
    <3>1. x \in Nat /\ x - 1 \in Offsets /\ Involves(x - 1, e)
      BY <1>1, StoredIs
    <3>2. PICK k \in Entries(e) : Leads(e, k) = x - 1
      BY <1>1, <3>1 DEF IndexOK
    <3>3. k \in Nat /\ (x - 1 < n <=> k < 0)
      BY <1>1, <1>5, <2>1, <3>2, EntriesOrdered
    <3>4. ~(x - 1 < n)
      BY <3>3
    <3>5. QED  BY <2>1, <2>2, <3>1, <3>4
  <2>5. W!Earliest(S) = m
    <3> HIDE DEF S
    <3>1. QED  BY <1>3, <2>3, <2>4, EarliestIs
  <2>6. QED  BY <1>2, <1>5, <2>1, <2>2, <2>5
<1>6. QED  BY <1>1, <1>4, <1>5, OldestFound

LEMMA NextRight ==
  ASSUME \A e \in Edefs : ShiftMask[e] \subseteq {e}
  PROVE  BufferInv => NextAgrees
<1> SUFFICES ASSUME BufferInv, NEW n \in 1 .. size, NEW e \in Edefs
             PROVE  patternGetNext(Pointer(n), e) = Pointer(W!patternGetNext(n, e))
  BY DEF NextAgrees
<1> DEFINE S == {m \in 1 .. size : m > n /\ Involves(m - 1, e)}
<1>1. Bounded /\ IndexOK(e)
  BY DEF BufferInv, IndexInv
<1>2. PICK i \in Elements, o \in Offsets :
        i = Pointer(n) /\ o = n - 1 /\ o \in Nat /\ n \in Nat /\ i = At(o)
  BY <1>1, StoredIs, StampTypes
<1>3. anyMask(buf[i]) = W!Involved(n)
  BY <1>1, <1>2, StoredIs DEF W!Involved, anyMask
<1>4. CASE ShiftMask[e] \cap anyMask(buf[i]) = {}
  <2>1. patternGetNext(i, e) = Null
    BY <1>4 DEF patternGetNext
  <2>2. W!patternGetNext(n, e) = 0
    BY <1>3, <1>4 DEF W!patternGetNext
  <2>3. QED  BY <1>2, <2>1, <2>2 DEF Pointer
<1>5. CASE ShiftMask[e] \cap anyMask(buf[i]) # {}
  <2>1. Involves(o, e)
    BY <1>2, <1>5 DEF Involves
  <2>2. PICK k \in Entries(e) : k = IndexOffset(i, e) /\ Leads(e, k) = o /\ k \in Nat
    <3>1. IndexOffset(i, e) \in Entries(e) /\ Leads(e, IndexOffset(i, e)) = o
      BY <1>1, <1>2, <2>1 DEF IndexOK
    <3>2. QED  BY <1>1, <3>1, EntriesOrdered
  <2>3. W!patternGetNext(n, e) = W!Earliest(S)
    <3>1. {m \in W!Window : m > n /\ e \in W!Involved(m)} = S
      BY <1>1, StoredIs
    <3>2. QED  BY <1>3, <1>5, <3>1 DEF W!patternGetNext
  <2>4. \A x \in S : /\ x \in Nat
                     /\ \E l \in Entries(e) : l \in Nat /\ l > k /\ Leads(e, l) = x - 1
    <3> TAKE x \in S
    <3>1. x \in Nat /\ x - 1 \in Offsets /\ Involves(x - 1, e) /\ x > n
      BY <1>1, StoredIs
    <3>2. PICK l \in Entries(e) : Leads(e, l) = x - 1
      BY <1>1, <3>1 DEF IndexOK
    <3>3. l \in Nat /\ (o < x - 1 <=> k < l)
      BY <1>1, <2>2, <3>2, EntriesOrdered
    <3>4. o < x - 1
      BY <1>2, <3>1
    <3>5. QED  BY <2>2, <3>1, <3>2, <3>3, <3>4
  <2>5. IndexSize(e) \in Nat
    BY <1>1, IndexTypes DEF Bounded
  <2>6. CASE k + 1 >= IndexSize(e)
    <3>1. patternGetNext(i, e) = Null
      BY <2>2, <2>6 DEF patternGetNext
    <3>2. S = {}
      <4> SUFFICES ASSUME NEW x \in S
                   PROVE  FALSE
        OBVIOUS
      <4>1. PICK l \in Entries(e) : l \in Nat /\ l > k
        BY <2>4
      <4>2. QED  BY <2>2, <2>5, <2>6, <4>1 DEF Entries
    <3>3. QED  BY <1>2, <2>3, <3>1, <3>2 DEF W!Earliest, Pointer
  <2>7. CASE k + 1 < IndexSize(e)
    <3>1. k + 1 \in Entries(e) /\ ~(k + 1 >= IndexSize(e))
      BY <2>2, <2>5, <2>7 DEF Entries
    <3>2. patternGetNext(i, e) = At(Leads(e, k + 1))
      BY <1>1, <1>5, <2>2, <3>1, EntryFound DEF patternGetNext
    <3>3. PICK p \in Offsets : p = Leads(e, k + 1) /\ Involves(p, e) /\ p \in Nat
      BY <1>1, <3>1, EntryFound, StampTypes
    <3>4. PICK m \in 1 .. size : m = p + 1 /\ m - 1 = p /\ Pointer(m) = At(p)
      <4>1. p + 1 \in 1 .. size /\ (p + 1) - 1 = p
        BY <1>1, <3>3, StoredIs
      <4>2. Pointer(p + 1) = At((p + 1) - 1)
        BY <1>1, <4>1, StoredIs
      <4>3. QED  BY <4>1, <4>2
    <3>5. o < p
      <4>1. o < p <=> k < k + 1
        BY <1>1, <2>2, <3>1, <3>3, EntriesOrdered
      <4>2. QED  BY <2>2, <4>1
    <3>6. m \in S
      BY <1>2, <3>3, <3>4, <3>5
    <3>7. \A x \in S : m <= x
      <4> TAKE x \in S
      <4>1. PICK l \in Entries(e) : l \in Nat /\ l > k /\ Leads(e, l) = x - 1 /\ x \in Nat
        BY <2>4
      <4>2. x - 1 < p <=> l < k + 1
        <5>1. Leads(e, l) < Leads(e, k + 1) <=> l < k + 1
          BY <1>1, <3>1, EntriesOrdered
        <5>2. QED  BY <3>3, <4>1, <5>1
      <4>3. ~(x - 1 < p)
        BY <2>2, <4>1, <4>2
      <4>4. QED  BY <3>3, <3>4, <4>1, <4>3
    <3>8. S \subseteq Nat
      BY <2>4
    <3>9. W!Earliest(S) = m
      <4> HIDE DEF S
      <4>1. QED  BY <3>6, <3>7, <3>8, EarliestIs
    <3>10. QED  BY <1>2, <2>3, <3>2, <3>3, <3>4, <3>9
  <2>8. QED  BY <2>2, <2>5, <2>6, <2>7
<1>6. QED  BY <1>4, <1>5

LEMMA SearchRight == BufferInv => SearchAgrees
<1> SUFFICES ASSUME BufferInv, NEW ts \in 0 .. MaxTs + 1
             PROVE  patternGet(ts) =
                      CASE W!patternGet(ts) # 0 -> Pointer(W!patternGet(ts))
                        [] \A n \in 1 .. size : Stored[n].ts < ts -> TooNew
                        [] size > 0 /\ \A n \in 1 .. size : Stored[n].ts > ts -> Expired
                        [] OTHER -> NotFound
  BY DEF SearchAgrees
<1> DEFINE S == {n \in 1 .. size : buf[At(n - 1)].ts = ts}
           Old == \A n \in 1 .. size : Stored[n].ts < ts
           New == size > 0 /\ \A n \in 1 .. size : Stored[n].ts > ts
<1>1. Bounded /\ TsInv /\ ts \in Int
  BY PatternBufferAssumption DEF BufferInv
<1>2. W!patternGet(ts) = W!Earliest(S) /\ S \subseteq Nat
  <2>1. {n \in W!Window : Stored[n].ts = ts} = S
    BY <1>1, StoredIs
  <2>2. S \subseteq Nat
    BY <1>1, StoredIs
  <2>3. QED  BY <2>1, <2>2 DEF W!patternGet
<1>3. SearchPost(ts, patternGet(ts))
  BY <1>1, GetFound
<1>4. \A n \in Offsets : n \in Nat /\ n < size /\ buf[At(n)].ts \in Int
  BY <1>1, StampTypes
<1>5. CASE \E n \in Offsets : buf[At(n)].ts = ts /\ patternGet(ts) = At(n)
  <2>1. PICK n \in Offsets : buf[At(n)].ts = ts /\ patternGet(ts) = At(n) /\ n \in Nat
    BY <1>4, <1>5
  <2>2. PICK m \in 1 .. size : /\ m = n + 1 /\ m - 1 = n /\ Pointer(m) = At(n) /\ m # 0
                               /\ Stored[m].ts = ts /\ m \in Nat
    <3>1. n + 1 \in 1 .. size /\ (n + 1) - 1 = n
      BY <1>1, <2>1, StoredIs
    <3>2. Pointer(n + 1) = At((n + 1) - 1) /\ Stored[n + 1] = buf[At((n + 1) - 1)]
          /\ n + 1 # 0 /\ n + 1 \in Nat
      BY <1>1, <3>1, StoredIs
    <3>3. QED  BY <2>1, <3>1, <3>2
  <2>3. m \in S
    BY <2>1, <2>2
  <2>4. \A x \in S : m <= x
    <3> TAKE x \in S
    <3>1. x \in Nat /\ x - 1 \in Offsets /\ buf[At(x - 1)].ts = ts
      BY <1>1, StoredIs
    <3>2. ~(x - 1 < n)
      <4>1. x - 1 < n => buf[At(x - 1)].ts < buf[At(n)].ts
        BY <1>1, <2>1, <3>1 DEF TsInv
      <4>2. ~(ts < ts)
        BY <1>1
      <4>3. QED  BY <2>1, <3>1, <4>1, <4>2
    <3>3. QED  BY <2>1, <2>2, <3>1, <3>2
  <2>5. W!patternGet(ts) = m
    <3> HIDE DEF S
    <3>1. QED  BY <1>2, <2>3, <2>4, EarliestIs
  <2>6. ~Old /\ ~New
    <3>1. ~(Stored[m].ts < ts) /\ ~(Stored[m].ts > ts)
      BY <1>1, <2>2
    <3>2. QED  BY <3>1
  <2>7. patternGet(ts) = Pointer(W!patternGet(ts)) /\ W!patternGet(ts) # 0
    BY <2>1, <2>2, <2>5
  <2> HIDE DEF Old, New
  <2>8. patternGet(ts) = CASE W!patternGet(ts) # 0 -> Pointer(W!patternGet(ts))
                           [] Old -> TooNew [] New -> Expired [] OTHER -> NotFound
    BY <2>6, <2>7
  <2>9. QED  BY <2>8 DEF Old, New
<1>6. CASE /\ \A n \in Offsets : buf[At(n)].ts # ts
           /\ patternGet(ts) = IF \A n \in Offsets : buf[At(n)].ts < ts THEN TooNew
                               ELSE IF \A n \in Offsets : ts < buf[At(n)].ts THEN Expired
                               ELSE NotFound
  <2>1. W!patternGet(ts) = 0
    <3>1. S = {}
      BY <1>1, <1>6, StoredIs
    <3>2. QED  BY <1>2, <3>1 DEF W!Earliest
  <2>2. Old <=> \A n \in Offsets : buf[At(n)].ts < ts
    <3>1. ASSUME Old, NEW n \in Offsets
          PROVE  buf[At(n)].ts < ts
      <4>1. n + 1 \in 1 .. size /\ (n + 1) - 1 = n
        BY <1>1, StoredIs
      <4>2. Stored[n + 1] = buf[At((n + 1) - 1)] /\ Stored[n + 1].ts < ts
        BY <1>1, <3>1, <4>1, StoredIs
      <4>3. QED  BY <4>1, <4>2
    <3>2. ASSUME \A n \in Offsets : buf[At(n)].ts < ts, NEW n \in 1 .. size
          PROVE  Stored[n].ts < ts
      BY <1>1, <3>2, StoredIs
    <3>3. QED  BY <3>1, <3>2
  <2>3. New <=> size > 0 /\ \A n \in Offsets : ts < buf[At(n)].ts
    <3>1. ASSUME New, NEW n \in Offsets
          PROVE  ts < buf[At(n)].ts
      <4>1. n + 1 \in 1 .. size /\ (n + 1) - 1 = n
        BY <1>1, StoredIs
      <4>2. Stored[n + 1] = buf[At((n + 1) - 1)] /\ Stored[n + 1].ts > ts
        BY <1>1, <3>1, <4>1, StoredIs
      <4>3. PICK x \in Int : x = buf[At(n)].ts
        BY <1>4
      <4>4. QED  BY <1>1, <4>1, <4>2, <4>3
    <3>2. ASSUME \A n \in Offsets : ts < buf[At(n)].ts, NEW n \in 1 .. size
          PROVE  Stored[n].ts > ts
      <4>1. n - 1 \in Offsets /\ Stored[n] = buf[At(n - 1)]
        BY <1>1, StoredIs
      <4>2. PICK x \in Int : x = buf[At(n - 1)].ts
        BY <1>4, <4>1
      <4>3. QED  BY <1>1, <3>2, <4>1, <4>2
    <3>3. QED  BY <3>1, <3>2
  <2>4. ~(size > 0) => Old
    <3>1. size \in Nat
      BY <1>1, StoredIs
    <3>2. QED  BY <3>1
  <2>5. New => ~Old
    <3>1. ASSUME New, Old
          PROVE  FALSE
      <4>1. size \in Nat /\ size > 0
        BY <1>1, <3>1, StoredIs
      <4>2. 1 \in 1 .. size
        BY <4>1
      <4>3. 1 - 1 \in Offsets /\ Stored[1] = buf[At(1 - 1)]
        BY <1>1, <4>2, StoredIs
      <4>4. PICK x \in Int : x = Stored[1].ts
        BY <1>4, <4>3
      <4>5. x < ts /\ x > ts
        BY <3>1, <4>2, <4>4
      <4>6. QED  BY <1>1, <4>4, <4>5
    <3>2. QED  BY <3>1
  <2>6. patternGet(ts) = IF Old THEN TooNew ELSE IF New THEN Expired ELSE NotFound
    <3> HIDE DEF Old, New
    <3>1. QED  BY <1>6, <2>2, <2>3, <2>4
  <2> HIDE DEF Old, New
  <2>7. patternGet(ts) = CASE W!patternGet(ts) # 0 -> Pointer(W!patternGet(ts))
                           [] Old -> TooNew [] New -> Expired [] OTHER -> NotFound
    BY <2>1, <2>5, <2>6
  <2>8. QED  BY <2>7 DEF Old, New
<1>7. QED  BY <1>3, <1>5, <1>6 DEF SearchPost

\* Every lookup of the ring with its wrapping counters, its index rings of cut
\* positions and its binary search finds what the window of patterns has, for
\* edefs whose bit (1<<edef) is right.
THEOREM LookupsRight ==
  ASSUME \A e \in Edefs : ShiftMask[e] \subseteq {e}
  PROVE  Spec => []LookupsAgree
<1>1. BufferInv => LookupsAgree
  BY OldestRight, NextRight, SearchRight DEF LookupsAgree
<1>2. QED  BY <1>1, AlwaysInv, PTL
=============================================================================
