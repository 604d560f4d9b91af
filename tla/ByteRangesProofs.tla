--------------------------- MODULE ByteRangesProofs ---------------------------
(***************************************************************************)
(* Proofs about ByteRanges, for blocks of any size, any offset and any     *)
(* number of bytes.                                                        *)
(***************************************************************************)
EXTENDS ByteRanges, TLAPS

\* Division, as far as it is needed.
LEMMA Quotient ==
  ASSUME NEW a \in Nat
  PROVE  /\ start_index(a) \in Nat
         /\ cblock(a) \in Places
         /\ a = start_index(a) * BlockSize + cblock(a)
<1> DEFINE q == a \div BlockSize
<1>1. q \in Nat
  BY BlockSizeAssumption, SMT
<1>2. /\ BlockSize * q \in Nat
      /\ BlockSize * q <= a
      /\ a < BlockSize * q + BlockSize
  BY BlockSizeAssumption, SMT
<1>3. q * BlockSize = BlockSize * q
  BY <1>1, BlockSizeAssumption, SMT
<1> QED
  BY <1>1, <1>2, <1>3, BlockSizeAssumption DEF start_index, cblock, Places

LEMMA Monotone ==
  ASSUME NEW m \in Nat, NEW n \in Nat, m < n
  PROVE  /\ m * BlockSize \in Nat /\ n * BlockSize \in Nat
         /\ m * BlockSize + BlockSize <= n * BlockSize
<1>1. PICK d \in Nat : n = m + 1 + d
  <2>1. n - m - 1 \in Nat /\ n = m + 1 + (n - m - 1)
    OBVIOUS
  <2> QED
    BY <2>1
<1>2. n * BlockSize = m * BlockSize + BlockSize + d * BlockSize
  BY <1>1, BlockSizeAssumption, SMT
<1>3. m * BlockSize \in Nat /\ d * BlockSize \in Nat
  BY BlockSizeAssumption, SMT
<1> QED
  BY <1>2, <1>3, BlockSizeAssumption

LEMMA Unique ==
  ASSUME NEW m \in Nat, NEW r \in Places
  PROVE  start_index(m * BlockSize + r) = m /\ cblock(m * BlockSize + r) = r
<1> DEFINE a == m * BlockSize + r
<1>1. a \in Nat /\ m * BlockSize \in Nat
  BY BlockSizeAssumption, SMT DEF Places
<1>2. /\ start_index(a) \in Nat
      /\ cblock(a) \in Places
      /\ a = start_index(a) * BlockSize + cblock(a)
  BY <1>1, Quotient
<1>3. start_index(a) = m
  <2>1. ASSUME start_index(a) < m PROVE FALSE
    <3>1. start_index(a) * BlockSize + BlockSize <= m * BlockSize
      BY <1>2, <2>1, Monotone
    <3>2. start_index(a) * BlockSize \in Nat
      BY <1>2, <2>1, Monotone
    <3> HIDE DEF a
    <3>3. a = m * BlockSize + r
      BY DEF a
    <3> QED
      BY <1>1, <1>2, <3>1, <3>2, <3>3, BlockSizeAssumption DEF Places
  <2>2. ASSUME m < start_index(a) PROVE FALSE
    <3>1. m * BlockSize + BlockSize <= start_index(a) * BlockSize
      BY <1>2, <2>2, Monotone
    <3>2. start_index(a) * BlockSize \in Nat
      BY <1>2, <2>2, Monotone
    <3> HIDE DEF a
    <3>3. a = m * BlockSize + r
      BY DEF a
    <3> QED
      BY <1>1, <1>2, <3>1, <3>2, <3>3, BlockSizeAssumption DEF Places
  <2> QED
    BY <1>2, <2>1, <2>2
<1>4. cblock(a) = r
  BY <1>1, <1>3 DEF cblock, Places
<1> QED
  BY <1>3, <1>4

LEMMA Remainder ==
  ASSUME NEW a \in Nat
  PROVE  a % BlockSize = cblock(a)
<1> DEFINE q == a \div BlockSize
<1>1. q \in Nat /\ a % BlockSize = a - BlockSize * q
  BY BlockSizeAssumption, SMT
<1>2. q * BlockSize = BlockSize * q
  BY <1>1, BlockSizeAssumption, SMT
<1> QED
  BY <1>1, <1>2 DEF cblock, start_index

\* Where the byte j of a read comes from: the block and the place in it that
\* the position offset + j has.
LEMMA ReadsInPlace ==
  ASSUME NEW offset \in Nat, NEW j \in Nat
  PROVE  ReadFrom(offset, j) =
           [index |-> start_index(offset + j), place |-> cblock(offset + j)]
<1> DEFINE s == start_index(offset)
           c == cblock(offset)
<1>1. s \in Nat /\ c \in Places /\ offset = s * BlockSize + c
  BY Quotient
<1>2. CASE j < BlockSize - c
  <2>1. c + j \in Places
    BY <1>1, <1>2, BlockSizeAssumption DEF Places
  <2>2. s * BlockSize \in Nat
    BY <1>1, BlockSizeAssumption, SMT
  <2>3. offset + j = s * BlockSize + (c + j)
    <3> DEFINE S == s * BlockSize
    <3>1. S \in Nat /\ offset = S + c
      BY <1>1, <2>2
    <3> HIDE DEF S, s, c
    <3>2. offset + j = S + (c + j)
      BY <1>1, <3>1 DEF Places
    <3> QED
      BY <3>2 DEF S
  <2>4. start_index(offset + j) = s /\ cblock(offset + j) = c + j
    <3> HIDE DEF s, c
    <3> QED
      BY <1>1, <2>1, <2>3, Unique
  <2> QED
    BY <1>2, <2>4 DEF ReadFrom
<1>3. CASE ~(j < BlockSize - c)
  <2> DEFINE rest == j - (BlockSize - c)
             q == rest \div BlockSize
             r == rest % BlockSize
  <2>1. rest \in Nat
    BY <1>1, <1>3, BlockSizeAssumption DEF Places
  <2>2. q = start_index(rest) /\ r = cblock(rest)
    BY <2>1, Remainder DEF start_index
  <2>3. q \in Nat /\ r \in Places /\ rest = q * BlockSize + r
    <3> HIDE DEF rest
    <3> QED
      BY <2>1, <2>2, Quotient
  <2>4. (s + 1 + q) * BlockSize = s * BlockSize + BlockSize + q * BlockSize
    <3> HIDE DEF s, q
    <3> QED
      BY <1>1, <2>3, BlockSizeAssumption, SMT
  <2>5. offset + j = (s + 1 + q) * BlockSize + r
    <3> DEFINE S == s * BlockSize
               Q == q * BlockSize
    <3>1. S \in Nat /\ Q \in Nat
      <4> HIDE DEF s, q
      <4> QED
        BY <1>1, <2>3, BlockSizeAssumption, SMT
    <3>2. offset = S + c /\ j - (BlockSize - c) = Q + r
      BY <1>1, <2>3
    <3>3. (s + 1 + q) * BlockSize = S + BlockSize + Q
      BY <2>4
    <3> HIDE DEF S, Q, s, q, r, c
    <3> QED
      BY <1>1, <2>3, <3>1, <3>2, <3>3, BlockSizeAssumption DEF Places
  <2>6. start_index(offset + j) = s + 1 + q /\ cblock(offset + j) = r
    <3>1. s + 1 + q \in Nat
      <4> HIDE DEF s, q
      <4> QED
        BY <1>1, <2>3
    <3> HIDE DEF s, q, r, c
    <3> QED
      BY <2>3, <2>5, <3>1, Unique
  <2> QED
    BY <1>3, <2>6 DEF ReadFrom
<1> QED
  BY <1>2, <1>3

\* The positions write_bytes is to fill, and those it passes over: the copy to
\* a block between the first and the last ends at the length of the first one.
Written(offset, size) == offset..offset+size-1
Passed(offset, size, p) ==
  /\ start_index(offset) < start_index(p)
  /\ start_index(p) < end_index(offset, size)
  /\ BlockSize - cblock(offset) <= cblock(p)

LEMMA Between ==
  ASSUME NEW m \in Nat, NEW n \in Nat, m < n
  PROVE  (n - m - 1) * BlockSize = n * BlockSize - m * BlockSize - BlockSize
  BY BlockSizeAssumption, SMT

\* A block that write_bytes copies to holds the bytes of the buffer at the
\* places of the range, except those passed over, and is left alone elsewhere.
LEMMA WritesInPlace ==
  ASSUME NEW offset \in Nat, NEW size \in Nat \ {0}, NEW p \in Nat,
         NEW block, NEW buf,
         start_index(offset) <= start_index(p),
         start_index(p) <= end_index(offset, size)
  PROVE  WriteBlock(block, offset, size, buf, start_index(p))[cblock(p)] =
           IF p \in Written(offset, size) /\ ~Passed(offset, size, p)
           THEN buf[p - offset] ELSE block[cblock(p)]
<1> DEFINE s == start_index(offset)
           c == cblock(offset)
           k == start_index(p)
           i == cblock(p)
           e == end_index(offset, size)
           last == offset + size - 1
           S == s * BlockSize
           K == k * BlockSize
           E == e * BlockSize
<1>1. last \in Nat /\ e = start_index(last)
  BY DEF end_index, start_index
<1>2. s \in Nat /\ c \in Places /\ k \in Nat /\ i \in Places /\ e \in Nat
  <2> HIDE DEF last
  <2> QED
    BY <1>1, Quotient
<1>3. S \in Nat /\ K \in Nat /\ E \in Nat
  <2> HIDE DEF s, k, e
  <2> QED
    BY <1>2, BlockSizeAssumption, SMT
<1>4. /\ offset = S + c /\ p = K + i
      /\ last = E + cblock(last) /\ cblock(last) \in Places
  <2> HIDE DEF last
  <2> QED
    BY <1>1, Quotient
<1>5. /\ s < k => S + BlockSize <= K
      /\ k < e => K + BlockSize <= E
      /\ s < e => S + BlockSize <= E
  <2> HIDE DEF s, k, e
  <2> QED
    BY <1>2, Monotone
<1>6. s < k => (k - s - 1) * BlockSize = K - S - BlockSize
  <2> HIDE DEF s, k
  <2> QED
    BY <1>2, Between
<1>7. Before(offset, k) = IF k = s THEN 0 ELSE (BlockSize - c) + (k - s - 1) * BlockSize
  BY DEF Before
<1>8. s < k => Before(offset, k) = K - offset
  <2>1. CASE s < k
    <3> DEFINE D == (k - s - 1) * BlockSize
    <3>1. D = K - S - BlockSize /\ Before(offset, k) = (BlockSize - c) + D
      BY <1>6, <1>7, <2>1, <1>2
    <3> HIDE DEF D, s, k, S, K, c
    <3> QED
      BY <3>1, <1>2, <1>3, <1>4, BlockSizeAssumption DEF Places
  <2> QED
    BY <2>1
<1> DEFINE w == WriteTo(offset, size, k)
           b == Before(offset, k)
<1>9. WriteBlock(block, offset, size, buf, k)[i] =
        IF w.place <= i /\ i < w.place + w.n THEN buf[b + (i - w.place)]
                                             ELSE block[i]
  BY <1>2 DEF WriteBlock, Copy
<1>10. Passed(offset, size, p) <=> s < k /\ k < e /\ BlockSize - c <= i
  BY DEF Passed
<1>11. p \in Written(offset, size) <=> offset <= p /\ p <= last
  BY <1>1 DEF Written
<1>12. s <= k /\ k <= e
  OBVIOUS
<1>13. CASE k = s /\ k = e
  <2>1. w = [place |-> c, n |-> size] /\ b = 0
    BY <1>1, <1>7, <1>13 DEF WriteTo
  <2> HIDE DEF s, c, k, i, e, S, K, E, w, b
  <2>2. K = S
    BY <1>13 DEF S, K
  <2>3. p - offset = i - c
    BY <1>2, <1>3, <1>4, <2>2 DEF Places
  <2>4. ~Passed(offset, size, p)
    BY <1>2, <1>10, <1>13
  <2>5. p \in Written(offset, size) <=> c <= i /\ i < c + size
    BY <1>1, <1>2, <1>3, <1>4, <1>11, <2>2 DEF Places
  <2>6. 0 + (i - c) = i - c
    BY <1>2 DEF Places
  <2>7. WriteBlock(block, offset, size, buf, k)[i] =
          IF c <= i /\ i < c + size THEN buf[i - c] ELSE block[i]
    BY <1>9, <2>1, <2>6
  <2>8. WriteBlock(block, offset, size, buf, k)[i] =
          IF p \in Written(offset, size) /\ ~Passed(offset, size, p)
          THEN buf[p - offset] ELSE block[i]
    BY <2>3, <2>4, <2>5, <2>7
  <2> QED
    BY <2>8 DEF k, i
<1>14. CASE k = s /\ k # e
  <2>1. w = [place |-> c, n |-> BlockSize - c] /\ b = 0
    BY <1>7, <1>14 DEF WriteTo
  <2> HIDE DEF s, c, k, i, e, S, K, E, w, b
  <2>2. K = S
    BY <1>14 DEF S, K
  <2>3. p - offset = i - c
    BY <1>2, <1>3, <1>4, <2>2 DEF Places
  <2>4. ~Passed(offset, size, p)
    BY <1>2, <1>10, <1>14
  <2>5. p <= last
    BY <1>1, <1>2, <1>3, <1>4, <1>5, <1>12, <1>14, BlockSizeAssumption DEF Places
  <2>6. p \in Written(offset, size) <=> c <= i
    BY <1>1, <1>2, <1>3, <1>4, <1>11, <2>2, <2>5 DEF Places
  <2>7. 0 + (i - c) = i - c /\ i < c + (BlockSize - c)
    BY <1>2, BlockSizeAssumption DEF Places
  <2>8. WriteBlock(block, offset, size, buf, k)[i] =
          IF c <= i THEN buf[i - c] ELSE block[i]
    BY <1>9, <2>1, <2>7
  <2>9. WriteBlock(block, offset, size, buf, k)[i] =
          IF p \in Written(offset, size) /\ ~Passed(offset, size, p)
          THEN buf[p - offset] ELSE block[i]
    BY <2>3, <2>4, <2>6, <2>8
  <2> QED
    BY <2>9 DEF k, i
<1>15. CASE s < k
  <2>1. b = K - offset
    BY <1>8, <1>15
  <2>2. w = [place |-> 0, n |-> IF k = e THEN size - b ELSE BlockSize - c]
    BY <1>2, <1>15 DEF WriteTo
  <2> HIDE DEF s, c, k, i, e, S, K, E, w, b
  <2>3. w.place = 0 /\ w.n = IF k < e THEN BlockSize - c ELSE size - b
    BY <1>2, <1>12, <2>2
  <2>4. b + (i - 0) = p - offset /\ 0 <= i
    BY <2>1, <1>2, <1>3, <1>4 DEF Places
  <2>5. offset <= p
    BY <1>2, <1>3, <1>4, <1>5, <1>15, BlockSizeAssumption DEF Places
  <2>6. i < 0 + w.n <=> p \in Written(offset, size) /\ ~Passed(offset, size, p)
    <3>1. CASE k < e
      <4>1. p <= last
        BY <1>1, <1>2, <1>3, <1>4, <1>5, <3>1, BlockSizeAssumption DEF Places
      <4>2. p \in Written(offset, size)
        BY <1>11, <2>5, <4>1
      <4>3. Passed(offset, size, p) <=> BlockSize - c <= i
        BY <1>10, <1>15, <3>1
      <4>4. 0 + w.n = BlockSize - c
        BY <2>3, <3>1, <1>2, BlockSizeAssumption DEF Places
      <4> QED
        BY <1>2, <4>2, <4>3, <4>4, BlockSizeAssumption DEF Places
    <3>2. CASE ~(k < e)
      <4>1. ~Passed(offset, size, p)
        BY <1>10, <3>2
      <4>2. 0 + w.n = size - (K - offset)
        BY <2>1, <2>3, <3>2, <1>3
      <4>3. i < size - (K - offset) <=> p <= last
        BY <1>2, <1>3, <1>4 DEF Places
      <4> QED
        BY <1>11, <2>5, <4>1, <4>2, <4>3
    <3> QED
      BY <3>1, <3>2
  <2>7. WriteBlock(block, offset, size, buf, k)[i] =
          IF i < 0 + w.n THEN buf[p - offset] ELSE block[i]
    BY <1>9, <2>3, <2>4
  <2>8. WriteBlock(block, offset, size, buf, k)[i] =
          IF p \in Written(offset, size) /\ ~Passed(offset, size, p)
          THEN buf[p - offset] ELSE block[i]
    BY <2>6, <2>7
  <2> QED
    BY <2>8 DEF k, i
<1> QED
  BY <1>2, <1>12, <1>13, <1>14, <1>15

LEMMA Order ==
  ASSUME NEW a \in Nat, NEW b \in Nat, a <= b
  PROVE  start_index(a) <= start_index(b)
<1> DEFINE m == start_index(a)
           n == start_index(b)
<1>1. /\ m \in Nat /\ n \in Nat /\ cblock(a) \in Places /\ cblock(b) \in Places
      /\ a = m * BlockSize + cblock(a) /\ b = n * BlockSize + cblock(b)
  BY Quotient
<1>2. ASSUME n < m PROVE FALSE
  <2> DEFINE M == m * BlockSize
             N == n * BlockSize
  <2>1. N \in Nat /\ M \in Nat /\ N + BlockSize <= M
    <3> HIDE DEF m, n
    <3> QED
      BY <1>1, <1>2, Monotone
  <2>2. a = M + cblock(a) /\ b = N + cblock(b)
    BY <1>1
  <2> HIDE DEF m, n, M, N
  <2> QED
    BY <1>1, <2>1, <2>2, BlockSizeAssumption DEF Places
<1> QED
  BY <1>1, <1>2

\* A file has a block for each of its positions.
LEMMA BlocksCover ==
  ASSUME NEW size \in Nat
  PROVE  /\ Blocks(size) \in Nat
         /\ \A p \in 0..size-1 : start_index(p) \in 0..Blocks(size)-1
<1>1. CASE size = 0
  BY <1>1 DEF Blocks
<1>2. CASE size > 0
  <2>1. Blocks(size) = start_index(size - 1) + 1 /\ size - 1 \in Nat
    BY <1>2 DEF Blocks, start_index
  <2>2. start_index(size - 1) \in Nat
    BY <2>1, Quotient
  <2>3. ASSUME NEW p \in 0..size-1
        PROVE  start_index(p) \in 0..Blocks(size)-1
    <3>1. start_index(p) \in Nat /\ start_index(p) <= start_index(size - 1)
      BY <2>1, Order, Quotient
    <3> QED
      BY <2>1, <2>2, <3>1
  <2> QED
    BY <2>1, <2>2, <2>3
<1> QED
  BY <1>1, <1>2

\* The blocks that write_bytes copies to: those of the positions to fill, and
\* of the ones between the first and the last all positions.
LEMMA WrittenBlocks ==
  ASSUME NEW offset \in Nat, NEW size \in Nat \ {0}, NEW p \in Nat
  PROVE  /\ end_index(offset, size) = start_index(offset + size - 1)
         /\ p \in Written(offset, size) =>
              /\ start_index(offset) <= start_index(p)
              /\ start_index(p) <= end_index(offset, size)
         /\ /\ start_index(offset) < start_index(p)
            /\ start_index(p) < end_index(offset, size)
            => p \in Written(offset, size)
<1>1. end_index(offset, size) = start_index(offset + size - 1)
  BY DEF end_index, start_index
<1>2. offset + size - 1 \in Nat
  OBVIOUS
<1>3. /\ start_index(p) \in Nat /\ start_index(offset) \in Nat
      /\ start_index(offset + size - 1) \in Nat
  BY <1>2, Quotient
<1>4. /\ offset <= p => start_index(offset) <= start_index(p)
      /\ p <= offset + size - 1 => start_index(p) <= start_index(offset + size - 1)
      /\ p <= offset => start_index(p) <= start_index(offset)
      /\ offset + size - 1 <= p => start_index(offset + size - 1) <= start_index(p)
  BY <1>2, Order
<1> QED
  BY <1>1, <1>3, <1>4 DEF Written

-----------------------------------------------------------------------------
\* A file after write_bytes.
Rewritten(blocks, offset, size, buf) ==
  [k \in DOMAIN blocks |->
     IF start_index(offset) <= k /\ k <= end_index(offset, size)
     THEN WriteBlock(blocks[k], offset, size, buf, k) ELSE blocks[k]]

\* read_bytes after write_bytes returns at every position, wherever the read
\* begins and ends, the byte of the buffer that was written there, or else the
\* byte it would have returned before; but what the copies to inner blocks pass
\* over is not written.
THEOREM ReadAfterWrite ==
  ASSUME NEW offset \in Nat, NEW size \in Nat \ {0}, NEW buf, NEW blocks,
         NEW filesize \in Nat, NEW from \in Nat, NEW n \in Nat,
         NEW j \in 0..to_read(filesize, from, n)-1,
         start_index(from + j) \in DOMAIN blocks
  PROVE  ReadBytes(Rewritten(blocks, offset, size, buf), filesize, from, n)[j] =
           IF /\ from + j \in Written(offset, size)
              /\ ~Passed(offset, size, from + j)
           THEN buf[from + j - offset]
           ELSE ReadBytes(blocks, filesize, from, n)[j]
<1> DEFINE p == from + j
           k == start_index(p)
           new == Rewritten(blocks, offset, size, buf)
<1>1. to_read(filesize, from, n) \in Nat
  BY DEF to_read
<1>2. j \in Nat /\ p \in Nat
  BY <1>1
<1>3. ASSUME NEW b
      PROVE  ReadBytes(b, filesize, from, n)[j] = b[k][cblock(p)]
  <2>1. ReadFrom(from, j) = [index |-> k, place |-> cblock(p)]
    BY <1>2, ReadsInPlace
  <2>2. ReadFrom(from, j).index = k /\ ReadFrom(from, j).place = cblock(p)
    <3> HIDE DEF p, k
    <3> QED
      BY <2>1
  <2>3. ReadBytes(b, filesize, from, n)[j]
          = b[ReadFrom(from, j).index][ReadFrom(from, j).place]
    BY DEF ReadBytes
  <2> QED
    BY <2>2, <2>3
<1>4. CASE start_index(offset) <= k /\ k <= end_index(offset, size)
  <2>1. new[k] = WriteBlock(blocks[k], offset, size, buf, k)
    BY <1>4 DEF Rewritten
  <2>2. new[k][cblock(p)] =
          IF p \in Written(offset, size) /\ ~Passed(offset, size, p)
          THEN buf[p - offset] ELSE blocks[k][cblock(p)]
    <3> HIDE DEF p, new
    <3> QED
      BY <1>2, <1>4, <2>1, WritesInPlace
  <2> QED
    BY <1>3, <2>2
<1>5. CASE ~(start_index(offset) <= k /\ k <= end_index(offset, size))
  <2>1. new[k] = blocks[k]
    BY <1>5 DEF Rewritten
  <2>2. p \notin Written(offset, size)
    <3> HIDE DEF p
    <3> QED
      BY <1>2, <1>5, WrittenBlocks
  <2> QED
    BY <1>3, <2>1, <2>2
<1> QED
  BY <1>4, <1>5

\* Nothing is passed over by a write that begins with a block, or that touches
\* no more than two blocks.
THEOREM NothingPassed ==
  ASSUME NEW offset \in Nat, NEW size \in Nat \ {0},
         \/ cblock(offset) = 0
         \/ end_index(offset, size) <= start_index(offset) + 1
  PROVE  \A p \in Nat : ~Passed(offset, size, p)
<1> SUFFICES ASSUME NEW p \in Nat, Passed(offset, size, p) PROVE FALSE
  OBVIOUS
<1>1. /\ cblock(p) \in Places /\ start_index(p) \in Nat /\ start_index(offset) \in Nat
      /\ end_index(offset, size) \in Nat
  BY Quotient, WrittenBlocks
<1> QED
  BY <1>1, BlockSizeAssumption DEF Passed, Places
=============================================================================
