---------------------------- MODULE ChunksProofs ----------------------------
(***************************************************************************)
(* What chunks hold and add up to, for any chunk size.                     *)
(***************************************************************************)
EXTENDS Chunks, SequenceTheorems, TLAPS

LEMMA Division ==
  ASSUME NEW n \in Nat
  PROVE  /\ n \div ChunkBytes \in Nat /\ n % ChunkBytes \in 0 .. ChunkBytes - 1
         /\ n = (n \div ChunkBytes) * ChunkBytes + (n % ChunkBytes)
<1>1. n \div ChunkBytes \in Nat /\ n % ChunkBytes \in 0 .. ChunkBytes - 1
  BY ChunksAssumption DEF ChunksAssumption
<1>2. n = ChunkBytes * (n \div ChunkBytes) + (n % ChunkBytes)
  BY ChunksAssumption DEF ChunksAssumption
<1>3. ChunkBytes * (n \div ChunkBytes) = (n \div ChunkBytes) * ChunkBytes
  BY <1>1, ChunksAssumption DEF ChunksAssumption
<1> QED
  BY <1>1, <1>2, <1>3

LEMMA DivisionIs ==
  ASSUME NEW n \in Nat, NEW q \in Nat, q * ChunkBytes <= n, n < (q + 1) * ChunkBytes
  PROVE  n \div ChunkBytes = q /\ n % ChunkBytes = n - q * ChunkBytes
BY ChunksAssumption DEF ChunksAssumption

LEMMA Products ==
  ASSUME NEW a \in Nat, NEW b \in Nat
  PROVE  /\ a * ChunkBytes \in Nat
         /\ a < b => (a + 1) * ChunkBytes <= b * ChunkBytes
         /\ (a + 1) * ChunkBytes = a * ChunkBytes + ChunkBytes
         /\ a <= a * ChunkBytes
BY ChunksAssumption DEF ChunksAssumption

\* Chunk i is counted when it begins before the end.
LEMMA Counted ==
  ASSUME NEW length \in Nat \cup {NoLength}, NEW i \in Nat
  PROVE  i < ChunkCount(length) <=> i * ChunkBytes < length
<1>0. ChunkBytes \in Nat /\ ChunkBytes > 0
  BY ChunksAssumption DEF ChunksAssumption
<1>1. CASE length = NoLength /\ ChunkBytes = 1
  BY <1>0, <1>1, Products DEF ChunkCount, NoLength
<1>2. CASE length + ChunkBytes - 1 \in Nat
  <2> DEFINE q == ChunkCount(length)
  <2>1. /\ q \in Nat
        /\ q * ChunkBytes <= length + ChunkBytes - 1
        /\ length + ChunkBytes - 1 < q * ChunkBytes + ChunkBytes
    BY <1>0, <1>2, Division DEF ChunkCount, NoLength
  <2>2. CASE i < q
    <3>1. (i + 1) * ChunkBytes <= q * ChunkBytes /\ (i + 1) * ChunkBytes = i * ChunkBytes + ChunkBytes
      BY <2>1, <2>2, Products
    <3> QED
      BY <1>0, <2>1, <2>2, <3>1, Products DEF NoLength
  <2>3. CASE ~(i < q)
    <3>1. q * ChunkBytes <= i * ChunkBytes
      BY <1>0, <2>1, <2>3
    <3> QED
      BY <1>0, <2>1, <2>3, <3>1, Products DEF NoLength
  <2> QED
    BY <2>2, <2>3
<1> QED
  BY <1>0, <1>1, <1>2 DEF NoLength

LEMMA ChunkBounds ==
  ASSUME NEW p \in Nat, NEW c \in Nat, NEW length \in Nat, p < length, c > 0
  PROVE  /\ AtMost(p + c, length) \in Int /\ p + 1 <= AtMost(p + c, length)
         /\ AtMost(p + c, length) <= length
         /\ AtMost(p + c, length) - (p + 1) + 1 = AtMost(c, length - p)
BY DEF AtMost

LEMMA ChunkIs ==
  ASSUME NEW bytes \in Seq(Bytes), NEW i \in Nat, i < ChunkCount(Len(bytes))
  PROVE  /\ Chunk(bytes, i) \in Seq(Bytes)
         /\ Len(Chunk(bytes, i)) = AtMost(ChunkBytes, Len(bytes) - i * ChunkBytes)
         /\ \A k \in 1 .. Len(Chunk(bytes, i)) : Chunk(bytes, i)[k] = bytes[i * ChunkBytes + k]
<1> DEFINE m == i * ChunkBytes + 1
           n == AtMost((i + 1) * ChunkBytes, Len(bytes))
<1>1. ChunkBytes \in Nat /\ ChunkBytes > 0 /\ Len(bytes) \in Nat
  BY ChunksAssumption DEF ChunksAssumption
<1>2. /\ i * ChunkBytes \in Nat /\ i * ChunkBytes < Len(bytes)
      /\ (i + 1) * ChunkBytes = i * ChunkBytes + ChunkBytes
  BY <1>1, Counted, Products
<1>3. /\ m \in Int /\ n \in Int /\ m <= n /\ n <= Len(bytes) /\ 1 <= m
      /\ n - m + 1 = AtMost(ChunkBytes, Len(bytes) - i * ChunkBytes)
  BY <1>1, <1>2, ChunkBounds
<1>4. \A k \in m .. n : bytes[k] \in Bytes
  BY <1>1, <1>3
<1>5. /\ SubSeq(bytes, m, n) \in Seq(Bytes)
      /\ Len(SubSeq(bytes, m, n)) = n - m + 1
      /\ \A k \in 1 .. n - m + 1 : SubSeq(bytes, m, n)[k] = bytes[m + k - 1]
  BY <1>3, <1>4, SubSeqProperties
<1>6. \A k \in 1 .. n - m + 1 : m + k - 1 = i * ChunkBytes + k
  BY <1>2, <1>3
<1>7. Chunk(bytes, i) = SubSeq(bytes, m, n)
  BY DEF Chunk
<1> HIDE DEF m, n
<1> QED
  BY <1>3, <1>5, <1>6, <1>7

LEMMA EmptyRowIsWhole ==
  EmptyRow \in Rows /\ WholeRow(EmptyRow) /\ Content(EmptyRow) = NoContent
<1>1. MaxLength \in Nat /\ ChunkBytes \in Nat /\ ChunkBytes > 0
  BY ChunksAssumption DEF ChunksAssumption
<1>2. EmptyRow \in Rows
  BY <1>1 DEF EmptyRow, NoChunks, Rows, NoLength, NoChunk
<1>3. WholeRow(EmptyRow)
  <2> SUFFICES ASSUME NEW i \in Indexes PROVE ~(i < ChunkCount(NoLength))
    BY DEF WholeRow, EmptyRow, NoChunks, NoChunk
  <2>1. i \in Nat /\ i * ChunkBytes \in Nat
    BY <1>1, Products DEF Indexes
  <2> QED
    BY <2>1, Counted DEF NoLength
<1> QED
  BY <1>2, <1>3 DEF Content, EmptyRow

LEMMA ByteStringsAre ==
  ASSUME NEW bytes \in ByteStrings
  PROVE  /\ bytes \in Seq(Bytes) /\ Len(bytes) \in Nat /\ Len(bytes) <= MaxLength
         /\ Len(bytes) \in NoLength .. MaxLength /\ Len(bytes) # NoLength
BY ChunksAssumption DEF ChunksAssumption, ByteStrings, NoLength

\* A row is whole again when all that lay beyond the new chunks is gone.
LEMMA OverwrittenIsWhole ==
  ASSUME NEW chunks \in [Indexes -> Seq(Bytes)], NEW bytes \in ByteStrings, NEW end,
         \A i \in Indexes : ~(i < end) => chunks[i] = <<>>
  PROVE  Written(chunks, bytes, end) \in Rows /\ WholeRow(Written(chunks, bytes, end))
<1> DEFINE r == Written(chunks, bytes, end)
<1>1. ASSUME NEW i \in Indexes
      PROVE  /\ r.chunks[i] \in Seq(Bytes)
             /\ Len(r.chunks[i]) = IF i < ChunkCount(Len(bytes))
                                    THEN AtMost(ChunkBytes, Len(bytes) - i * ChunkBytes) ELSE 0
  <2>0. i \in Nat
    BY ChunksAssumption DEF ChunksAssumption, Indexes
  <2>1. CASE i < ChunkCount(Len(bytes))
    <3>1. r.chunks[i] = Chunk(bytes, i)
      BY <2>1 DEF Written, Overwritten
    <3> QED
      BY <2>0, <2>1, <3>1, ChunkIs, ByteStringsAre
  <2>2. CASE ~(i < ChunkCount(Len(bytes)))
    <3>1. r.chunks[i] = <<>>
      BY <2>2 DEF Written, Overwritten, NoChunk
    <3>2. r.chunks[i] \in Seq(Bytes) /\ Len(r.chunks[i]) = 0
      BY <3>1
    <3> QED
      BY <2>2, <3>2
  <2> QED
    BY <2>1, <2>2
<1>2. r \in Rows
  <2>1. r.chunks \in [Indexes -> Seq(Bytes)]
    BY <1>1 DEF Written, Overwritten
  <2> QED
    BY <2>1, ByteStringsAre DEF Rows, Written
<1> QED
  BY <1>1, <1>2 DEF WholeRow, Written

\* What is written is what is read back, over whatever was there.
LEMMA OverwrittenContent ==
  ASSUME NEW chunks, NEW bytes \in ByteStrings, NEW end
  PROVE  Content(Written(chunks, bytes, end)) = bytes
<1> DEFINE r == Written(chunks, bytes, end)
<1>1. /\ r.length = Len(bytes) /\ r.length # NoLength
      /\ bytes \in Seq(Bytes) /\ Len(bytes) \in Nat /\ Len(bytes) <= MaxLength
      /\ ChunkBytes \in Nat /\ ChunkBytes > 0
  BY ByteStringsAre, ChunksAssumption DEF ChunksAssumption, Written
<1>2. ASSUME NEW k \in 1 .. Len(bytes)
      PROVE  r.chunks[(k - 1) \div ChunkBytes][((k - 1) % ChunkBytes) + 1] = bytes[k]
  <2> DEFINE i == (k - 1) \div ChunkBytes
             j == (k - 1) % ChunkBytes
  <2>1. /\ i \in Nat /\ j \in 0 .. ChunkBytes - 1 /\ k - 1 = i * ChunkBytes + j
        /\ i * ChunkBytes \in Nat /\ i <= i * ChunkBytes
    <3>1. k - 1 \in Nat
      BY <1>1
    <3> QED
      BY <3>1, Division, Products
  <2> HIDE DEF i, j
  <2>2. i * ChunkBytes < Len(bytes)
    BY <1>1, <2>1
  <2>3. i < ChunkCount(Len(bytes)) /\ i \in Indexes
    <3>1. i < MaxLength /\ MaxLength \in Nat
      BY <1>1, <2>1, <2>2, ChunksAssumption DEF ChunksAssumption
    <3> QED
      BY <1>1, <2>1, <2>2, <3>1, Counted DEF Indexes
  <2>4. r.chunks[i] = Chunk(bytes, i)
    BY <2>3 DEF Written, Overwritten
  <2>5. j + 1 \in 1 .. AtMost(ChunkBytes, Len(bytes) - i * ChunkBytes)
    BY <1>1, <2>1 DEF AtMost
  <2>6. Chunk(bytes, i)[j + 1] = bytes[i * ChunkBytes + (j + 1)]
    BY <1>1, <2>1, <2>3, <2>5, ChunkIs
  <2>7. i * ChunkBytes + (j + 1) = k
    BY <2>1
  <2> QED
    BY <2>4, <2>6, <2>7 DEF i, j
<1> HIDE DEF r
<1>3. Content(r) = [k \in 1 .. Len(bytes) |->
                      r.chunks[(k - 1) \div ChunkBytes][((k - 1) % ChunkBytes) + 1]]
  BY <1>1 DEF Content
<1>4. Content(r) = [k \in 1 .. Len(bytes) |-> bytes[k]]
  BY <1>2, <1>3
<1> QED
  BY <1>1, <1>4, LenProperties DEF r
=============================================================================
