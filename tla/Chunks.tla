------------------------------- MODULE Chunks -------------------------------
(***************************************************************************)
(* Byte strings kept in redb as chunks of one size beside their length:    *)
(* the form in which runtime_assets.rs keeps assets and glTFredb.rs keeps  *)
(* blobs and derived artefacts.                                            *)
(***************************************************************************)
EXTENDS Integers, Sequences

CONSTANTS
  Bytes,
  ChunkBytes,        \* RUNTIME_CHUNK_BYTES, CHUNK
  MaxLength          \* bound on the length of a byte string

ASSUME ChunksAssumption ==
  /\ ChunkBytes \in Nat /\ ChunkBytes > 0
  /\ MaxLength \in Nat

ByteStrings == {c \in Seq(Bytes) : Len(c) <= MaxLength}

NoLength == -1
NoChunk == <<>>     \* no chunk is empty
NoContent == <<"none">>

AtMost(a, b) == IF a <= b THEN a ELSE b
ChunkCount(length) == (length + ChunkBytes - 1) \div ChunkBytes
Indexes == 0 .. MaxLength - 1

\* Chunk i of a byte string.
Chunk(bytes, i) == SubSeq(bytes, i * ChunkBytes + 1, AtMost((i + 1) * ChunkBytes, Len(bytes)))

\* A length record and the chunks under one name.
Rows == [length : NoLength .. MaxLength, chunks : [Indexes -> Seq(Bytes)]]
NoChunks == [i \in Indexes |-> NoChunk]
EmptyRow == [length |-> NoLength, chunks |-> NoChunks]

\* The chunks of `bytes` go over those there are, and of these, from there up to
\* `end`, the rest goes.
Overwritten(chunks, bytes, end) ==
  [i \in Indexes |->
     IF i < ChunkCount(Len(bytes)) THEN Chunk(bytes, i)
     ELSE IF i < end THEN NoChunk
     ELSE chunks[i]]
Written(chunks, bytes, end) ==
  [length |-> Len(bytes), chunks |-> Overwritten(chunks, bytes, end)]

\* The bytes a row stands for.
Content(r) ==
  IF r.length = NoLength THEN NoContent
  ELSE [k \in 1 .. r.length |-> r.chunks[(k - 1) \div ChunkBytes][((k - 1) % ChunkBytes) + 1]]

\* The chunks of a row are exactly those its length counts, each as long as its
\* readers insist on.
WholeRow(r) ==
  \A i \in Indexes :
    Len(r.chunks[i]) =
      IF i < ChunkCount(r.length) THEN AtMost(ChunkBytes, r.length - i * ChunkBytes) ELSE 0
=============================================================================
