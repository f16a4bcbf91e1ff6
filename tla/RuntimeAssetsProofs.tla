------------------------ MODULE RuntimeAssetsProofs -------------------------
(***************************************************************************)
(* Proofs about the runtime asset owners, for any number of owners,        *)
(* readers and names and any chunk size.                                   *)
(***************************************************************************)
EXTENDS RuntimeAssets, ChunksProofs

LEMMA InsertedIsWhole ==
  ASSUME NEW r \in Rows, WholeRow(r), NEW bytes \in Contents
  PROVE  Inserted(r, bytes) \in Rows /\ WholeRow(Inserted(r, bytes))
<1>1. r.chunks \in [Indexes -> Seq(Bytes)]
  BY DEF Rows
<1>2. \A i \in Indexes : ~(i < ChunkCount(r.length)) => r.chunks[i] = <<>>
  BY <1>1 DEF WholeRow
<1>3. bytes \in ByteStrings
  BY AssetsAssumption DEF AssetsAssumption
<1> QED
  BY <1>1, <1>2, <1>3, OverwrittenIsWhole DEF Inserted

LEMMA RemovedIsWhole ==
  ASSUME NEW r \in Rows, WholeRow(r)
  PROVE  Removed(r) = EmptyRow
<1>1. \A i \in Indexes : ~(i < ChunkCount(r.length)) => r.chunks[i] = <<>>
  BY DEF WholeRow, Rows
<1> QED
  BY <1>1 DEF Removed, EmptyRow, NoChunks, NoChunk

(* --- the inductive invariant ------------------------------------------- *)

WholeDatabase(d) == d \in Databases /\ \A n \in Names : WholeRow(d.rows[n])

LEMMA InvariantIs ==
  ASSUME AssetsInvariant
  PROVE  /\ state \in [Owners -> {"closed", "writable", "readonly"}]
         /\ db \in [Owners -> Databases] /\ \A o \in Owners : WholeDatabase(db[o])
         /\ WholeDatabase(image) /\ taken \in BOOLEAN
         /\ reading \in [Readers -> (Owners \X Names) \cup {NoRead}]
         /\ row \in [Readers -> Rows]
         /\ got \in [Readers -> Seq(Bytes)]
         /\ ReadersHold
<1>1. TypeOK /\ RowsAreWhole /\ ReadersHold
  BY DEF AssetsInvariant
<1>2. \A o \in Owners : WholeDatabase(db[o])
  BY <1>1 DEF TypeOK, RowsAreWhole, WholeDatabase
<1>3. WholeDatabase(image)
  BY <1>1 DEF TypeOK, RowsAreWhole, WholeDatabase
<1> QED
  BY <1>1, <1>2, <1>3 DEF TypeOK

LEMMA EmptyDatabaseIsWhole == WholeDatabase(EmptyDatabase)
BY EmptyRowIsWhole DEF WholeDatabase, EmptyDatabase, Databases

LEMMA InitInductive == Init => AssetsInvariant
<1> SUFFICES ASSUME Init PROVE AssetsInvariant
  OBVIOUS
<1>1. EmptyDatabase \in Databases /\ EmptyRow \in Rows /\ <<>> \in Seq(Bytes)
  BY EmptyDatabaseIsWhole, EmptyRowIsWhole DEF WholeDatabase
<1>2. TypeOK
  BY <1>1 DEF Init, TypeOK
<1>3. RowsAreWhole
  BY EmptyDatabaseIsWhole DEF Init, RowsAreWhole, WholeDatabase
<1>4. ReadersHold
  BY DEF Init, ReadersHold
<1> QED
  BY <1>2, <1>3, <1>4 DEF AssetsInvariant

LEMMA CommitIsWhole ==
  ASSUME AssetsInvariant, NEW o \in Owners, NEW n \in Names, NEW r \in Rows, WholeRow(r),
         Commit(o, n, r), UNCHANGED <<state, image, taken, readers>>
  PROVE  AssetsInvariant'
<1>1. WholeDatabase(db[o])
  BY InvariantIs
<1>2. WholeDatabase([tables |-> TRUE, rows |-> [db[o].rows EXCEPT ![n] = r]])
  BY <1>1 DEF WholeDatabase, Databases
<1>3. db' \in [Owners -> Databases] /\ \A p \in Owners : WholeDatabase(db'[p])
  BY <1>2, InvariantIs DEF Commit, WholeDatabase
<1>4. ReadersHold'
  BY InvariantIs DEF ReadersHold, ReaderHolds, readers
<1> QED
  BY <1>3, <1>4, InvariantIs DEF readers, WholeDatabase, AssetsInvariant, TypeOK, RowsAreWhole

LEMMA OpenedIsWhole ==
  ASSUME AssetsInvariant, NEW o \in Owners, NEW how \in {"writable", "readonly"}, NEW d,
         WholeDatabase(d), Opened(o, how, d)
  PROVE  AssetsInvariant'
<1>1. db' \in [Owners -> Databases] /\ \A p \in Owners : WholeDatabase(db'[p])
  BY InvariantIs DEF Opened, WholeDatabase
<1>2. state' \in [Owners -> {"closed", "writable", "readonly"}]
  BY InvariantIs DEF Opened
<1>3. ReadersHold' /\ UNCHANGED <<image, taken, readers>>
  BY InvariantIs DEF Opened, ReadersHold, ReaderHolds, readers
<1> QED
  BY <1>1, <1>2, <1>3 DEF readers, WholeDatabase, AssetsInvariant, TypeOK, RowsAreWhole

LEMMA ClosedIsWhole ==
  ASSUME AssetsInvariant, NEW o \in Owners, Closed(o), WholeDatabase(image)', taken' \in BOOLEAN
  PROVE  AssetsInvariant'
<1>1. db' \in [Owners -> Databases] /\ \A p \in Owners : WholeDatabase(db'[p])
  BY InvariantIs, EmptyDatabaseIsWhole DEF Closed, WholeDatabase
<1>2. state' \in [Owners -> {"closed", "writable", "readonly"}]
  BY InvariantIs DEF Closed
<1>3. ReadersHold' /\ UNCHANGED readers
  BY InvariantIs DEF Closed, ReadersHold, ReaderHolds, readers
<1> QED
  BY <1>1, <1>2, <1>3 DEF readers, WholeDatabase, AssetsInvariant, TypeOK, RowsAreWhole

LEMMA OwnerInductive ==
  ASSUME AssetsInvariant, NEW o \in Owners, OwnerStep(o)
  PROVE  AssetsInvariant'
<1>1. CASE New(o)
  BY <1>1, OpenedIsWhole, EmptyDatabaseIsWhole DEF New
<1>2. CASE FromImage(o)
  BY <1>2, OpenedIsWhole, InvariantIs DEF FromImage
<1>3. ASSUME NEW p \in Owners, Fork(o, p) PROVE AssetsInvariant'
  BY <1>3, OpenedIsWhole, InvariantIs DEF Fork
<1>4. CASE Drop(o)
  BY <1>4, ClosedIsWhole, InvariantIs DEF Drop, WholeDatabase
<1>5. CASE IntoImage(o)
  BY <1>5, ClosedIsWhole, InvariantIs DEF IntoImage, WholeDatabase
<1>6. ASSUME NEW n \in Names, Remove(o, n) PROVE AssetsInvariant'
  <2>1. db[o].rows[n] \in Rows /\ WholeRow(db[o].rows[n])
    BY InvariantIs DEF WholeDatabase, Databases
  <2> QED
    BY <1>6, <2>1, CommitIsWhole, RemovedIsWhole, EmptyRowIsWhole DEF Remove
<1>7. ASSUME NEW n \in Names, NEW bytes \in Contents, Put(o, n, bytes) PROVE AssetsInvariant'
  <2>1. db[o].rows[n] \in Rows /\ WholeRow(db[o].rows[n])
    BY InvariantIs DEF WholeDatabase, Databases
  <2> QED
    BY <1>7, <2>1, CommitIsWhole, InsertedIsWhole DEF Put
<1> QED
  BY <1>1, <1>2, <1>3, <1>4, <1>5, <1>6, <1>7 DEF OwnerStep

\* A get with more to copy finds the next chunk, whole.
LEMMA NextChunkIs ==
  ASSUME AssetsInvariant, NEW t \in Readers, reading[t] # NoRead, More(t)
  PROVE  /\ NextChunk(t) \in Seq(Bytes)
         /\ Len(NextChunk(t)) = Expected(t)
         /\ Expected(t) \in Nat
         /\ (Len(got[t]) \div ChunkBytes) * ChunkBytes = Len(got[t])
<1> DEFINE n == Len(got[t])
           i == n \div ChunkBytes
<1>1. /\ n \in Nat /\ row[t] \in Rows /\ ReaderHolds(t) /\ n < row[t].length
      /\ row[t].length \in Nat /\ row[t].length <= MaxLength
      /\ ChunkBytes \in Nat /\ ChunkBytes > 0 /\ MaxLength \in Nat
  BY ChunksAssumption, InvariantIs
     DEF More, ReadersHold, ReaderHolds, Rows, NoLength, ChunksAssumption
<1>2. i \in Nat /\ i * ChunkBytes = n /\ i <= n
  <2>1. n % ChunkBytes = 0
    <3>1. n % ChunkBytes = 0 \/ n = row[t].length
      BY <1>1 DEF ReaderHolds
    <3>2. n # row[t].length
      BY <1>1
    <3> QED
      BY <3>1, <3>2
  <2>2. i \in Nat /\ n = i * ChunkBytes + (n % ChunkBytes)
    BY <1>1, Division
  <2> QED
    BY <2>1, <2>2, Products
<1> HIDE DEF n, i
<1>3. i \in Indexes /\ i < ChunkCount(row[t].length)
  <2>1. i < MaxLength
    BY <1>1, <1>2
  <2>2. i * ChunkBytes < row[t].length
    BY <1>1, <1>2
  <2> QED
    BY <1>1, <1>2, <2>1, <2>2, Counted DEF Indexes
<1>4. Len(row[t].chunks[i]) = AtMost(ChunkBytes, row[t].length - n)
  BY <1>1, <1>2, <1>3 DEF ReaderHolds, WholeRow
<1>5. row[t].chunks[i] \in Seq(Bytes)
  BY <1>1, <1>3 DEF Rows
<1>6. Expected(t) = AtMost(ChunkBytes, row[t].length - n) /\ Expected(t) \in Nat
  BY <1>1 DEF Expected, AtMost, n
<1> QED
  BY <1>2, <1>4, <1>5, <1>6 DEF NextChunk, Seen, n, i

LEMMA ReaderInductive ==
  ASSUME AssetsInvariant, NEW t \in Readers, ReaderStep(t)
  PROVE  AssetsInvariant'
<1>1. UNCHANGED owners
  BY DEF ReaderStep, GetBegin, GetChunk, GetReturns
<1>2. RowsAreWhole'
  BY <1>1 DEF AssetsInvariant, RowsAreWhole, owners
<1>3. SUFFICES /\ TypeOK'
               /\ \A u \in Readers \ {t} : /\ reading'[u] = reading[u] /\ row'[u] = row[u]
                                             /\ got'[u] = got[u] /\ asked'[u] = asked[u]
               /\ IF reading'[t] = NoRead THEN got'[t] = <<>> ELSE ReaderHolds(t)'
  <2>1. ReadersHold'
    BY <1>3 DEF AssetsInvariant, ReadersHold, ReaderHolds
  <2> QED
    BY <1>2, <1>3, <2>1 DEF AssetsInvariant
<1>4. ASSUME NEW o \in Owners, NEW n \in Names, GetBegin(t, o, n)
      PROVE  /\ TypeOK'
             /\ \A u \in Readers \ {t} : /\ reading'[u] = reading[u] /\ row'[u] = row[u]
                                           /\ got'[u] = got[u] /\ asked'[u] = asked[u]
             /\ reading'[t] # NoRead /\ ReaderHolds(t)'
  <2> DEFINE r == db[o].rows[n]
  <2>1. r \in Rows /\ WholeRow(r) /\ r.length # NoLength
    BY <1>4, InvariantIs DEF WholeDatabase, Databases, GetBegin
  <2>2. TypeOK'
    <3>1. TypeOK /\ <<o, n>> \in (Owners \X Names) \cup {NoRead}
      BY DEF AssetsInvariant
    <3> QED
      BY <1>1, <1>4, <2>1, <3>1 DEF GetBegin, TypeOK, owners
  <2>3. /\ row'[t] = r /\ asked'[t] = Content(r) /\ got'[t] = <<>>
    <3>1. got[t] = <<>>
      BY <1>4 DEF GetBegin, ReadersHold, AssetsInvariant
    <3> QED
      BY <1>4, <3>1 DEF GetBegin, AssetsInvariant, TypeOK
  <2>4. \A u \in Readers \ {t} : /\ reading'[u] = reading[u] /\ row'[u] = row[u]
                                 /\ got'[u] = got[u] /\ asked'[u] = asked[u]
    BY <1>4, InvariantIs DEF GetBegin, AssetsInvariant, TypeOK
  <2>5. ReaderHolds(t)'
    <3>1. 0 % ChunkBytes = 0
      BY ChunksAssumption DEF ChunksAssumption
    <3>2. Len(got'[t]) = 0 /\ 0 <= r.length
      BY <2>1, <2>3 DEF Rows, NoLength
    <3> QED
      BY <2>1, <2>3, <3>1, <3>2 DEF ReaderHolds
  <2>6. reading'[t] # NoRead
    <3>1. reading'[t] = <<o, n>>
      BY <1>4, InvariantIs DEF GetBegin
    <3> QED
      BY <3>1 DEF NoRead
  <2> QED
    BY <2>2, <2>4, <2>5, <2>6
<1>5. CASE GetReturns(t)
  <2>1. EmptyRow \in Rows /\ <<>> \in Seq(Bytes) /\ NoRead \in (Owners \X Names) \cup {NoRead}
    BY EmptyRowIsWhole
  <2>2. TypeOK'
    BY <1>1, <1>5, <2>1 DEF GetReturns, TypeOK, owners, AssetsInvariant
  <2>3. \A u \in Readers \ {t} : /\ reading'[u] = reading[u] /\ row'[u] = row[u]
                                 /\ got'[u] = got[u] /\ asked'[u] = asked[u]
    BY <1>5, InvariantIs DEF GetReturns, AssetsInvariant, TypeOK
  <2>4. reading'[t] = NoRead /\ got'[t] = <<>>
    BY <1>5 DEF GetReturns, AssetsInvariant, TypeOK
  <2> QED
    BY <2>2, <2>3, <2>4
<1>6. ASSUME GetChunk(t)
      PROVE  /\ TypeOK'
             /\ \A u \in Readers \ {t} : /\ reading'[u] = reading[u] /\ row'[u] = row[u]
                                           /\ got'[u] = got[u] /\ asked'[u] = asked[u]
             /\ reading'[t] # NoRead /\ ReaderHolds(t)'
  <2> DEFINE c == NextChunk(t)
             n == Len(got[t])
             m == Len(got'[t])
  <2>1. reading[t] # NoRead /\ More(t) /\ UNCHANGED <<reading, row, asked>>
    BY <1>6 DEF GetChunk
  <2>2. c \in Seq(Bytes) /\ Len(c) = Expected(t) /\ Len(c) \in Nat
    BY <2>1, NextChunkIs
  <2>3. got' = [got EXCEPT ![t] = got[t] \o c]
    BY <1>6 DEF GetChunk
  <2>0. c = row[t].chunks[n \div ChunkBytes]
    BY DEF NextChunk, Seen
  <2> HIDE DEF c
  <2>4. /\ got[t] \in Seq(Bytes) /\ got[t] \o c \in Seq(Bytes) /\ got'[t] = got[t] \o c
        /\ Len(got[t] \o c) = n + Len(c)
        /\ \A k \in 1 .. n + Len(c) :
             (got[t] \o c)[k] = IF k <= n THEN got[t][k] ELSE c[k - n]
    <3>1. got[t] \in Seq(Bytes) /\ got'[t] = got[t] \o c
      BY <2>3, InvariantIs
    <3> QED
      BY <2>2, <3>1, ConcatProperties
  <2>5. TypeOK'
    BY <1>1, <2>1, <2>3, <2>4 DEF TypeOK, owners, AssetsInvariant
  <2>6. \A u \in Readers \ {t} : got'[u] = got[u]
    BY <2>3, InvariantIs
  <2>7. ReaderHolds(t)'
    <3> DEFINE i == n \div ChunkBytes
               length == row[t].length
    <3>1. /\ ReaderHolds(t) /\ n \in Nat /\ length \in Nat /\ n < length
          /\ ChunkBytes \in Nat /\ ChunkBytes > 0
      BY <2>1, <2>4, InvariantIs, ChunksAssumption
         DEF ReadersHold, More, Rows, NoLength, ChunksAssumption
    <3>2. i \in Nat /\ i * ChunkBytes = n /\ c = row[t].chunks[i]
      BY <2>0, <2>1, <3>1, NextChunkIs, Division
    <3> HIDE DEF i
    <3>3. Len(c) = AtMost(length - n, ChunkBytes)
      BY <2>2 DEF Expected
    <3>4. m = n + Len(c) /\ m \in Nat /\ m <= length /\ (m = n + ChunkBytes \/ m = length)
          /\ Len(c) <= ChunkBytes
      BY <2>2, <2>4, <3>1, <3>3 DEF AtMost
    <3>5. m % ChunkBytes = 0 \/ m = length
      <4>1. CASE m = n + ChunkBytes
        <5>1. m = (i + 1) * ChunkBytes /\ i + 1 \in Nat
          BY <3>1, <3>2, <4>1, Products
        <5>2. m < (i + 1 + 1) * ChunkBytes
          BY <3>1, <5>1, Products
        <5> QED
          BY <3>4, <5>1, <5>2, DivisionIs
      <4> QED
        BY <3>4, <4>1
    <3>6. ASSUME NEW k \in 1 .. m PROVE got'[t][k] = Content(row[t])[k]
      <4>1. CASE k <= n
        BY <2>4, <3>1, <3>4, <3>6, <4>1 DEF ReaderHolds
      <4>2. CASE k > n
        <5>1. got'[t][k] = row[t].chunks[i][k - n]
          BY <2>4, <3>2, <3>4, <3>6, <4>2
        <5>2. /\ k - 1 \in Nat /\ i * ChunkBytes <= k - 1
              /\ (i + 1) * ChunkBytes = i * ChunkBytes + ChunkBytes
              /\ k - 1 < i * ChunkBytes + ChunkBytes
          <6>1. k - 1 \in Nat /\ n <= k - 1 /\ k - 1 < n + ChunkBytes
            BY <2>2, <3>1, <3>4, <3>6, <4>2
          <6> QED
            BY <3>1, <3>2, <6>1, Products
        <5>3. (k - 1) \div ChunkBytes = i /\ (k - 1) % ChunkBytes = k - 1 - n
          BY <3>2, <5>2, DivisionIs
        <5>4. Content(row[t])[k] =
                row[t].chunks[(k - 1) \div ChunkBytes][((k - 1) % ChunkBytes) + 1]
          BY <3>1, <3>4, <3>6 DEF Content, ReaderHolds
        <5>5. k - 1 - n + 1 = k - n
          BY <3>1, <3>6, <3>4
        <5> QED
          BY <5>1, <5>3, <5>4, <5>5
      <4> QED
        BY <3>1, <3>4, <3>6, <4>1, <4>2
    <3> QED
      BY <2>1, <3>1, <3>4, <3>5, <3>6 DEF ReaderHolds
  <2> QED
    BY <2>1, <2>5, <2>6, <2>7
<1> QED
  BY <1>4, <1>5, <1>6 DEF ReaderStep

LEMMA NextInductive == AssetsInvariant /\ [Next]_vars => AssetsInvariant'
<1> SUFFICES ASSUME AssetsInvariant, [Next]_vars PROVE AssetsInvariant'
  OBVIOUS
<1>1. CASE UNCHANGED vars
  <2>1. TypeOK' /\ RowsAreWhole'
    BY <1>1 DEF vars, owners, readers, AssetsInvariant, TypeOK, RowsAreWhole
  <2>2. ReadersHold'
    BY <1>1 DEF vars, owners, readers, AssetsInvariant, ReadersHold, ReaderHolds
  <2> QED
    BY <2>1, <2>2 DEF AssetsInvariant
<1> QED
  BY <1>1, OwnerInductive, ReaderInductive DEF Next

\* The inductive invariant: every database is made of whole rows, and every get
\* has copied a prefix of the row it began with.
THEOREM AssetsAreInductive == Spec => []AssetsInvariant
BY InitInductive, NextInductive, PTL DEF Spec

(* --- what follows from it ---------------------------------------------- *)

LEMMA InvariantImpliesSafety ==
  AssetsInvariant => TypeOK /\ RowsAreWhole /\ GetSucceeds /\ GetIsOneVersion
<1> SUFFICES ASSUME AssetsInvariant
             PROVE  TypeOK /\ RowsAreWhole /\ GetSucceeds /\ GetIsOneVersion
  OBVIOUS
<1>1. GetSucceeds
  BY NextChunkIs DEF GetSucceeds
<1>2. GetIsOneVersion
  <2> SUFFICES ASSUME NEW t \in Readers, reading[t] # NoRead, NEW k \in 1 .. Len(got[t])
               PROVE  k \in DOMAIN asked[t] /\ got[t][k] = asked[t][k]
    BY DEF GetIsOneVersion
  <2>1. ReaderHolds(t) /\ row[t].length \in Nat /\ Len(got[t]) \in Nat
    BY InvariantIs DEF ReadersHold, ReaderHolds, Rows, NoLength
  <2>2. DOMAIN asked[t] = 1 .. row[t].length /\ Len(got[t]) <= row[t].length
    BY <2>1 DEF ReaderHolds, Content
  <2> QED
    BY <2>1, <2>2 DEF ReaderHolds
<1> QED
  BY <1>1, <1>2 DEF AssetsInvariant

\* Every field keeps its type.
THEOREM Typed == Spec => []TypeOK
BY AssetsAreInductive, InvariantImpliesSafety, PTL

\* No put, replacement or removal leaves a chunk behind or out.
THEOREM RowsStayWhole == Spec => []RowsAreWhole
BY AssetsAreInductive, InvariantImpliesSafety, PTL

\* get never fails while the owner is written to.
THEOREM GetsSucceed == Spec => []GetSucceeds
BY AssetsAreInductive, InvariantImpliesSafety, PTL

\* get never mixes two versions of an asset.
THEOREM GetsAreExact == Spec => []GetIsOneVersion
BY AssetsAreInductive, InvariantImpliesSafety, PTL

(* --- the asset map ------------------------------------------------------ *)

\* What insert stores is what Content reads back, over whatever was there.
LEMMA InsertedContent ==
  ASSUME NEW r \in Rows, NEW bytes \in Contents
  PROVE  Content(Inserted(r, bytes)) = bytes
BY OverwrittenContent, AssetsAssumption DEF Inserted, AssetsAssumption

LEMMA CommitAssigns ==
  ASSUME AssetsInvariant, NEW o \in Owners, NEW n \in Names, NEW r, Commit(o, n, r),
         UNCHANGED <<state, image, taken>>, state[o] = "writable"
  PROVE  Assets!Assign(o, n, Content(r))
<1>1. db \in [Owners -> Databases] /\ db[o].rows \in [Names -> Rows]
  BY InvariantIs DEF Databases
<1>2. db'[o].rows = [db[o].rows EXCEPT ![n] = r] /\ \A p \in Owners \ {o} : db'[p] = db[p]
  BY <1>1 DEF Commit
<1>3. Map(db'[o]) = [Map(db[o]) EXCEPT ![n] = Content(r)]
  BY <1>1, <1>2 DEF Map
<1>4. assets' = [assets EXCEPT ![o] = [assets[o] EXCEPT ![n] = Content(r)]]
  BY <1>2, <1>3 DEF assets
<1>5. UNCHANGED shipped
  BY DEF shipped
<1> QED
  BY <1>4, <1>5 DEF Assets!Assign

LEMMA OpenedOpens ==
  ASSUME AssetsInvariant, NEW o \in Owners, NEW how, NEW d, Opened(o, how, d)
  PROVE  Assets!Open(o, how, Map(d))
<1>1. db' = [db EXCEPT ![o] = d] /\ db \in [Owners -> Databases]
  BY InvariantIs DEF Opened
<1>2. assets' = [assets EXCEPT ![o] = Map(d)]
  BY <1>1 DEF assets
<1>3. UNCHANGED shipped
  BY DEF Opened, shipped
<1> QED
  BY <1>2, <1>3 DEF Opened, Assets!Open

LEMMA EmptyIsFresh == Map(EmptyDatabase) = Assets!Fresh
BY EmptyRowIsWhole DEF Map, EmptyDatabase, Assets!Fresh

LEMMA ClosedCloses ==
  ASSUME AssetsInvariant, NEW o \in Owners, Closed(o),
         \/ UNCHANGED <<image, taken>>
         \/ state[o] = "writable" /\ image' = db[o] /\ taken' = TRUE
  PROVE  Assets!Close(o)
<1>1. db' = [db EXCEPT ![o] = EmptyDatabase] /\ db \in [Owners -> Databases]
  BY InvariantIs DEF Closed
<1>2. assets' = [assets EXCEPT ![o] = Assets!Fresh]
  BY <1>1, EmptyIsFresh DEF assets
<1>3. \/ UNCHANGED <<shipped, taken>>
      \/ state[o] = "writable" /\ shipped' = assets[o] /\ taken' = TRUE
  BY DEF shipped, assets
<1> QED
  BY <1>2, <1>3 DEF Closed, Assets!Close

LEMMA StepsRefine ==
  ASSUME AssetsInvariant, [Next]_vars
  PROVE  Assets!Next \/ UNCHANGED <<state, assets, shipped, taken>>
<1>1. UNCHANGED owners => UNCHANGED <<state, assets, shipped, taken>>
  BY DEF owners, assets, shipped
<1>2. CASE UNCHANGED vars
  BY <1>1, <1>2 DEF vars
<1>3. ASSUME NEW t \in Readers, ReaderStep(t) PROVE UNCHANGED owners
  BY <1>3 DEF ReaderStep, GetBegin, GetChunk, GetReturns
<1>4. ASSUME NEW o \in Owners, OwnerStep(o) PROVE Assets!Next
  <2>1. CASE New(o)
    <3>1. Assets!New(o)
      BY <2>1, OpenedOpens, EmptyIsFresh DEF New, Assets!New
    <3> QED
      BY <3>1 DEF Assets!Next
  <2>2. CASE FromImage(o)
    <3>1. Assets!OpenImage(o)
      BY <2>2, OpenedOpens DEF FromImage, Assets!OpenImage, shipped
    <3> QED
      BY <3>1 DEF Assets!Next
  <2>3. ASSUME NEW p \in Owners, Fork(o, p) PROVE Assets!Next
    <3>1. Assets!Fork(o, p)
      BY <2>3, OpenedOpens DEF Fork, Assets!Fork, assets
    <3> QED
      BY <3>1 DEF Assets!Next
  <2>4. CASE Drop(o) \/ IntoImage(o)
    <3>1. Assets!Close(o)
      BY <2>4, ClosedCloses DEF Drop, IntoImage
    <3> QED
      BY <3>1 DEF Assets!Next
  <2>5. ASSUME NEW n \in Names, Remove(o, n) PROVE Assets!Next
    <3>1. db[o].rows[n] \in Rows /\ WholeRow(db[o].rows[n])
      BY InvariantIs DEF WholeDatabase, Databases
    <3>2. Content(Removed(db[o].rows[n])) = NoContent
      BY <3>1, RemovedIsWhole, EmptyRowIsWhole
    <3>3. Assets!Assign(o, n, Content(Removed(db[o].rows[n])))
      BY <2>5, CommitAssigns DEF Remove
    <3> QED
      BY <3>2, <3>3 DEF Assets!Next
  <2>6. ASSUME NEW n \in Names, NEW bytes \in Contents, Put(o, n, bytes) PROVE Assets!Next
    <3>1. db[o].rows[n] \in Rows
      BY InvariantIs DEF WholeDatabase, Databases
    <3>2. Content(Inserted(db[o].rows[n], bytes)) = bytes
      BY <3>1, InsertedContent
    <3>3. Assets!Assign(o, n, Content(Inserted(db[o].rows[n], bytes)))
      BY <2>6, CommitAssigns DEF Put
    <3> QED
      BY <3>2, <3>3 DEF Assets!Next
  <2> QED
    BY <1>4, <2>1, <2>2, <2>3, <2>4, <2>5, <2>6 DEF OwnerStep
<1> QED
  BY <1>1, <1>2, <1>3, <1>4 DEF Next

\* The owners implement maps of exact contents: a put replaces one asset and
\* nothing else, and forks and images are exact copies that go their own way.
THEOREM OwnersAreMaps == Spec => RefinesAssetMap
<1>1. Init => Assets!Init
  BY EmptyIsFresh DEF Init, Assets!Init, assets, shipped
<1>2. AssetsInvariant /\ [Next]_vars => [Assets!Next]_(Assets!vars)
  BY StepsRefine DEF Assets!vars
<1> QED
  BY <1>1, <1>2, AssetsAreInductive, PTL DEF Spec, RefinesAssetMap, Assets!Spec
=============================================================================
