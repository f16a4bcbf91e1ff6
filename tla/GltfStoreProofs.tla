--------------------------- MODULE GltfStoreProofs --------------------------
(***************************************************************************)
(* Proofs about the glTF document store, for any documents, assets,        *)
(* artefacts and number of threads.                                        *)
(***************************************************************************)
EXTENDS GltfStore, ChunksProofs, FiniteSetTheorems, WellFoundedInduction

(* --- keys, documents, artefacts ------------------------------------------ *)

LEMMA KeysAre ==
  /\ \A r \in Revisions, p \in Parts : <<r, p>> \in Keys
  /\ \A a \in Assets : <<a, AssetPart>> \in Keys
  /\ RevisionPart \in Parts /\ AssetPart \in Parts /\ RevisionPart # AssetPart
  /\ \A r \in Revisions : r \notin Assets
  /\ \A k \in Keys : \/ k[1] \in Revisions /\ k[2] \in Parts /\ k = <<k[1], k[2]>>
                     \/ k[1] \in Assets /\ k[2] = AssetPart /\ k = <<k[1], AssetPart>>
BY GltfAssumption DEF GltfAssumption, Keys, Parts, RevisionPart, AssetPart

LEMMA DocumentsAre ==
  ASSUME NEW d \in Documents
  PROVE  /\ RevisionPart \notin d.parts /\ AssetPart \notin d.parts
         /\ d.parts \subseteq Parts
         /\ \A p \in d.parts : d.uses[p] \subseteq d.parts
         /\ DOMAIN d.bytes \subseteq Parts
         /\ \A p \in DOMAIN d.bytes : d.bytes[p] \in ByteStrings
         /\ \A p \in d.parts : p[1] = "buffer" => p \in DOMAIN d.bytes
<1>1. /\ RevisionPart \notin d.parts /\ AssetPart \notin d.parts
      /\ d.uses \in [d.parts -> SUBSET d.parts]
      /\ d.bytes \in [{RevisionPart} \cup {p \in d.parts : p[1] = "buffer"} -> ByteStrings]
  BY GltfAssumption DEF GltfAssumption
<1>2. d.parts \subseteq Parts /\ RevisionPart \in Parts
  BY DEF Parts
<1>3. DOMAIN d.bytes = {RevisionPart} \cup {p \in d.parts : p[1] = "buffer"}
  BY <1>1
<1> QED
  BY <1>1, <1>2, <1>3

LEMMA NoChunksAre == NoChunks \in [Indexes -> Seq(Bytes)]
BY DEF NoChunks, NoChunk

LEMMA WrittenIs ==
  ASSUME NEW bytes \in ByteStrings
  PROVE  /\ Written(NoChunks, bytes, 0) \in Rows /\ WholeRow(Written(NoChunks, bytes, 0))
         /\ Content(Written(NoChunks, bytes, 0)) = bytes
         /\ Overwritten(NoChunks, bytes, 0) \in [Indexes -> Seq(Bytes)]
<1>1. \A i \in Indexes : ~(i < 0) => NoChunks[i] = <<>>
  BY DEF NoChunks, NoChunk
<1>2. Written(NoChunks, bytes, 0) \in Rows /\ WholeRow(Written(NoChunks, bytes, 0))
  BY <1>1, NoChunksAre, OverwrittenIsWhole
<1>3. Content(Written(NoChunks, bytes, 0)) = bytes
  BY OverwrittenContent
<1> QED
  BY <1>2, <1>3 DEF Written, Rows

LEMMA ArtefactsAre ==
  ASSUME NEW x \in Artefacts
  PROVE  /\ x = [provenance |-> x.provenance, bytes |-> x.bytes]
         /\ x.bytes \in ByteStrings /\ x.provenance \in Provenances
         /\ x.provenance # NoProvenance
BY GltfAssumption DEF GltfAssumption, NoProvenance

LEMMA DerivationIs ==
  ASSUME NEW x \in Artefacts
  PROVE  /\ Derivation(x) \in [provenance : Provenances \cup {NoProvenance}, row : Rows]
         /\ Derivation(x) # NotDerived
         /\ Derivation(x).provenance = x.provenance
         /\ Derivation(x).row = Written(NoChunks, x.bytes, 0)
BY ArtefactsAre, WrittenIs DEF Derivation, NotDerived

\* Two artefacts with the same record and chunks are the same.
LEMMA DerivationsDiffer ==
  ASSUME NEW id, NEW x \in Artefacts, NEW z \in Artefacts, derived[id] = Derivation(z)
  PROVE  Same(id, x) <=> x = z
<1>1. /\ derived[id].provenance = z.provenance
      /\ derived[id].row.length = Len(z.bytes)
      /\ derived[id].row.chunks = Overwritten(NoChunks, z.bytes, 0)
  BY DEF Derivation, Written
<1>2. ASSUME x = z PROVE Same(id, x)
  <2>1. \A i \in Indexes : i < ChunkCount(Len(x.bytes)) =>
          Overwritten(NoChunks, x.bytes, 0)[i] = Chunk(x.bytes, i)
    BY DEF Overwritten
  <2> QED
    BY <1>1, <1>2, <2>1 DEF Same
<1>3. ASSUME Same(id, x) PROVE x = z
  <2>1. x.provenance = z.provenance /\ Len(x.bytes) = Len(z.bytes)
    BY <1>1, <1>3 DEF Same
  <2>2. ASSUME NEW i \in Indexes
        PROVE  Overwritten(NoChunks, x.bytes, 0)[i] = Overwritten(NoChunks, z.bytes, 0)[i]
    <3>1. CASE i < ChunkCount(Len(x.bytes))
      BY <1>1, <1>3, <3>1 DEF Same, Overwritten
    <3>2. CASE ~(i < ChunkCount(Len(x.bytes)))
      BY <2>1, <3>2 DEF Overwritten
    <3> QED
      BY <3>1, <3>2
  <2>3. Overwritten(NoChunks, x.bytes, 0) = Overwritten(NoChunks, z.bytes, 0)
    BY <2>2 DEF Overwritten
  <2>4. Written(NoChunks, x.bytes, 0) = Written(NoChunks, z.bytes, 0)
    BY <2>1, <2>3 DEF Written
  <2>5. x.bytes = z.bytes
    BY <2>4, ArtefactsAre, WrittenIs
  <2> QED
    BY <2>1, <2>5, ArtefactsAre
<1> QED
  BY <1>2, <1>3

(* --- what import writes -------------------------------------------------- *)

LEMMA RecordsAre ==
  ASSUME NEW r \in Revisions, NEW a \in Assets, NEW d \in Documents, NEW kinds
  PROVE  /\ NoRecord \in Records
         /\ AssetRecord(r) \in Records /\ RevisionRecord(r, a) \in Records
         /\ AssetRecord(r) # NoRecord /\ RevisionRecord(r, a) # NoRecord
         /\ \A p \in Normalized(d, kinds) :
              PartRecord(r, d, p, kinds) \in Records /\ PartRecord(r, d, p, kinds) # NoRecord
<1>1. NoLength \in NoLength .. MaxLength
  BY ChunksAssumption DEF ChunksAssumption, NoLength
<1>2. NoRecord \in Records /\ AssetRecord(r) \in Records /\ RevisionRecord(r, a) \in Records
  BY <1>1, KeysAre DEF NoRecord, AssetRecord, RevisionRecord, Records
<1>3. AssetRecord(r) # NoRecord /\ RevisionRecord(r, a) # NoRecord
  BY DEF NoRecord, AssetRecord, RevisionRecord
<1>4. ASSUME NEW p \in Normalized(d, kinds)
      PROVE  PartRecord(r, d, p, kinds) \in Records /\ PartRecord(r, d, p, kinds) # NoRecord
  <2>1. p \in d.parts /\ <<r, p>> \in Keys
    BY DocumentsAre, KeysAre DEF Normalized
  <2>2. Links(r, d, p, kinds) \subseteq Keys
    BY <2>1, DocumentsAre, KeysAre DEF Links
  <2>3. (IF p[1] = "buffer" THEN Len(d.bytes[p]) ELSE NoLength) \in NoLength .. MaxLength
    BY <1>1, <2>1, DocumentsAre, ByteStringsAre
  <2> QED
    BY <2>1, <2>2, <2>3 DEF PartRecord, Records, NoRecord
<1> QED
  BY <1>2, <1>3, <1>4

\* Nothing but the asset and the new revision is touched.
Moved(old, new, r, a) ==
  /\ new[<<a, AssetPart>>] = AssetRecord(r)
  /\ \A k \in Keys : k # <<a, AssetPart>> /\ k[1] # r => new[k] = old[k]
Kept(old, new, r) == \A k \in Keys : k[1] # r => new[k] = old[k]

LEMMA RecordedIs ==
  ASSUME NEW table \in [Keys -> Records], NEW r \in Revisions, NEW a \in Assets,
         NEW d \in Documents, NEW kinds,
         \A p \in Parts : table[<<r, p>>] = NoRecord
  PROVE  /\ Recorded(table, r, a, d, kinds) \in [Keys -> Records]
         /\ Moved(table, Recorded(table, r, a, d, kinds), r, a)
         /\ RecordsHold(Recorded(table, r, a, d, kinds), r, a, d, kinds)
<1> DEFINE new == Recorded(table, r, a, d, kinds)
<1>1. ASSUME NEW k \in Keys PROVE new[k] \in Records
  <2>1. table[k] \in Records
    OBVIOUS
  <2> QED
    BY <2>1, RecordsAre DEF Recorded
<1>2. new \in [Keys -> Records]
  BY <1>1 DEF Recorded
<1>3. <<a, AssetPart>> \in Keys /\ new[<<a, AssetPart>>] = AssetRecord(r)
  BY KeysAre DEF Recorded
<1>4. ASSUME NEW k \in Keys, k # <<a, AssetPart>>, k[1] # r PROVE new[k] = table[k]
  <2>1. k # <<r, RevisionPart>>
    BY <1>4
  <2> QED
    BY <1>4, <2>1 DEF Recorded
<1>5. \A p \in Parts : <<r, p>> \in Keys /\ <<r, p>> # <<a, AssetPart>>
  BY KeysAre
<1>6. new[<<r, RevisionPart>>] = RevisionRecord(r, a)
  BY <1>5, KeysAre DEF Recorded
<1>7. ASSUME NEW p \in Parts \ {RevisionPart}
      PROVE  new[<<r, p>>] = IF p \in Normalized(d, kinds) THEN PartRecord(r, d, p, kinds) ELSE NoRecord
  <2>1. /\ <<r, p>> \in Keys /\ <<r, p>> # <<a, AssetPart>> /\ <<r, p>> # <<r, RevisionPart>>
        /\ <<r, p>>[1] = r /\ <<r, p>>[2] = p
    BY <1>5
  <2> QED
    BY <2>1 DEF Recorded
<1> QED
  BY <1>2, <1>3, <1>4, <1>6, <1>7 DEF RecordsHold, Moved

LEMMA StoredIs ==
  ASSUME NEW table \in [Keys -> [Indexes -> Seq(Bytes)]], NEW r \in Revisions,
         NEW d \in Documents,
         \A p \in Parts : table[<<r, p>>] = NoChunks
  PROVE  /\ Stored(table, r, d) \in [Keys -> [Indexes -> Seq(Bytes)]]
         /\ Kept(table, Stored(table, r, d), r)
         /\ BlobsHold(Stored(table, r, d), r, d)
<1>1. ASSUME NEW k \in Keys, k[1] = r
      PROVE  /\ k[2] \in Parts /\ k = <<r, k[2]>> /\ table[k] = NoChunks
             /\ k[2] \in DOMAIN d.bytes =>
                  Overwritten(table[k], d.bytes[k[2]], 0) \in [Indexes -> Seq(Bytes)]
  <2>1. k[2] \in Parts /\ k = <<r, k[2]>>
    BY <1>1, KeysAre
  <2> QED
    BY <2>1, DocumentsAre, WrittenIs
<1>2. Stored(table, r, d) \in [Keys -> [Indexes -> Seq(Bytes)]]
  BY <1>1 DEF Stored
<1>3. Kept(table, Stored(table, r, d), r)
  BY DEF Stored, Kept
<1>4. ASSUME NEW p \in Parts
      PROVE  Stored(table, r, d)[<<r, p>>] =
               IF p \in DOMAIN d.bytes THEN Overwritten(NoChunks, d.bytes[p], 0) ELSE NoChunks
  <2>1. <<r, p>> \in Keys /\ <<r, p>>[1] = r /\ <<r, p>>[2] = p
    BY KeysAre
  <2> QED
    BY <2>1 DEF Stored
<1> QED
  BY <1>2, <1>3, <1>4 DEF BlobsHold

LEMMA TrackingsAre ==
  /\ {} \in Trackings /\ {} # NoTracking
  /\ \A flags \in SUBSET Flags : flags # NoTracking
BY DEF Trackings, NoTracking, Flags

LEMMA InsertMissingIs ==
  ASSUME NEW table \in [Keys -> Trackings \cup {NoTracking}], NEW keys
  PROVE  /\ InsertMissing(table, keys) \in [Keys -> Trackings \cup {NoTracking}]
         /\ \A k \in Keys : k \in keys => InsertMissing(table, keys)[k] # NoTracking
         /\ \A k \in Keys : table[k] # NoTracking => InsertMissing(table, keys)[k] = table[k]
BY TrackingsAre DEF InsertMissing

LEMMA VerdictsAre ==
  ASSUME NEW v \in Verdicts
  PROVE  v[2] # NoTracking /\ (ValidFlags(v[2]) => v[2] \in Trackings)
BY GltfAssumption DEF GltfAssumption, Trackings, NoTracking, Flags, ValidFlags

(* --- the inductive invariant --------------------------------------------- *)

LEMMA InitInductive == Init => GltfInvariant
<1> SUFFICES ASSUME Init PROVE GltfInvariant
  OBVIOUS
<1>0. /\ MaxRevision \in Nat /\ MaxDecisions \in Nat /\ Revisions = 1 .. MaxRevision
      /\ NoRecord \in Records
      /\ [k \in Keys |-> NoRecord] \in [Keys -> Records]
      /\ [k \in Keys |-> NoChunks] \in [Keys -> [Indexes -> Seq(Bytes)]]
  <2>1. NoRecord \in Records
    <3>1. NoLength \in NoLength .. MaxLength
      BY ChunksAssumption DEF ChunksAssumption, NoLength
    <3> QED
      BY <3>1 DEF NoRecord, Records
  <2> QED
    BY <2>1, NoChunksAre, GltfAssumption DEF GltfAssumption, Revisions
<1>1. /\ tracking = [k \in Keys |-> NoTracking] /\ decided = [k \in Keys |-> NoTracking]
      /\ derived = [id \in Ids |-> NotDerived] /\ decisions = 0
      /\ step = [t \in Derivers |-> "idle"] /\ job = [t \in Derivers |-> NoJob]
  BY DEF Init
<1>2. /\ NotDerived \in [provenance : Provenances \cup {NoProvenance}, row : Rows]
  BY EmptyRowIsWhole DEF NotDerived
<1>3. /\ tracking \in [Keys -> Trackings \cup {NoTracking}]
      /\ derived \in [Ids -> [provenance : Provenances \cup {NoProvenance}, row : Rows]]
      /\ step \in [Derivers -> {"idle", "checked", "ok", "conflict"}]
      /\ job \in [Derivers -> (Ids \X Artefacts) \cup {NoJob}]
      /\ decisions \in 0 .. MaxDecisions /\ DOMAIN decided = Keys
  BY <1>0, <1>1, <1>2
<1>4. DecisionsStay /\ DerivedHold /\ JobsHold
  BY <1>1 DEF DecisionsStay, DerivedHold, JobsHold
<1>5. SUFFICES /\ next_revision \in 1 .. MaxRevision + 1
               /\ records \in [Keys -> Records]
               /\ blobs \in [Keys -> [Indexes -> Seq(Bytes)]]
               /\ legacy \in 0 .. MaxRevision /\ DOMAIN imported = Revisions
               /\ HistoryHolds /\ AssetsHold /\ EveryRecordTracked
  BY <1>3, <1>4, <1>5 DEF GltfInvariant, TypeOK
<1>6. CASE Fresh
  <2>1. /\ next_revision = 1 /\ legacy = 0
        /\ records = [k \in Keys |-> NoRecord] /\ blobs = [k \in Keys |-> NoChunks]
        /\ imported = [r \in Revisions |-> NoImport]
    BY <1>6 DEF Fresh
  <2>2. HistoryHolds
    BY <1>0, <2>1, KeysAre DEF HistoryHolds, NothingHolds
  <2>3. AssetsHold
    BY <1>0, <2>1, KeysAre DEF AssetsHold, Of
  <2>4. EveryRecordTracked
    BY <2>1 DEF EveryRecordTracked
  <2> QED
    BY <1>0, <2>1, <2>2, <2>3, <2>4
<1>7. ASSUME NEW a \in Assets, NEW d \in Documents, Old(a, d)
      PROVE  /\ next_revision \in 1 .. MaxRevision + 1
             /\ records \in [Keys -> Records]
             /\ blobs \in [Keys -> [Indexes -> Seq(Bytes)]]
             /\ legacy \in 0 .. MaxRevision /\ DOMAIN imported = Revisions
             /\ HistoryHolds /\ AssetsHold /\ EveryRecordTracked
  <2>1. /\ 1 \in Revisions /\ next_revision = 2 /\ legacy = 1
        /\ imported = [r \in Revisions |-> IF r = 1 THEN <<a, d>> ELSE NoImport]
        /\ \A r \in Revisions : r < next_revision => r = 1
    BY <1>0, <1>7 DEF Old
  <2>2. /\ records \in [Keys -> Records]
        /\ records[<<a, AssetPart>>] = AssetRecord(1)
        /\ \A k \in Keys : k # <<a, AssetPart>> /\ k[1] # 1 => records[k] = NoRecord
        /\ RecordsHold(records, 1, a, d, OldKinds)
    <3>1. records = Recorded([k \in Keys |-> NoRecord], 1, a, d, OldKinds)
      BY <1>7 DEF Old
    <3>2. PICK nothing : nothing = [k \in Keys |-> NoRecord]
      OBVIOUS
    <3>3. /\ nothing \in [Keys -> Records]
          /\ \A p \in Parts : nothing[<<1, p>>] = NoRecord
          /\ \A k \in Keys : nothing[k] = NoRecord
      BY <1>0, <2>1, <3>2, KeysAre
    <3>4. /\ records \in [Keys -> Records] /\ RecordsHold(records, 1, a, d, OldKinds)
          /\ Moved(nothing, records, 1, a)
      BY <2>1, <3>1, <3>2, <3>3, RecordedIs
    <3> QED
      BY <3>3, <3>4 DEF Moved
  <2>3. /\ blobs \in [Keys -> [Indexes -> Seq(Bytes)]]
        /\ \A k \in Keys : k[1] # 1 => blobs[k] = NoChunks
        /\ BlobsHold(blobs, 1, d)
    <3>1. blobs = Stored([k \in Keys |-> NoChunks], 1, d)
      BY <1>7 DEF Old
    <3>2. PICK nothing : nothing = [k \in Keys |-> NoChunks]
      OBVIOUS
    <3>3. /\ nothing \in [Keys -> [Indexes -> Seq(Bytes)]]
          /\ \A p \in Parts : nothing[<<1, p>>] = NoChunks
          /\ \A k \in Keys : nothing[k] = NoChunks
      BY <1>0, <2>1, <3>2, KeysAre
    <3>4. /\ blobs \in [Keys -> [Indexes -> Seq(Bytes)]]
          /\ Kept(nothing, blobs, 1) /\ BlobsHold(blobs, 1, d)
      BY <2>1, <3>1, <3>2, <3>3, StoredIs
    <3> QED
      BY <3>3, <3>4 DEF Kept
  <2>4. HistoryHolds
    <3>1. imported[1] = <<a, d>> /\ RevisionHolds(1, a, d, OldKinds)
      BY <2>1, <2>2, <2>3 DEF RevisionHolds
    <3>2. ASSUME NEW r \in Revisions, r # 1 PROVE imported[r] = NoImport /\ NothingHolds(r)
      <4>1. \A p \in Parts : <<r, p>> \in Keys /\ <<r, p>> # <<a, AssetPart>> /\ <<r, p>>[1] # 1
        BY <3>2, KeysAre
      <4> QED
        BY <2>1, <2>2, <2>3, <3>2, <4>1 DEF NothingHolds
    <3> QED
      BY <1>0, <2>1, <3>1, <3>2 DEF HistoryHolds
  <2>5. AssetsHold
    <3>1. 1 \in Of(a) /\ \A s \in Of(a) : s <= 1
      BY <2>1 DEF Of
    <3>2. ASSUME NEW b \in Assets, b # a
          PROVE  records[<<b, AssetPart>>] = NoRecord /\ Of(b) = {}
      <4>1. <<b, AssetPart>> \in Keys /\ <<b, AssetPart>> # <<a, AssetPart>> /\ b # 1
        BY <2>1, <3>2, KeysAre
      <4>2. Of(b) = {}
        BY <2>1, <3>2 DEF Of
      <4> QED
        BY <2>2, <4>1, <4>2
    <3> QED
      BY <2>2, <3>1, <3>2 DEF AssetsHold
  <2>6. EveryRecordTracked
    <3> SUFFICES ASSUME NEW k \in Keys, records[k] # NoRecord PROVE FromOld(k)
      BY DEF EveryRecordTracked
    <3>1. CASE k = <<a, AssetPart>>
      BY <2>1, <2>2, <3>1 DEF FromOld, AssetRecord
    <3>2. CASE k # <<a, AssetPart>>
      BY <2>1, <2>2, <3>2 DEF FromOld
    <3> QED
      BY <3>1, <3>2
  <2> QED
    BY <1>0, <2>1, <2>2, <2>3, <2>4, <2>5, <2>6
<1> QED
  BY <1>6, <1>7 DEF Init

\* Which revisions are complete, and that the others hold nothing.
LEMMA CompleteIs ==
  ASSUME GltfInvariant, NEW r \in Revisions
  PROVE  /\ Complete(r) <=> r < next_revision
         /\ Complete(r) <=> imported[r] # NoImport
         /\ ~Complete(r) => NothingHolds(r)
<1>1. CASE r < next_revision
  <2>1. PICK a \in Assets, d \in Documents, kinds \in {Kinds, OldKinds} :
          imported[r] = <<a, d>> /\ RevisionHolds(r, a, d, kinds)
    BY <1>1 DEF GltfInvariant, HistoryHolds
  <2>2. Complete(r)
    BY <2>1 DEF RevisionHolds, RecordsHold, RevisionRecord, Complete
  <2> QED
    BY <1>1, <2>1, <2>2 DEF NoImport
<1>2. CASE ~(r < next_revision)
  <2>1. imported[r] = NoImport /\ NothingHolds(r)
    BY <1>2 DEF GltfInvariant, HistoryHolds
  <2>2. ~Complete(r)
    BY <2>1, KeysAre DEF NothingHolds, Complete, NoRecord
  <2> QED
    BY <1>2, <2>1, <2>2
<1> QED
  BY <1>1, <1>2

\* What an import changes: the asset, and a revision that held nothing.
LEMMA ImportIs ==
  ASSUME GltfInvariant, NEW a \in Assets, NEW d \in Documents, Import(a, d),
         NEW r, r = next_revision
  PROVE  /\ r \in Revisions /\ ~Complete(r)
         /\ next_revision' = r + 1 /\ next_revision' \in 1 .. MaxRevision + 1
         /\ records' \in [Keys -> Records] /\ Moved(records, records', r, a)
         /\ RevisionHolds(r, a, d, Kinds)'
         /\ blobs' \in [Keys -> [Indexes -> Seq(Bytes)]] /\ Kept(blobs, blobs', r)
         /\ imported'[r] = <<a, d>>
         /\ \A s \in Revisions : s # r => imported'[s] = imported[s]
<1>1. /\ r \in Nat /\ r >= 1 /\ r <= MaxRevision /\ MaxRevision \in Nat
      /\ records \in [Keys -> Records] /\ blobs \in [Keys -> [Indexes -> Seq(Bytes)]]
  BY GltfAssumption DEF GltfInvariant, TypeOK, Import, NewRevision, GltfAssumption
<1>2. r \in Revisions /\ ~Complete(r) /\ NothingHolds(r)
  <2>1. r \in Revisions
    BY <1>1 DEF Revisions
  <2> QED
    BY <1>1, <2>1, CompleteIs
<1>3. /\ records' = Recorded(records, r, a, d, Kinds) /\ blobs' = Stored(blobs, r, d)
      /\ imported' = [imported EXCEPT ![r] = <<a, d>>] /\ next_revision' = r + 1
  BY DEF Import, NewRevision
<1>4. /\ records' \in [Keys -> Records] /\ Moved(records, records', r, a)
      /\ RecordsHold(records', r, a, d, Kinds)
  <2>1. \A p \in Parts : records[<<r, p>>] = NoRecord
    BY <1>2 DEF NothingHolds
  <2> QED
    BY <1>1, <1>2, <1>3, <2>1, RecordedIs
<1>5. /\ blobs' \in [Keys -> [Indexes -> Seq(Bytes)]] /\ Kept(blobs, blobs', r)
      /\ BlobsHold(blobs', r, d)
  <2>1. \A p \in Parts : blobs[<<r, p>>] = NoChunks
    BY <1>2 DEF NothingHolds
  <2> QED
    BY <1>1, <1>2, <1>3, <2>1, StoredIs
<1>6. RevisionHolds(r, a, d, Kinds)'
  BY <1>4, <1>5 DEF RevisionHolds
<1>7. DOMAIN imported = Revisions
  BY DEF GltfInvariant, TypeOK
<1> QED
  BY <1>1, <1>2, <1>3, <1>4, <1>5, <1>6, <1>7

LEMMA ImportInductive ==
  ASSUME GltfInvariant, NEW a \in Assets, NEW d \in Documents, Import(a, d)
  PROVE  GltfInvariant'
<1>1. PICK r : r = next_revision
  OBVIOUS
<1>2. /\ r \in Revisions /\ ~Complete(r) /\ next_revision' = r + 1 /\ r \in Nat
      /\ \A s \in Revisions : s \in Nat
      /\ \A s \in Revisions : s # r => imported'[s] = imported[s]
      /\ imported'[r] = <<a, d>>
  <2>1. /\ r \in Revisions /\ ~Complete(r) /\ next_revision' = r + 1
        /\ \A s \in Revisions : s # r => imported'[s] = imported[s]
        /\ imported'[r] = <<a, d>>
    BY <1>1, ImportIs
  <2>2. \A s \in Revisions : s \in Nat
    BY DEF Revisions
  <2> QED
    BY <2>1, <2>2
<1>3. /\ records'[<<a, AssetPart>>] = AssetRecord(r)
      /\ \A k \in Keys : k # <<a, AssetPart>> /\ k[1] # r => records'[k] = records[k]
      /\ \A k \in Keys : k[1] # r => blobs'[k] = blobs[k]
      /\ RevisionHolds(r, a, d, Kinds)'
  <2>1. /\ Moved(records, records', r, a) /\ Kept(blobs, blobs', r)
        /\ RevisionHolds(r, a, d, Kinds)'
    BY <1>1, ImportIs
  <2> QED
    BY <2>1 DEF Moved, Kept
<1>4. /\ tracking' = InsertMissing(tracking, SeededKeys(r, a))
      /\ UNCHANGED <<derived, step, job, decided, decisions, legacy>>
  BY <1>1 DEF Import, NewRevision, derivers
<1>5. ASSUME NEW s \in Revisions, s # r, NEW p \in Parts
      PROVE  records'[<<s, p>>] = records[<<s, p>>] /\ blobs'[<<s, p>>] = blobs[<<s, p>>]
  <2>1. <<s, p>> \in Keys /\ <<s, p>> # <<a, AssetPart>> /\ <<s, p>>[1] = s
    BY KeysAre
  <2> QED
    BY <1>3, <1>5, <2>1
<1>6. ASSUME NEW s \in Revisions, Complete(s) PROVE Complete(s)' /\ s # r
  BY <1>2, <1>5, <1>6, KeysAre DEF Complete
<1>7. /\ tracking' \in [Keys -> Trackings \cup {NoTracking}]
      /\ \A k \in Keys : k \in SeededKeys(r, a) => tracking'[k] # NoTracking
      /\ \A k \in Keys : tracking[k] # NoTracking => tracking'[k] = tracking[k]
  <2>1. tracking \in [Keys -> Trackings \cup {NoTracking}]
    BY DEF GltfInvariant, TypeOK
  <2> HIDE DEF SeededKeys
  <2> QED
    BY <1>4, <2>1, InsertMissingIs
<1>8. TypeOK'
  <2>1. DOMAIN imported' = Revisions /\ DOMAIN decided' = Keys
    BY <1>4 DEF GltfInvariant, TypeOK, Import
  <2>2. /\ records' \in [Keys -> Records] /\ blobs' \in [Keys -> [Indexes -> Seq(Bytes)]]
        /\ next_revision' \in 1 .. MaxRevision + 1
    BY <1>1, ImportIs
  <2> QED
    BY <1>4, <1>7, <2>1, <2>2 DEF GltfInvariant, TypeOK
<1>9. HistoryHolds'
  <2>1. legacy' < next_revision'
    <3>1. legacy < r /\ legacy \in Nat
      BY <1>1, GltfAssumption DEF GltfInvariant, HistoryHolds, TypeOK, GltfAssumption
    <3> QED
      BY <1>2, <1>4, <3>1
  <2>2. ASSUME NEW s \in Revisions, s < r
        PROVE  \E b \in Assets, e \in Documents, kinds \in {Kinds, OldKinds} :
                 imported'[s] = <<b, e>> /\ RevisionHolds(s, b, e, kinds)'
    <3>1. PICK b \in Assets, e \in Documents, kinds \in {Kinds, OldKinds} :
            imported[s] = <<b, e>> /\ RevisionHolds(s, b, e, kinds)
      BY <1>1, <2>2 DEF GltfInvariant, HistoryHolds
    <3>2. s # r
      BY <1>2, <2>2
    <3>3. RevisionHolds(s, b, e, kinds)'
      BY <1>5, <3>1, <3>2, KeysAre DEF RevisionHolds, RecordsHold, BlobsHold
    <3> QED
      BY <1>2, <3>1, <3>2, <3>3
  <2>3. ASSUME NEW s \in Revisions, s > r PROVE imported'[s] = NoImport /\ NothingHolds(s)'
    <3>1. s # r /\ ~(s < next_revision)
      <4>1. s \in Nat /\ r \in Nat
        BY <1>2
      <4> QED
        BY <1>1, <2>3, <4>1
    <3>2. imported[s] = NoImport /\ NothingHolds(s)
      BY <3>1 DEF GltfInvariant, HistoryHolds
    <3> QED
      BY <1>2, <1>5, <3>1, <3>2 DEF NothingHolds
  <2>4. ASSUME NEW s \in Revisions
        PROVE  /\ s < next_revision' <=> s < r \/ s = r
               /\ ~(s < next_revision') <=> s > r
    <3>1. s \in Nat /\ r \in Nat /\ next_revision' = r + 1
      BY <1>2
    <3> QED
      BY <3>1
  <2> QED
    BY <1>2, <1>3, <2>1, <2>2, <2>3, <2>4 DEF HistoryHolds
<1>10. AssetsHold'
  <2>1. ASSUME NEW b \in Assets
        PROVE  Of(b)' = IF b = a THEN Of(b) \cup {r} ELSE Of(b)
    <3>1. ASSUME NEW s \in Revisions
          PROVE  s \in Of(b)' <=> (s \in Of(b) \/ (s = r /\ b = a))
      <4>1. CASE s = r
        BY <1>1, <1>2, <4>1 DEF Of
      <4>2. CASE s # r
        BY <1>1, <1>2, <4>2 DEF Of
      <4> QED
        BY <4>1, <4>2
    <3> QED
      BY <1>2, <3>1 DEF Of
  <2>2. \A s \in Of(a)' : s <= r
    BY <1>1, <1>2, <2>1 DEF Of
  <2>3. r \in Of(a)'
    BY <2>1
  <2>4. ASSUME NEW b \in Assets, b # a
        PROVE  records'[<<b, AssetPart>>] = records[<<b, AssetPart>>] /\ Of(b)' = Of(b)
    <3>1. <<b, AssetPart>> \in Keys /\ <<b, AssetPart>> # <<a, AssetPart>> /\ b # r
      BY <1>2, <2>4, KeysAre
    <3> QED
      BY <1>3, <2>1, <2>4, <3>1
  <2>5. ASSUME NEW b \in Assets
        PROVE  \/ records'[<<b, AssetPart>>] = NoRecord /\ Of(b)' = {}
               \/ \E s \in Of(b)' : records'[<<b, AssetPart>>] = AssetRecord(s)
                                    /\ \A u \in Of(b)' : u <= s
    <3>1. CASE b = a
      BY <1>3, <2>2, <2>3, <3>1
    <3>2. CASE b # a
      BY <2>4, <3>2 DEF GltfInvariant, AssetsHold
    <3> QED
      BY <3>1, <3>2
  <2> QED
    BY <2>5 DEF AssetsHold
<1>11. EveryRecordTracked'
  <2> SUFFICES ASSUME NEW k \in Keys, records'[k] # NoRecord, tracking'[k] = NoTracking
               PROVE  FromOld(k)'
    BY DEF EveryRecordTracked
  <2>1. k # <<a, AssetPart>> /\ k[1] # r
    BY <1>7 DEF SeededKeys
  <2>2. records'[k] = records[k] /\ tracking[k] = NoTracking
    BY <1>3, <1>7, <2>1
  <2>3. FromOld(k)
    BY <2>2 DEF GltfInvariant, EveryRecordTracked
  <2> QED
    BY <1>4, <2>2, <2>3 DEF FromOld
<1>12. DecisionsStay'
  BY <1>4, <1>7 DEF GltfInvariant, DecisionsStay
<1>13. DerivedHold'
  <2> SUFFICES ASSUME NEW id \in Ids
               PROVE  \/ derived'[id] = NotDerived
                      \/ Complete(id[1])' /\ \E x \in Artefacts : derived'[id] = Derivation(x)
    BY DEF DerivedHold
  <2>1. id[1] \in Revisions
    BY DEF Ids
  <2> QED
    BY <1>4, <1>6, <2>1 DEF GltfInvariant, DerivedHold
<1>14. JobsHold'
  <2> SUFFICES ASSUME NEW t \in Derivers, step'[t] # "idle"
               PROVE  \E id \in Ids, x \in Artefacts : job'[t] = <<id, x>> /\ JobHolds(t, id, x)'
    BY <1>4 DEF GltfInvariant, JobsHold
  <2>1. PICK id \in Ids, x \in Artefacts : job[t] = <<id, x>> /\ JobHolds(t, id, x)
    BY <1>4 DEF GltfInvariant, JobsHold
  <2>2. JobHolds(t, id, x)'
    BY <1>4, <1>6, <2>1 DEF JobHolds, Ids
  <2> QED
    BY <1>4, <2>1, <2>2
<1> QED
  BY <1>8, <1>9, <1>10, <1>11, <1>12, <1>13, <1>14 DEF GltfInvariant

\* A thread whose job is not touched keeps it, as long as records and derived stay.
LEMMA JobStays ==
  ASSUME JobsHold, NEW u \in Derivers, UNCHANGED <<records, derived>>,
         step'[u] = step[u], job'[u] = job[u]
  PROVE  IF step'[u] = "idle" THEN job'[u] = NoJob
         ELSE \E i \in Ids, y \in Artefacts : job'[u] = <<i, y>> /\ JobHolds(u, i, y)'
<1>1. CASE step[u] = "idle"
  BY <1>1 DEF JobsHold
<1>2. CASE step[u] # "idle"
  <2>1. PICK i \in Ids, y \in Artefacts : job[u] = <<i, y>> /\ JobHolds(u, i, y)
    BY <1>2 DEF JobsHold
  <2>2. JobHolds(u, i, y)'
    BY <2>1 DEF JobHolds, Complete
  <2> QED
    BY <1>2, <2>1, <2>2
<1> QED
  BY <1>1, <1>2

\* The rows of tables that only tracking is changed of.
LEMMA TrackingInductive ==
  ASSUME GltfInvariant,
         UNCHANGED <<next_revision, records, blobs, derived, derivers, imported>>,
         tracking' \in [Keys -> Trackings \cup {NoTracking}],
         DOMAIN decided' = Keys, decisions' \in 0 .. MaxDecisions,
         legacy' \in 0 .. legacy,
         EveryRecordTracked', DecisionsStay'
  PROVE  GltfInvariant'
<1>1. UNCHANGED <<next_revision, records, blobs, derived, step, job, imported>>
  BY DEF derivers
<1>2. legacy' \in 0 .. MaxRevision /\ legacy' < next_revision
  <2>1. /\ legacy \in Nat /\ legacy <= MaxRevision /\ MaxRevision \in Nat
        /\ next_revision \in Nat /\ legacy < next_revision
    BY GltfAssumption DEF GltfInvariant, TypeOK, HistoryHolds, GltfAssumption
  <2> QED
    BY <2>1
<1>3. TypeOK'
  BY <1>1, <1>2 DEF GltfInvariant, TypeOK
<1>4. HistoryHolds'
  BY <1>1, <1>2 DEF GltfInvariant, HistoryHolds, RevisionHolds, RecordsHold, BlobsHold, NothingHolds
<1>5. AssetsHold'
  BY <1>1 DEF GltfInvariant, AssetsHold, Of
<1>6. DerivedHold'
  BY <1>1 DEF GltfInvariant, DerivedHold, Complete
<1>7. JobsHold'
  BY <1>1, JobStays DEF GltfInvariant, JobsHold
<1> QED
  BY <1>3, <1>4, <1>5, <1>6, <1>7 DEF GltfInvariant

LEMMA InitializeTrackingInductive ==
  ASSUME GltfInvariant, InitializeTracking PROVE GltfInvariant'
<1> DEFINE kept == {k \in Keys : records[k] # NoRecord}
<1>1. /\ UNCHANGED <<next_revision, records, blobs, derived, derivers, imported, decided, decisions>>
      /\ tracking' = InsertMissing(tracking, kept) /\ legacy' = 0
  BY DEF InitializeTracking
<1>2. tracking \in [Keys -> Trackings \cup {NoTracking}]
  BY DEF GltfInvariant, TypeOK
<1>3. /\ tracking' \in [Keys -> Trackings \cup {NoTracking}]
      /\ \A k \in Keys : records[k] # NoRecord => tracking'[k] # NoTracking
      /\ \A k \in Keys : tracking[k] # NoTracking => tracking'[k] = tracking[k]
  <2>1. \A k \in Keys : records[k] # NoRecord => k \in kept
    OBVIOUS
  <2> HIDE DEF kept
  <2> QED
    BY <1>1, <1>2, <2>1, InsertMissingIs
<1>4. EveryRecordTracked'
  BY <1>1, <1>3 DEF EveryRecordTracked
<1>5. DecisionsStay'
  BY <1>1, <1>3 DEF GltfInvariant, DecisionsStay
<1>6. legacy' \in 0 .. legacy
  BY <1>1, GltfAssumption DEF GltfInvariant, TypeOK, GltfAssumption
<1>7. DOMAIN decided' = Keys /\ decisions' \in 0 .. MaxDecisions
  BY <1>1 DEF GltfInvariant, TypeOK
<1> QED
  BY <1>1, <1>3, <1>4, <1>5, <1>6, <1>7, TrackingInductive

LEMMA SetTrackingInductive ==
  ASSUME GltfInvariant, NEW k \in Keys, NEW v \in Verdicts, SetTracking(k, v[2])
  PROVE  GltfInvariant'
<1>1. /\ UNCHANGED <<next_revision, records, blobs, derived, derivers, imported, legacy>>
      /\ tracking' = [tracking EXCEPT ![k] = v[2]]
      /\ decided' = [decided EXCEPT ![k] = v[2]]
      /\ decisions < MaxDecisions /\ decisions' = decisions + 1
      /\ ValidFlags(v[2])
  BY DEF SetTracking
<1>2. /\ tracking \in [Keys -> Trackings \cup {NoTracking}] /\ DOMAIN decided = Keys
      /\ legacy \in Nat /\ decisions \in Nat /\ MaxDecisions \in Nat
  BY GltfAssumption DEF GltfInvariant, TypeOK, GltfAssumption
<1>3. v[2] # NoTracking /\ v[2] \in Trackings
  BY <1>1, VerdictsAre
<1>4. tracking' \in [Keys -> Trackings \cup {NoTracking}]
  BY <1>1, <1>2, <1>3
<1>5. /\ tracking'[k] = v[2] /\ decided'[k] = v[2]
      /\ \A l \in Keys : l # k => tracking'[l] = tracking[l] /\ decided'[l] = decided[l]
  BY <1>1, <1>2
<1>6. EveryRecordTracked'
  BY <1>1, <1>3, <1>5 DEF GltfInvariant, EveryRecordTracked, FromOld
<1>7. DecisionsStay'
  BY <1>5 DEF GltfInvariant, DecisionsStay
<1>8. /\ DOMAIN decided' = Keys /\ decisions' \in 0 .. MaxDecisions /\ legacy' \in 0 .. legacy
  BY <1>1, <1>2
<1> QED
  BY <1>1, <1>4, <1>6, <1>7, <1>8, TrackingInductive

\* A step of put_derived leaves the tables of imports and tracking alone.
LEMMA DeriverInductive ==
  ASSUME GltfInvariant, UNCHANGED <<tables, history>>,
         derived' \in [Ids -> [provenance : Provenances \cup {NoProvenance}, row : Rows]],
         step' \in [Derivers -> {"idle", "checked", "ok", "conflict"}],
         job' \in [Derivers -> (Ids \X Artefacts) \cup {NoJob}],
         DerivedHold', JobsHold'
  PROVE  GltfInvariant'
<1>1. UNCHANGED <<next_revision, records, blobs, tracking, imported, decided, decisions, legacy>>
  BY DEF tables, history
<1>2. TypeOK'
  BY <1>1 DEF GltfInvariant, TypeOK
<1>3. HistoryHolds'
  BY <1>1 DEF GltfInvariant, HistoryHolds, RevisionHolds, RecordsHold, BlobsHold, NothingHolds
<1>4. AssetsHold'
  BY <1>1 DEF GltfInvariant, AssetsHold, Of
<1>5. EveryRecordTracked' /\ DecisionsStay'
  BY <1>1 DEF GltfInvariant, EveryRecordTracked, FromOld, DecisionsStay
<1> QED
  BY <1>2, <1>3, <1>4, <1>5 DEF GltfInvariant

LEMMA UnchangedInductive ==
  ASSUME GltfInvariant, UNCHANGED vars PROVE GltfInvariant'
<1>1. UNCHANGED <<tables, history, derived, step, job>>
  BY DEF vars, derivers
<1>2. UNCHANGED records
  BY <1>1 DEF tables
<1>3. DerivedHold' /\ JobsHold'
  <2>1. DerivedHold'
    BY <1>1, <1>2 DEF GltfInvariant, DerivedHold, Complete
  <2>2. JobsHold'
    BY <1>1, <1>2, JobStays DEF GltfInvariant, JobsHold
  <2> QED
    BY <2>1, <2>2
<1> QED
  BY <1>1, <1>3, DeriverInductive DEF GltfInvariant, TypeOK

LEMMA DeriveChecksInductive ==
  ASSUME GltfInvariant, NEW t \in Derivers, NEW id \in Ids, NEW z \in Artefacts,
         DeriveChecks(t, id, z)
  PROVE  GltfInvariant'
<1>1. /\ UNCHANGED <<tables, history, derived>> /\ UNCHANGED records
      /\ step' = [step EXCEPT ![t] = "checked"] /\ job' = [job EXCEPT ![t] = <<id, z>>]
      /\ Complete(id[1])
  BY DEF DeriveChecks, tables
<1>2. /\ derived \in [Ids -> [provenance : Provenances \cup {NoProvenance}, row : Rows]]
      /\ step \in [Derivers -> {"idle", "checked", "ok", "conflict"}]
      /\ job \in [Derivers -> (Ids \X Artefacts) \cup {NoJob}]
  BY DEF GltfInvariant, TypeOK
<1>3. DerivedHold'
  BY <1>1 DEF GltfInvariant, DerivedHold, Complete
<1>4. step'[t] = "checked" /\ job'[t] = <<id, z>> /\ JobHolds(t, id, z)'
  BY <1>1, <1>2 DEF JobHolds, Complete
<1>5. \A u \in Derivers : u # t => step'[u] = step[u] /\ job'[u] = job[u]
  BY <1>1, <1>2
<1>6. JobsHold'
  <2>1. \A u \in Derivers : u # t =>
          IF step'[u] = "idle" THEN job'[u] = NoJob
          ELSE \E i \in Ids, y \in Artefacts : job'[u] = <<i, y>> /\ JobHolds(u, i, y)'
    BY <1>1, <1>5, JobStays DEF GltfInvariant
  <2> QED
    BY <1>4, <2>1 DEF JobsHold
<1>7. /\ step' \in [Derivers -> {"idle", "checked", "ok", "conflict"}]
      /\ job' \in [Derivers -> (Ids \X Artefacts) \cup {NoJob}]
  <2>1. <<id, z>> \in Ids \X Artefacts
    OBVIOUS
  <2> QED
    BY <1>1, <1>2, <2>1
<1> QED
  BY <1>1, <1>2, <1>3, <1>6, <1>7, DeriverInductive

\* What an answer and the artefact it is about are, and that the others keep theirs.
LEMMA DeriveWritesIs ==
  ASSUME GltfInvariant, NEW t \in Derivers, DeriveWrites(t)
  PROVE  /\ UNCHANGED <<tables, history>> /\ UNCHANGED records /\ UNCHANGED job
         /\ \E id \in Ids, z \in Artefacts :
              /\ job[t] = <<id, z>> /\ Complete(id[1])
              /\ step' = [step EXCEPT ![t] = "ok"] \/ step' = [step EXCEPT ![t] = "conflict"]
              /\ \/ /\ derived[id] = NotDerived
                    /\ derived' = [derived EXCEPT ![id] = Derivation(z)]
                 \/ /\ UNCHANGED derived
                    /\ derived[id] # NotDerived
              /\ JobHolds(t, id, z)'
<1>1. PICK id \in Ids, z \in Artefacts :
        job[t] = <<id, z>> /\ (Publishes(t, id, z) \/ Repeats(t, id, z) \/ Conflicts(t, id, z))
  BY DEF DeriveWrites
<1>2. /\ UNCHANGED <<tables, history>> /\ UNCHANGED records /\ UNCHANGED job
      /\ step[t] = "checked"
  BY <1>1 DEF Publishes, Repeats, Conflicts, Answer, tables
<1>3. Complete(id[1])
  <2>1. PICK i \in Ids, y \in Artefacts : job[t] = <<i, y>> /\ JobHolds(t, i, y)
    BY <1>2 DEF GltfInvariant, JobsHold
  <2> QED
    BY <1>1, <2>1 DEF JobHolds
<1>4. /\ step \in [Derivers -> {"idle", "checked", "ok", "conflict"}]
      /\ derived \in [Ids -> [provenance : Provenances \cup {NoProvenance}, row : Rows]]
  BY DEF GltfInvariant, TypeOK
<1>5. \/ derived[id] = NotDerived
      \/ \E y \in Artefacts : derived[id] = Derivation(y)
  BY DEF GltfInvariant, DerivedHold
<1>6. Vacant(id) <=> derived[id] = NotDerived
  <2>1. \A y \in Artefacts : Derivation(y).provenance # NoProvenance /\ Derivation(y) # NotDerived
    BY DerivationIs, ArtefactsAre
  <2> QED
    BY <1>5, <2>1 DEF Vacant, NotDerived
<1>7. CASE Publishes(t, id, z)
  <2>1. derived[id] = NotDerived /\ derived[id].row.chunks = NoChunks
    BY <1>6, <1>7 DEF Publishes, NotDerived, EmptyRow
  <2>2. derived' = [derived EXCEPT ![id] = Derivation(z)]
    BY <1>7, <2>1 DEF Publishes, Derivation
  <2>3. step' = [step EXCEPT ![t] = "ok"]
    BY <1>7 DEF Publishes, Answer
  <2>4. JobHolds(t, id, z)'
    BY <1>2, <1>3, <1>4, <2>2, <2>3 DEF JobHolds, Complete
  <2> QED
    BY <1>1, <1>2, <1>3, <2>1, <2>2, <2>3, <2>4
<1>8. ASSUME ~Vacant(id), Repeats(t, id, z) \/ Conflicts(t, id, z)
      PROVE  /\ step' = [step EXCEPT ![t] = "ok"] \/ step' = [step EXCEPT ![t] = "conflict"]
             /\ UNCHANGED derived /\ derived[id] # NotDerived
             /\ JobHolds(t, id, z)'
  <2>1. PICK y \in Artefacts : derived[id] = Derivation(y)
    BY <1>5, <1>6, <1>8
  <2>2. Same(id, z) <=> z = y
    BY <2>1, DerivationsDiffer
  <2>3. UNCHANGED derived /\ derived[id] # NotDerived
    BY <1>6, <1>8 DEF Repeats, Conflicts
  <2>4. CASE Repeats(t, id, z)
    <3>1. step' = [step EXCEPT ![t] = "ok"] /\ z = y
      BY <2>2, <2>4 DEF Repeats, Answer
    <3>2. JobHolds(t, id, z)'
      BY <1>2, <1>3, <1>4, <2>1, <2>3, <3>1 DEF JobHolds, Complete
    <3> QED
      BY <2>3, <3>1, <3>2
  <2>5. CASE Conflicts(t, id, z)
    <3>1. step' = [step EXCEPT ![t] = "conflict"] /\ z # y
      BY <2>2, <2>5 DEF Conflicts, Answer
    <3>2. JobHolds(t, id, z)'
      BY <1>2, <1>3, <1>4, <2>1, <2>3, <3>1 DEF JobHolds, Complete
    <3> QED
      BY <2>3, <3>1, <3>2
  <2> QED
    BY <1>8, <2>4, <2>5
<1>9. CASE Repeats(t, id, z) \/ Conflicts(t, id, z)
  <2>1. ~Vacant(id)
    BY <1>9 DEF Repeats, Conflicts
  <2> QED
    BY <1>1, <1>2, <1>3, <1>8, <1>9, <2>1
<1> QED
  BY <1>1, <1>7, <1>9

LEMMA DeriveWritesInductive ==
  ASSUME GltfInvariant, NEW t \in Derivers, DeriveWrites(t) PROVE GltfInvariant'
<1>1. /\ UNCHANGED <<tables, history>> /\ UNCHANGED records /\ UNCHANGED job
  BY DeriveWritesIs
<1>2. PICK id \in Ids, z \in Artefacts :
        /\ job[t] = <<id, z>> /\ Complete(id[1])
        /\ step' = [step EXCEPT ![t] = "ok"] \/ step' = [step EXCEPT ![t] = "conflict"]
        /\ \/ /\ derived[id] = NotDerived
              /\ derived' = [derived EXCEPT ![id] = Derivation(z)]
           \/ /\ UNCHANGED derived
              /\ derived[id] # NotDerived
        /\ JobHolds(t, id, z)'
  BY DeriveWritesIs
<1>3. /\ derived \in [Ids -> [provenance : Provenances \cup {NoProvenance}, row : Rows]]
      /\ step \in [Derivers -> {"idle", "checked", "ok", "conflict"}]
      /\ job \in [Derivers -> (Ids \X Artefacts) \cup {NoJob}]
  BY DEF GltfInvariant, TypeOK
<1>4. derived' \in [Ids -> [provenance : Provenances \cup {NoProvenance}, row : Rows]]
  <2>1. Derivation(z) \in [provenance : Provenances \cup {NoProvenance}, row : Rows]
    BY DerivationIs
  <2> QED
    BY <1>2, <1>3, <2>1
<1>5. step' \in [Derivers -> {"idle", "checked", "ok", "conflict"}]
  BY <1>2, <1>3
<1>6. ASSUME NEW i \in Ids, derived[i] # NotDerived PROVE derived'[i] = derived[i]
  BY <1>2, <1>3, <1>6
<1>7. DerivedHold'
  BY <1>1, <1>2, <1>3 DEF GltfInvariant, DerivedHold, Complete
<1>8. ASSUME NEW u \in Derivers, u # t, step[u] # "idle"
      PROVE  \E i \in Ids, y \in Artefacts : job[u] = <<i, y>> /\ JobHolds(u, i, y)'
  <2>1. PICK i \in Ids, y \in Artefacts : job[u] = <<i, y>> /\ JobHolds(u, i, y)
    BY <1>8 DEF GltfInvariant, JobsHold
  <2>2. step'[u] = step[u]
    BY <1>2, <1>3, <1>8
  <2>3. \A w \in Artefacts : Derivation(w) # NotDerived
    BY DerivationIs
  <2>4. JobHolds(u, i, y)'
    BY <1>1, <1>6, <2>1, <2>2, <2>3 DEF JobHolds, Complete
  <2> QED
    BY <2>1, <2>4
<1>9. JobsHold'
  <2>1. step'[t] # "idle"
    BY <1>2, <1>3
  <2>2. \A u \in Derivers : u # t => step'[u] = step[u]
    BY <1>2, <1>3
  <2>3. \A u \in Derivers : step[u] = "idle" => job[u] = NoJob
    BY DEF GltfInvariant, JobsHold
  <2> QED
    BY <1>1, <1>2, <1>8, <2>1, <2>2, <2>3 DEF JobsHold
<1> QED
  BY <1>1, <1>3, <1>4, <1>5, <1>7, <1>9, DeriverInductive

LEMMA DeriveEndsInductive ==
  ASSUME GltfInvariant, NEW t \in Derivers, DeriveEnds(t) PROVE GltfInvariant'
<1>1. /\ UNCHANGED <<tables, history, derived>> /\ UNCHANGED records
      /\ step' = [step EXCEPT ![t] = "idle"] /\ job' = [job EXCEPT ![t] = NoJob]
  BY DEF DeriveEnds, tables
<1>2. /\ derived \in [Ids -> [provenance : Provenances \cup {NoProvenance}, row : Rows]]
      /\ step \in [Derivers -> {"idle", "checked", "ok", "conflict"}]
      /\ job \in [Derivers -> (Ids \X Artefacts) \cup {NoJob}]
  BY DEF GltfInvariant, TypeOK
<1>3. DerivedHold'
  BY <1>1 DEF GltfInvariant, DerivedHold, Complete
<1>4. \A u \in Derivers : u # t => step'[u] = step[u] /\ job'[u] = job[u]
  BY <1>1, <1>2
<1>5. step'[t] = "idle" /\ job'[t] = NoJob
  BY <1>1, <1>2
<1>6. JobsHold'
  <2>1. \A u \in Derivers : u # t =>
          IF step'[u] = "idle" THEN job'[u] = NoJob
          ELSE \E i \in Ids, y \in Artefacts : job'[u] = <<i, y>> /\ JobHolds(u, i, y)'
    BY <1>1, <1>4, JobStays DEF GltfInvariant
  <2> QED
    BY <1>5, <2>1 DEF JobsHold
<1> QED
  BY <1>1, <1>2, <1>3, <1>6, DeriverInductive

LEMMA NextInductive == GltfInvariant /\ [Next]_vars => GltfInvariant'
<1> SUFFICES ASSUME GltfInvariant, [Next]_vars PROVE GltfInvariant'
  OBVIOUS
<1>1. ASSUME NEW a \in Assets, NEW d \in Documents, Import(a, d) PROVE GltfInvariant'
  BY <1>1, ImportInductive
<1>2. CASE InitializeTracking
  BY <1>2, InitializeTrackingInductive
<1>3. ASSUME NEW k \in Keys, NEW v \in Verdicts, SetTracking(k, v[2]) PROVE GltfInvariant'
  BY <1>3, SetTrackingInductive
<1>4. ASSUME NEW t \in Derivers, DeriverStep(t) PROVE GltfInvariant'
  BY <1>4, DeriveChecksInductive, DeriveWritesInductive, DeriveEndsInductive DEF DeriverStep
<1>5. CASE UNCHANGED vars
  BY <1>5, UnchangedInductive
<1> QED
  BY <1>1, <1>2, <1>3, <1>4, <1>5 DEF Next

\* In every reachable state the tables hold what documents were normalized to, the
\* assets their last revisions, and the derived artefacts what was published.
THEOREM GltfIsInductive == Spec => []GltfInvariant
<1> QED
  BY InitInductive, NextInductive, PTL DEF Spec

(* --- what follows from it ------------------------------------------------ *)

\* "Existing tracking decisions are preserved": no import and no
\* initialize_tracking ever writes over what set_tracking decided.
THEOREM DecisionsAlwaysStay == Spec => []DecisionsStay
<1>1. GltfInvariant => DecisionsStay
  BY DEF GltfInvariant
<1> QED
  BY <1>1, GltfIsInductive, PTL

\* import seeds every record it makes, the asset included, and initialize_tracking
\* those of an old database.
THEOREM RecordsAlwaysTracked == Spec => []EveryRecordTracked
<1>1. GltfInvariant => EveryRecordTracked
  BY DEF GltfInvariant
<1> QED
  BY <1>1, GltfIsInductive, PTL

\* The links of a part lead to parts of its own revision, those of the revision to
\* its asset.
LEMMA LinksResolve ==
  ASSUME NEW r \in Revisions, NEW a \in Assets, NEW d \in Documents, NEW kinds,
         RecordsHold(records, r, a, d, kinds),
         records[<<a, AssetPart>>] # NoRecord,
         NEW p \in Parts, NEW l \in records[<<r, p>>].links
  PROVE  records[l] # NoRecord /\ (l[1] \in Assets \/ l[1] = r)
<1>1. CASE p = RevisionPart
  <2>1. l = <<a, AssetPart>>
    BY <1>1 DEF RecordsHold, RevisionRecord
  <2> QED
    BY <2>1
<1>2. CASE p # RevisionPart
  <2>1. p \in Normalized(d, kinds) /\ l \in Links(r, d, p, kinds)
    <3>1. records[<<r, p>>] =
            IF p \in Normalized(d, kinds) THEN PartRecord(r, d, p, kinds) ELSE NoRecord
      BY <1>2 DEF RecordsHold
    <3>2. NoRecord.links = {} /\ PartRecord(r, d, p, kinds).links = Links(r, d, p, kinds)
      BY DEF NoRecord, PartRecord
    <3> QED
      BY <3>1, <3>2
  <2>2. PICK q \in d.uses[p] : l = <<r, q>> /\ q[1] \in kinds
    BY <2>1 DEF Links
  <2>3. q \in d.parts
    BY <2>1, DocumentsAre DEF Normalized
  <2>4. q \in Normalized(d, kinds) /\ q \in Parts \ {RevisionPart}
    BY <2>2, <2>3, DocumentsAre DEF Normalized
  <2>5. records[<<r, q>>] = PartRecord(r, d, q, kinds)
    BY <2>4 DEF RecordsHold
  <2>6. PartRecord(r, d, q, kinds) # NoRecord
    BY <2>4, RecordsAre
  <2> QED
    BY <2>2, <2>5, <2>6
<1> QED
  BY <1>1, <1>2

\* The record of an asset names its last revision, of which the record is there.
LEMMA AssetIs ==
  ASSUME GltfInvariant, NEW a \in Assets, records[<<a, AssetPart>>] # NoRecord
  PROVE  \E r \in Of(a) :
           /\ r \in Revisions /\ Complete(r) /\ \A s \in Of(a) : s <= r
           /\ records[<<a, AssetPart>>] = AssetRecord(r)
           /\ records[<<r, RevisionPart>>] = RevisionRecord(r, a)
<1>1. PICK r \in Of(a) : records[<<a, AssetPart>>] = AssetRecord(r) /\ \A s \in Of(a) : s <= r
  BY DEF GltfInvariant, AssetsHold
<1>2. r \in Revisions /\ r < next_revision /\ imported[r][1] = a
  BY <1>1 DEF Of
<1>3. PICK b \in Assets, d \in Documents, kinds \in {Kinds, OldKinds} :
        imported[r] = <<b, d>> /\ RevisionHolds(r, b, d, kinds)
  BY <1>2 DEF GltfInvariant, HistoryHolds
<1>4. b = a
  BY <1>2, <1>3
<1> QED
  BY <1>1, <1>2, <1>3, <1>4, CompleteIs DEF RevisionHolds, RecordsHold

\* Whatever a record links to is there, in the same revision.
THEOREM ReferencesAlwaysResolve == Spec => []ReferencesResolve
<1>1. ASSUME GltfInvariant, NEW k \in Keys, NEW l \in records[k].links
      PROVE  records[l] # NoRecord /\ (k[1] \in Assets \/ l[1] \in Assets \/ l[1] = k[1])
  <2>1. CASE k[1] \in Revisions
    <3>1. PICK r \in Revisions, p \in Parts : k = <<r, p>> /\ k[1] = r
      BY <2>1, KeysAre
    <3>2. ~NothingHolds(r)
      BY <1>1, <3>1 DEF NothingHolds, NoRecord
    <3>3. PICK a \in Assets, d \in Documents, kinds \in {Kinds, OldKinds} :
            imported[r] = <<a, d>> /\ RevisionHolds(r, a, d, kinds)
      BY <1>1, <3>2 DEF GltfInvariant, HistoryHolds
    <3>4. r \in Of(a)
      BY <1>1, <3>2, <3>3 DEF GltfInvariant, HistoryHolds, Of
    <3>5. records[<<a, AssetPart>>] # NoRecord
      <4>1. PICK s \in Of(a) : records[<<a, AssetPart>>] = AssetRecord(s)
        BY <1>1, <3>4 DEF GltfInvariant, AssetsHold
      <4> QED
        BY <4>1 DEF AssetRecord, NoRecord
    <3> QED
      BY <1>1, <3>1, <3>3, <3>5, LinksResolve DEF RevisionHolds
  <2>2. CASE k[1] \in Assets
    <3>1. k = <<k[1], AssetPart>>
      BY <2>2, KeysAre
    <3>2. records[k] # NoRecord
      BY <1>1 DEF NoRecord
    <3>3. PICK r \in Revisions, a \in Assets :
            /\ records[k] = AssetRecord(r)
            /\ records[<<r, RevisionPart>>] = RevisionRecord(r, a)
      BY <1>1, <2>2, <3>1, <3>2, AssetIs
    <3>4. l = <<r, RevisionPart>>
      BY <1>1, <3>3 DEF AssetRecord
    <3> QED
      BY <2>2, <3>3, <3>4 DEF RevisionRecord, NoRecord
  <2> QED
    BY <2>1, <2>2, KeysAre
<1>2. GltfInvariant => ReferencesResolve
  BY <1>1 DEF ReferencesResolve
<1> QED
  BY <1>2, GltfIsInductive, PTL

\* An asset names the last of its revisions.
THEOREM LatestAlwaysLast == Spec => []LatestIsLast
<1>1. ASSUME GltfInvariant, NEW a \in Assets, records[<<a, AssetPart>>] # NoRecord
      PROVE  \E r \in Revisions :
               /\ records[<<a, AssetPart>>].links = {<<r, RevisionPart>>}
               /\ Complete(r) /\ records[<<r, RevisionPart>>].links = {<<a, AssetPart>>}
               /\ \A s \in Revisions : records[<<s, RevisionPart>>].links = {<<a, AssetPart>>} => s <= r
  <2>1. PICK r \in Of(a) :
          /\ r \in Revisions /\ Complete(r) /\ \A s \in Of(a) : s <= r
          /\ records[<<a, AssetPart>>] = AssetRecord(r)
          /\ records[<<r, RevisionPart>>] = RevisionRecord(r, a)
    BY <1>1, AssetIs
  <2>2. ASSUME NEW s \in Revisions, records[<<s, RevisionPart>>].links = {<<a, AssetPart>>}
        PROVE  s \in Of(a)
    <3>1. ~NothingHolds(s)
      <4>1. NoRecord.links = {}
        BY DEF NoRecord
      <4>2. records[<<s, RevisionPart>>] # NoRecord
        BY <2>2, <4>1
      <4> QED
        BY <4>2, KeysAre DEF NothingHolds
    <3>2. PICK b \in Assets, d \in Documents, kinds \in {Kinds, OldKinds} :
            imported[s] = <<b, d>> /\ RevisionHolds(s, b, d, kinds)
      BY <1>1, <3>1 DEF GltfInvariant, HistoryHolds
    <3>3. b = a
      <4>1. records[<<s, RevisionPart>>] = RevisionRecord(s, b)
        BY <3>2 DEF RevisionHolds, RecordsHold
      <4>2. RevisionRecord(s, b).links = {<<b, AssetPart>>}
        BY DEF RevisionRecord
      <4>3. {<<b, AssetPart>>} = {<<a, AssetPart>>}
        BY <2>2, <4>1, <4>2
      <4>4. <<b, AssetPart>> \in {<<a, AssetPart>>}
        BY <4>3
      <4> QED
        BY <4>4
    <3> QED
      BY <1>1, <3>1, <3>2, <3>3 DEF GltfInvariant, HistoryHolds, Of
  <2> QED
    BY <2>1, <2>2 DEF AssetRecord, RevisionRecord
<1>2. GltfInvariant => LatestIsLast
  BY <1>1 DEF LatestIsLast
<1> QED
  BY <1>2, GltfIsInductive, PTL

\* A revision never changes once import has committed it, whatever else is
\* imported, tracked or derived.
THEOREM RevisionsAlwaysStay == Spec => RevisionsStay
<1> DEFINE Stays == \A r \in Revisions : imported[r] # NoImport =>
                      /\ imported'[r] = imported[r]
                      /\ \A p \in Parts : records'[<<r, p>>] = records[<<r, p>>]
                                          /\ blobs'[<<r, p>>] = blobs[<<r, p>>]
<1>1. ASSUME GltfInvariant, NEW a \in Assets, NEW d \in Documents, Import(a, d) PROVE Stays
  <2>1. PICK n : n = next_revision
    OBVIOUS
  <2>2. /\ n \in Revisions /\ ~Complete(n)
        /\ \A k \in Keys : k # <<a, AssetPart>> /\ k[1] # n => records'[k] = records[k]
        /\ \A k \in Keys : k[1] # n => blobs'[k] = blobs[k]
        /\ \A s \in Revisions : s # n => imported'[s] = imported[s]
    <3>1. n \in Revisions /\ ~Complete(n)
      BY <1>1, <2>1, ImportIs
    <3>2. Moved(records, records', n, a) /\ Kept(blobs, blobs', n)
      BY <1>1, <2>1, ImportIs
    <3>3. \A s \in Revisions : s # n => imported'[s] = imported[s]
      BY <1>1, <2>1, ImportIs
    <3> QED
      BY <3>1, <3>2, <3>3 DEF Moved, Kept
  <2>3. ASSUME NEW r \in Revisions, imported[r] # NoImport PROVE r # n
    BY <1>1, <2>2, <2>3, CompleteIs
  <2>4. \A r \in Revisions, p \in Parts :
          <<r, p>> \in Keys /\ <<r, p>> # <<a, AssetPart>> /\ <<r, p>>[1] = r
    BY KeysAre
  <2> QED
    BY <2>2, <2>3, <2>4
<1>2. ASSUME NEW t \in Derivers, DeriverStep(t) PROVE Stays
  BY <1>2 DEF DeriverStep, DeriveChecks, DeriveWrites, Publishes, Repeats, Conflicts, Answer,
              DeriveEnds, tables, history
<1>3. ASSUME InitializeTracking PROVE Stays
  BY <1>3 DEF InitializeTracking
<1>4. ASSUME NEW k, NEW flags, SetTracking(k, flags) PROVE Stays
  BY <1>4 DEF SetTracking
<1>5. ASSUME GltfInvariant, [Next]_vars PROVE [Stays]_vars
  BY <1>1, <1>2, <1>3, <1>4, <1>5 DEF Next
<1> QED
  BY <1>5, GltfIsInductive, PTL DEF Spec, RevisionsStay

(* --- derived artefacts --------------------------------------------------- *)

\* What derived answers is what put_derived got, or nothing.
LEMMA ReadIs ==
  ASSUME GltfInvariant, NEW id \in Ids
  PROVE  /\ derived[id] = NotDerived => ReadDerived(id) = NoArtefact
         /\ \A z \in Artefacts : derived[id] = Derivation(z) => ReadDerived(id) = z
         /\ \A z \in Artefacts : z # NoArtefact
<1>1. derived[id] = NotDerived => ReadDerived(id) = NoArtefact
  BY DEF ReadDerived, NotDerived
<1>2. ASSUME NEW z \in Artefacts, derived[id] = Derivation(z) PROVE ReadDerived(id) = z
  <2>1. Derivation(z) # NotDerived
    BY DerivationIs
  <2>2. Complete(id[1])
    BY <1>2, <2>1 DEF GltfInvariant, DerivedHold
  <2>3. /\ derived[id].provenance = z.provenance /\ z.provenance # NoProvenance
        /\ derived[id].row = Written(NoChunks, z.bytes, 0)
    BY <1>2, DerivationIs, ArtefactsAre
  <2>4. WholeRow(derived[id].row) /\ Content(derived[id].row) = z.bytes
    BY <2>3, ArtefactsAre, WrittenIs
  <2> QED
    BY <2>2, <2>3, <2>4, ArtefactsAre DEF ReadDerived
<1>3. \A z \in Artefacts : z # NoArtefact
  BY ArtefactsAre DEF NoArtefact
<1> QED
  BY <1>1, <1>2, <1>3

\* What put_derived tells its caller is so: ok, that this artefact can be read,
\* and an error, that another one is there for good.
THEOREM AnswersAlwaysTrue == Spec => []AnswersAreTrue
<1>1. ASSUME GltfInvariant, NEW t \in Derivers, NEW id \in Ids, NEW z \in Artefacts,
             job[t] = <<id, z>>
      PROVE  /\ step[t] = "ok" => ReadDerived(id) = z
             /\ step[t] = "conflict" => ReadDerived(id) \notin {z, NoArtefact}
  <2>1. JobHolds(t, id, z)
    BY <1>1 DEF GltfInvariant, JobsHold, NoJob
  <2> QED
    BY <1>1, <2>1, ReadIs DEF JobHolds
<1>2. GltfInvariant => AnswersAreTrue
  BY <1>1 DEF AnswersAreTrue
<1> QED
  BY <1>2, GltfIsInductive, PTL

\* The derived artefacts are an immutable store: put_derived publishes one as a
\* whole where there was none, and nothing else changes what derived answers.
THEOREM DerivedImmutable == Spec => RefinesImmutableStore
<1>1. ASSUME Init PROVE Derivations!Init
  <2>1. \A id \in Ids : ReadDerived(id) = NoArtefact
    BY <1>1 DEF Init, ReadDerived, NotDerived
  <2> QED
    BY <2>1 DEF Derivations!Init, artefacts
<1>2. ASSUME GltfInvariant, GltfInvariant', NEW id \in Ids, derived'[id] = derived[id]
      PROVE  ReadDerived(id)' = ReadDerived(id)
  <2>1. CASE derived[id] = NotDerived
    BY <1>2, <2>1 DEF ReadDerived, NotDerived
  <2>2. CASE derived[id] # NotDerived
    <3>1. Complete(id[1]) /\ Complete(id[1])'
      BY <1>2, <2>2 DEF GltfInvariant, DerivedHold
    <3> QED
      BY <1>2, <3>1 DEF ReadDerived
  <2> QED
    BY <2>1, <2>2
<1>3. ASSUME GltfInvariant, GltfInvariant', UNCHANGED derived PROVE UNCHANGED artefacts
  BY <1>2, <1>3 DEF artefacts
<1>4. ASSUME GltfInvariant, GltfInvariant', NEW t \in Derivers, DeriveWrites(t)
      PROVE  [Derivations!Next]_artefacts
  <2>1. PICK id \in Ids, z \in Artefacts :
          \/ /\ derived[id] = NotDerived
             /\ derived' = [derived EXCEPT ![id] = Derivation(z)]
          \/ UNCHANGED derived
    BY <1>4, DeriveWritesIs
  <2>2. CASE UNCHANGED derived
    BY <1>3, <1>4, <2>2
  <2>3. CASE derived[id] = NotDerived /\ derived' = [derived EXCEPT ![id] = Derivation(z)]
    <3>1. derived \in [Ids -> [provenance : Provenances \cup {NoProvenance}, row : Rows]]
      BY <1>4 DEF GltfInvariant, TypeOK
    <3>2. derived'[id] = Derivation(z) /\ \A i \in Ids : i # id => derived'[i] = derived[i]
      BY <2>3, <3>1
    <3>3. artefacts[id] = NoArtefact
      BY <1>4, <2>3, ReadIs DEF artefacts
    <3>4. ReadDerived(id)' = z
      <4>1. derived'[id] # NotDerived
        BY <3>2, DerivationIs
      <4>2. Complete(id[1])'
        BY <1>4, <4>1 DEF GltfInvariant, DerivedHold
      <4>3. /\ derived'[id].provenance = z.provenance /\ z.provenance # NoProvenance
            /\ derived'[id].row = Written(NoChunks, z.bytes, 0)
        BY <3>2, DerivationIs, ArtefactsAre
      <4>4. WholeRow(derived'[id].row) /\ Content(derived'[id].row) = z.bytes
        BY <4>3, ArtefactsAre, WrittenIs
      <4> QED
        BY <4>2, <4>3, <4>4, ArtefactsAre DEF ReadDerived
    <3>5. \A i \in Ids : i # id => ReadDerived(i)' = ReadDerived(i)
      BY <1>2, <1>4, <3>2
    <3>6. artefacts' = [artefacts EXCEPT ![id] = z]
      BY <3>4, <3>5 DEF artefacts
    <3>7. Derivations!Publish(id, z)
      BY <3>3, <3>6 DEF Derivations!Publish
    <3> QED
      BY <3>7 DEF Derivations!Next
  <2> QED
    BY <2>1, <2>2, <2>3
<1>5. ASSUME GltfInvariant, GltfInvariant', [Next]_vars PROVE [Derivations!Next]_artefacts
  <2>1. ASSUME NEW a \in Assets, NEW d \in Documents, Import(a, d) PROVE UNCHANGED derived
    BY <2>1 DEF Import
  <2>2. ASSUME InitializeTracking PROVE UNCHANGED derived
    BY <2>2 DEF InitializeTracking
  <2>3. ASSUME NEW k, NEW flags, SetTracking(k, flags) PROVE UNCHANGED derived
    BY <2>3 DEF SetTracking
  <2>4. ASSUME NEW t \in Derivers, DeriverStep(t) PROVE UNCHANGED derived \/ DeriveWrites(t)
    BY <2>4 DEF DeriverStep, DeriveChecks, DeriveEnds
  <2>5. ASSUME UNCHANGED vars PROVE UNCHANGED derived
    BY <2>5 DEF vars
  <2> QED
    BY <1>3, <1>4, <1>5, <2>1, <2>2, <2>3, <2>4, <2>5 DEF Next
<1> QED
  BY <1>1, <1>5, GltfIsInductive, PTL DEF Spec, RefinesImmutableStore, Derivations!Spec

(* --- blobs ---------------------------------------------------------------- *)

\* A set of naturals has a least element: of the intervals 0 .. n with n in it, one
\* includes no other.
LEMMA LeastOfSome ==
  ASSUME NEW T \in SUBSET Nat, T # {}
  PROVE  \E x \in T : \A y \in T : x <= y
<1> DEFINE upto == {0 .. n : n \in T}
<1>1. upto \subseteq FiniteSubsetsOf(Nat)
  <2>1. ASSUME NEW n \in T PROVE 0 .. n \in FiniteSubsetsOf(Nat)
    <3>1. n \in Nat /\ 0 .. n \in SUBSET Nat
      OBVIOUS
    <3> QED
      BY <3>1, FS_Interval DEF FiniteSubsetsOf
  <2> QED
    BY <2>1
<1>2. upto # {}
  OBVIOUS
<1>3. PICK U \in upto : \A V \in upto : <<V, U>> \notin StrictSubsetOrdering(Nat)
  <2> HIDE DEF upto
  <2> QED
    BY <1>1, <1>2, FS_StrictSubsetOrderingWellFounded, WFMin
<1>4. PICK x \in T : U = 0 .. x
  OBVIOUS
<1>5. ASSUME NEW y \in T PROVE x <= y
  <2>1. SUFFICES ASSUME y < x PROVE FALSE
    OBVIOUS
  <2>2. <<0 .. y, 0 .. x>> \in StrictSubsetOrdering(Nat)
    BY <2>1 DEF StrictSubsetOrdering
  <2> QED
    BY <1>3, <1>4, <2>2
<1> QED
  BY <1>5

\* The bytes of the first n chunks, and how the next chunk goes on from there.
Prefix(bytes, n) == SubSeq(bytes, 1, AtMost(n * ChunkBytes, Len(bytes)))

LEMMA PrefixIs ==
  ASSUME NEW bytes \in ByteStrings
  PROVE  /\ Prefix(bytes, 0) = <<>>
         /\ \A n \in Nat : Len(bytes) <= n * ChunkBytes => Prefix(bytes, n) = bytes
<1>1. bytes \in Seq(Bytes) /\ Len(bytes) \in Nat /\ ChunkBytes \in Nat
  BY ByteStringsAre, ChunksAssumption DEF ChunksAssumption
<1>2. Prefix(bytes, 0) = <<>>
  <2>1. AtMost(0 * ChunkBytes, Len(bytes)) = 0
    BY <1>1 DEF AtMost
  <2> QED
    BY <1>1, <2>1, SubSeqEmpty DEF Prefix
<1>3. ASSUME NEW n \in Nat, Len(bytes) <= n * ChunkBytes PROVE Prefix(bytes, n) = bytes
  <2>1. AtMost(n * ChunkBytes, Len(bytes)) = Len(bytes)
    BY <1>1, <1>3, Products DEF AtMost
  <2> QED
    BY <1>1, <2>1, SubSeqFull DEF Prefix
<1> QED
  BY <1>2, <1>3

LEMMA PrefixGrows ==
  ASSUME NEW bytes \in ByteStrings, NEW i \in Nat, i < ChunkCount(Len(bytes))
  PROVE  Prefix(bytes, i + 1) = Prefix(bytes, i) \o Chunk(bytes, i) /\ Chunk(bytes, i) # <<>>
<1> DEFINE k == i * ChunkBytes
           n == AtMost((i + 1) * ChunkBytes, Len(bytes))
<1>1. bytes \in Seq(Bytes) /\ Len(bytes) \in Nat /\ ChunkBytes \in Nat /\ ChunkBytes > 0
  BY ByteStringsAre, ChunksAssumption DEF ChunksAssumption
<1>2. k \in Nat /\ k < Len(bytes) /\ (i + 1) * ChunkBytes = k + ChunkBytes
  BY <1>1, Counted, Products
<1>3. n \in Nat /\ k < n /\ n <= Len(bytes) /\ AtMost(k, Len(bytes)) = k
  BY <1>1, <1>2 DEF AtMost
<1>4. /\ Prefix(bytes, i) = SubSeq(bytes, 1, k) /\ Chunk(bytes, i) = SubSeq(bytes, k + 1, n)
      /\ Prefix(bytes, i + 1) = SubSeq(bytes, 1, n)
  BY <1>3 DEF Prefix, Chunk
<1>5. Chunk(bytes, i) # <<>>
  <2>1. Len(Chunk(bytes, i)) = AtMost(ChunkBytes, Len(bytes) - k)
    BY <1>1, ChunkIs
  <2>2. Len(Chunk(bytes, i)) > 0
    BY <1>1, <1>2, <2>1 DEF AtMost
  <2> QED
    BY <2>2
<1> HIDE DEF k, n
<1>6. SubSeq(bytes, 1, k) \o SubSeq(bytes, k + 1, n) = SubSeq(bytes, 1, n)
  <2>1. 1 \in 1 .. Len(bytes) + 1 /\ k \in 1 - 1 .. Len(bytes) /\ n \in k .. Len(bytes)
    BY <1>1, <1>2, <1>3
  <2> QED
    BY <1>1, <2>1, ConcatAdjacentSubSeq
<1> QED
  BY <1>4, <1>5, <1>6

\* What joining the chunks one by one comes to, from the first on: the only function
\* that its recursive definition describes.
Joins(f, chunks) ==
  f = [i \in 0 .. MaxLength |->
         IF i = 0 THEN <<>>
         ELSE IF chunks[i - 1] = NoChunk THEN f[i - 1]
         ELSE f[i - 1] \o chunks[i - 1]]

LEMMA PrefixesJoin ==
  ASSUME NEW bytes \in ByteStrings, NEW chunks, chunks = Overwritten(NoChunks, bytes, 0)
  PROVE  /\ Joins([i \in 0 .. MaxLength |-> Prefix(bytes, i)], chunks)
         /\ \A i \in Indexes : chunks[i] = NoChunk => Len(bytes) <= i * ChunkBytes
<1> DEFINE g == [i \in 0 .. MaxLength |-> Prefix(bytes, i)]
<1>1. Len(bytes) \in Nat /\ ChunkBytes \in Nat /\ ChunkBytes > 0 /\ MaxLength \in Nat
  BY ByteStringsAre, ChunksAssumption DEF ChunksAssumption
<1>2. ASSUME NEW i \in Indexes
      PROVE  /\ i \in Nat
             /\ i < ChunkCount(Len(bytes)) => chunks[i] = Chunk(bytes, i) /\ chunks[i] # NoChunk
             /\ ~(i < ChunkCount(Len(bytes))) =>
                  chunks[i] = NoChunk /\ Len(bytes) <= i * ChunkBytes
  <2>1. i \in Nat
    BY <1>1 DEF Indexes
  <2>2. /\ i < ChunkCount(Len(bytes)) => chunks[i] = Chunk(bytes, i)
        /\ ~(i < ChunkCount(Len(bytes))) => chunks[i] = NoChunk
    BY <2>1 DEF Overwritten, NoChunks
  <2>3. i < ChunkCount(Len(bytes)) => Chunk(bytes, i) # NoChunk
    BY <2>1, PrefixGrows DEF NoChunk
  <2>4. ~(i < ChunkCount(Len(bytes))) => Len(bytes) <= i * ChunkBytes
    BY <1>1, <2>1, Counted, Products
  <2> QED
    BY <2>1, <2>2, <2>3, <2>4
<1>3. ASSUME NEW i \in 0 .. MaxLength, i # 0
      PROVE  Prefix(bytes, i) = IF chunks[i - 1] = NoChunk THEN Prefix(bytes, i - 1)
                                ELSE Prefix(bytes, i - 1) \o chunks[i - 1]
  <2>1. i - 1 \in Indexes /\ i - 1 + 1 = i /\ i - 1 \in Nat
    BY <1>1, <1>3 DEF Indexes
  <2>2. CASE i - 1 < ChunkCount(Len(bytes))
    <3>1. Prefix(bytes, i - 1 + 1) = Prefix(bytes, i - 1) \o Chunk(bytes, i - 1)
      BY <2>1, <2>2, PrefixGrows
    <3> QED
      BY <1>2, <2>1, <2>2, <3>1
  <2>3. CASE ~(i - 1 < ChunkCount(Len(bytes)))
    <3>1. chunks[i - 1] = NoChunk /\ Len(bytes) <= (i - 1) * ChunkBytes
      BY <1>2, <2>1, <2>3
    <3>2. Len(bytes) <= i * ChunkBytes
      <4>1. (i - 1 + 1) * ChunkBytes = (i - 1) * ChunkBytes + ChunkBytes
            /\ (i - 1) * ChunkBytes \in Nat
        BY <2>1, Products
      <4> QED
        BY <1>1, <2>1, <3>1, <4>1
    <3>3. Prefix(bytes, i) = bytes /\ Prefix(bytes, i - 1) = bytes
      BY <2>1, <3>1, <3>2, PrefixIs
    <3> QED
      BY <3>1, <3>3
  <2> QED
    BY <2>2, <2>3
<1>4. ASSUME NEW i \in 0 .. MaxLength
      PROVE  g[i] = IF i = 0 THEN <<>>
                    ELSE IF chunks[i - 1] = NoChunk THEN g[i - 1]
                    ELSE g[i - 1] \o chunks[i - 1]
  <2>1. i # 0 => i - 1 \in 0 .. MaxLength
    BY <1>1
  <2> QED
    BY <1>3, <2>1, PrefixIs
<1> HIDE DEF g
<1>5. g = [i \in 0 .. MaxLength |->
             IF i = 0 THEN <<>>
             ELSE IF chunks[i - 1] = NoChunk THEN g[i - 1]
             ELSE g[i - 1] \o chunks[i - 1]]
  <2>1. g = [i \in 0 .. MaxLength |-> g[i]]
    BY DEF g
  <2> QED
    BY <1>4, <2>1
<1>6. Joins(g, chunks)
  BY <1>5 DEF Joins
<1> QED
  BY <1>2, <1>6 DEF g

LEMMA JoinsOnce ==
  ASSUME NEW chunks, NEW f, NEW g, Joins(f, chunks), Joins(g, chunks)
  PROVE  \A i \in 0 .. MaxLength : f[i] = g[i]
<1> DEFINE differ == {i \in 0 .. MaxLength : f[i] # g[i]}
<1> SUFFICES ASSUME differ # {} PROVE FALSE
  OBVIOUS
<1>1. differ \in SUBSET Nat
  OBVIOUS
<1>2. PICK i \in differ : \A j \in differ : i <= j
  <2> HIDE DEF differ
  <2> QED
    BY <1>1, LeastOfSome
<1>3. i \in 0 .. MaxLength /\ f[i] # g[i] /\ MaxLength \in Nat
  BY ChunksAssumption DEF ChunksAssumption
<1>4. /\ f[i] = IF i = 0 THEN <<>>
                ELSE IF chunks[i - 1] = NoChunk THEN f[i - 1] ELSE f[i - 1] \o chunks[i - 1]
      /\ g[i] = IF i = 0 THEN <<>>
                ELSE IF chunks[i - 1] = NoChunk THEN g[i - 1] ELSE g[i - 1] \o chunks[i - 1]
  BY <1>3 DEF Joins
<1>5. i # 0 => i - 1 \in 0 .. MaxLength /\ i - 1 \notin differ
  BY <1>2, <1>3
<1>6. i # 0 => f[i - 1] = g[i - 1]
  BY <1>5
<1> QED
  BY <1>3, <1>4, <1>6

\* What put_blob has stored reads back as it was, however many chunks it took.
LEMMA BlobIs ==
  ASSUME NEW bytes \in ByteStrings
  PROVE  Blob(Overwritten(NoChunks, bytes, 0)) = bytes
<1> DEFINE chunks == Overwritten(NoChunks, bytes, 0)
           g == [i \in 0 .. MaxLength |-> Prefix(bytes, i)]
           joined == CHOOSE f : Joins(f, chunks)
           missing == {i \in Indexes : chunks[i] = NoChunk}
           end == IF missing = {} THEN MaxLength
                  ELSE CHOOSE i \in missing : \A j \in missing : i <= j
<1>1. Blob(chunks) = joined[end]
  BY DEF Blob, Joins
<1>2. /\ Joins(g, chunks)
      /\ \A i \in Indexes : chunks[i] = NoChunk => Len(bytes) <= i * ChunkBytes
  BY PrefixesJoin
<1>3. Joins(joined, chunks)
  BY <1>2
<1>4. \A i \in 0 .. MaxLength : joined[i] = g[i]
  <2> HIDE DEF joined, g, chunks
  <2> QED
    BY <1>2, <1>3, JoinsOnce
<1>5. end \in 0 .. MaxLength /\ end \in Nat /\ Len(bytes) <= end * ChunkBytes
  <2>0. /\ MaxLength \in Nat /\ Len(bytes) <= MaxLength /\ missing \in SUBSET Nat
        /\ Len(bytes) \in Nat
    BY ByteStringsAre, ChunksAssumption DEF ChunksAssumption, Indexes
  <2>1. CASE missing = {}
    <3>1. MaxLength <= MaxLength * ChunkBytes /\ MaxLength * ChunkBytes \in Nat
      BY <2>0, Products
    <3>2. end = MaxLength
      BY <2>1
    <3> HIDE DEF end, missing
    <3>3. end * ChunkBytes = MaxLength * ChunkBytes
      BY <3>2
    <3>4. Len(bytes) <= end * ChunkBytes
      BY <2>0, <3>1, <3>3
    <3> QED
      BY <2>0, <3>2, <3>4
  <2>2. CASE missing # {}
    <3>1. \E i \in missing : \A j \in missing : i <= j
      <4> HIDE DEF missing
      <4> QED
        BY <2>0, <2>2, LeastOfSome
    <3>2. end \in missing
      BY <2>2, <3>1
    <3>3. end \in Indexes /\ chunks[end] = NoChunk
      BY <3>2
    <3> HIDE DEF end, chunks
    <3> QED
      BY <1>2, <2>0, <3>3 DEF Indexes
  <2> QED
    BY <2>1, <2>2
<1>6. joined[end] = Prefix(bytes, end)
  <2> HIDE DEF joined, end
  <2> QED
    BY <1>4, <1>5
<1>7. Prefix(bytes, end) = bytes
  <2> HIDE DEF end
  <2> QED
    BY <1>5, PrefixIs
<1> QED
  BY <1>1, <1>6, <1>7

\* Every blob a record names reads back as the bytes its document had, and is as long
\* as the record says: for any documents, of any size, whatever was imported since.
THEOREM BlobsAlwaysExact == Spec => []BlobsAreExact
<1>1. ASSUME GltfInvariant, NEW r \in Revisions, imported[r] # NoImport,
             NEW p \in Parts, NEW b \in Keys, b \in records[<<r, p>>].blobs
      PROVE  /\ p \in DOMAIN imported[r][2].bytes
             /\ Blob(blobs[b]) = imported[r][2].bytes[p]
             /\ p # RevisionPart => records[<<r, p>>].length = Len(Blob(blobs[b]))
  <2>1. PICK a \in Assets, d \in Documents, kinds \in {Kinds, OldKinds} :
          imported[r] = <<a, d>> /\ RevisionHolds(r, a, d, kinds)
    BY <1>1 DEF GltfInvariant, HistoryHolds
  <2>2. imported[r][2] = d
    BY <2>1
  <2>3. /\ \A q \in DOMAIN d.bytes : d.bytes[q] \in ByteStrings
        /\ \A q \in d.parts : q[1] = "buffer" => q \in DOMAIN d.bytes
        /\ RevisionPart \in DOMAIN d.bytes
    <3>1. DOMAIN d.bytes = {RevisionPart} \cup {q \in d.parts : q[1] = "buffer"}
      BY GltfAssumption DEF GltfAssumption
    <3> QED
      BY <3>1, DocumentsAre
  <2>4. CASE p = RevisionPart
    <3>1. b = <<r, p>>
      BY <1>1, <2>1, <2>4 DEF RevisionHolds, RecordsHold, RevisionRecord
    <3>2. blobs[b] = Overwritten(NoChunks, d.bytes[p], 0)
      BY <2>1, <2>3, <2>4, <3>1 DEF RevisionHolds, BlobsHold
    <3> QED
      BY <2>2, <2>3, <2>4, <3>2, BlobIs
  <2>5. CASE p # RevisionPart
    <3>1. records[<<r, p>>] = IF p \in Normalized(d, kinds) THEN PartRecord(r, d, p, kinds) ELSE NoRecord
      BY <2>1, <2>5 DEF RevisionHolds, RecordsHold
    <3>2. p \in Normalized(d, kinds) /\ records[<<r, p>>] = PartRecord(r, d, p, kinds)
      BY <1>1, <3>1 DEF NoRecord
    <3>3. p[1] = "buffer" /\ b = <<r, p>> /\ records[<<r, p>>].length = Len(d.bytes[p])
      BY <1>1, <3>2 DEF PartRecord
    <3>4. p \in DOMAIN d.bytes
      BY <2>3, <3>2, <3>3 DEF Normalized
    <3>5. blobs[b] = Overwritten(NoChunks, d.bytes[p], 0)
      BY <2>1, <3>3, <3>4 DEF RevisionHolds, BlobsHold
    <3> QED
      BY <2>2, <2>3, <3>3, <3>4, <3>5, BlobIs
  <2> QED
    BY <2>4, <2>5
<1>2. GltfInvariant => BlobsAreExact
  BY <1>1 DEF BlobsAreExact
<1> QED
  BY <1>2, GltfIsInductive, PTL
=============================================================================
