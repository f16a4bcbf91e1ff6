----------------------------- MODULE GltfStore ------------------------------
(***************************************************************************)
(* The glTF document store of glTFredb.rs: an append-only history of       *)
(* imported documents, each a revision with its normalized records and     *)
(* blobs, a tracking row for every record, and derived artefacts beside    *)
(* the revision they come from.                                            *)
(*                                                                         *)
(* A write transaction is one step: redb admits one at a time, and one     *)
(* that fails or is cut off by a crash leaves nothing.  put_derived is two *)
(* transactions, and so two steps.                                         *)
(***************************************************************************)
EXTENDS Chunks

CONSTANTS
  Assets,            \* the asset_ids
  Documents,         \* parsed documents: their parts, which uses which, and bytes
  Names, Provenances,
  Artefacts,         \* derived artefacts: a provenance and bytes
  Derivers,          \* threads in put_derived
  Verdicts,          \* the parts set_tracking is called for, with the flags
  MaxRevision, MaxDecisions  \* bounds on imports and on calls of set_tracking

RevisionPart == <<"revision", 0>>   \* r/N/revision
AssetPart == <<"asset", 0>>         \* asset/ID

\* What import makes records of; "roots" is the list of a scene's nodes.  Before
\* camera support there were no cameras.
Kinds == {"buffer", "scene", "roots", "node", "camera", "mesh", "primitive",
          "accessor", "buffer_view"}
OldKinds == Kinds \ {"camera"}

Parts == {RevisionPart, AssetPart} \cup UNION {d.parts : d \in Documents}
Revisions == 1 .. MaxRevision
Keys == (Revisions \X Parts) \cup (Assets \X {AssetPart})
Ids == Revisions \X Names

ASSUME GltfAssumption ==
  /\ MaxRevision \in Nat /\ MaxDecisions \in Nat
  /\ Assets \cap Revisions = {}     \* asset/... and r/... differ
  /\ \A d \in Documents :
       /\ RevisionPart \notin d.parts /\ AssetPart \notin d.parts
       /\ d.uses \in [d.parts -> SUBSET d.parts]
       \* The source, and every buffer with its data resolved.
       /\ d.bytes \in [{RevisionPart} \cup {p \in d.parts : p[1] = "buffer"} -> ByteStrings]
  /\ \A v \in Verdicts : v[2] \subseteq {"included", "fully_respected", "tested"}
  /\ \A x \in Artefacts :
       /\ x = [provenance |-> x.provenance, bytes |-> x.bytes]
       /\ x.bytes \in ByteStrings
       /\ x.provenance \in Provenances
  /\ "none" \notin Provenances

VARIABLES
  next_revision,     \* META
  records,           \* RECORDS: a record by its state, links, blob and byte_length
  blobs,             \* BLOBS: the chunks under a blob ID, named by its record
  tracking,          \* TRACKING
  derived,           \* DERIVED and DERIVED_BLOBS
  step, job,         \* put_derived: where a thread is, for which ID and artefact
  imported,          \* history: what each revision was imported from
  decided,           \* history: the last decision on a record, and
  decisions,         \* how many there were
  legacy             \* history: revisions from before tracking, not initialized

tables == <<next_revision, records, blobs, tracking>>
derivers == <<step, job>>
history == <<imported, decided, decisions, legacy>>
vars == <<tables, derived, derivers, history>>

NoRecord == [state |-> "none", links |-> {}, blobs |-> {}, length |-> NoLength]
NoJob == <<>>
NoImport == <<>>
NoTracking == {"none"}
Flags == {"included", "fully_respected", "tested"}
NoProvenance == "none"
NotDerived == [provenance |-> NoProvenance, row |-> EmptyRow]
NoArtefact == [provenance |-> NoProvenance, bytes |-> NoContent]

\* Nothing is respected or tested that is not included.
ValidFlags(flags) == flags # {} => "included" \in flags

Records == [state : {"none", "part", "complete"}, links : SUBSET Keys, blobs : SUBSET Keys,
            length : NoLength .. MaxLength]
Trackings == {f \in SUBSET Flags : f # {} => "included" \in f}

TypeOK ==
  /\ next_revision \in 1 .. MaxRevision + 1
  /\ records \in [Keys -> Records]
  /\ blobs \in [Keys -> [Indexes -> Seq(Bytes)]]
  /\ tracking \in [Keys -> Trackings \cup {NoTracking}]
  /\ derived \in [Ids -> [provenance : Provenances \cup {NoProvenance}, row : Rows]]
  /\ step \in [Derivers -> {"idle", "checked", "ok", "conflict"}]
  /\ job \in [Derivers -> (Ids \X Artefacts) \cup {NoJob}]
  /\ DOMAIN imported = Revisions /\ DOMAIN decided = Keys
  /\ decisions \in 0 .. MaxDecisions
  /\ legacy \in 0 .. MaxRevision

(* --- import -------------------------------------------------------------- *)

\* Variant: the loop over cameras is missing.
WithoutCameras(d, kinds) == {p \in d.parts : p[1] \in kinds \ {"camera"}}

\* The parts of a document that become records, and the links between them; other
\* parts, such as materials, are referred to by number only.
Normalized(d, kinds) == {p \in d.parts : p[1] \in kinds}
Links(r, d, p, kinds) == {<<r, q>> : q \in {q \in d.uses[p] : q[1] \in kinds}}

PartRecord(r, d, p, kinds) ==
  [state |-> "part", links |-> Links(r, d, p, kinds),
   blobs |-> IF p[1] = "buffer" THEN {<<r, p>>} ELSE {},
   length |-> IF p[1] = "buffer" THEN Len(d.bytes[p]) ELSE NoLength]
RevisionRecord(r, a) ==
  [state |-> "complete", links |-> {<<a, AssetPart>>}, blobs |-> {<<r, RevisionPart>>},
   length |-> NoLength]
AssetRecord(r) ==
  [state |-> "part", links |-> {<<r, RevisionPart>>}, blobs |-> {}, length |-> NoLength]

\* Variant: an asset keeps the revision it was first imported as.
RecordedOnce(table, r, a, d, kinds) ==
  [k \in Keys |->
     IF k = <<a, AssetPart>> /\ table[k] = NoRecord THEN AssetRecord(r)
     ELSE IF k = <<r, RevisionPart>> THEN RevisionRecord(r, a)
     ELSE IF k[1] = r /\ k[2] \in Normalized(d, kinds) THEN PartRecord(r, d, k[2], kinds)
     ELSE table[k]]

\* The record of the revision is first put as Staging, and at the end of the same
\* transaction as Complete.
Recorded(table, r, a, d, kinds) ==
  [k \in Keys |->
     IF k = <<a, AssetPart>> THEN AssetRecord(r)
     ELSE IF k = <<r, RevisionPart>> THEN RevisionRecord(r, a)
     ELSE IF k[1] = r /\ k[2] \in Normalized(d, kinds) THEN PartRecord(r, d, k[2], kinds)
     ELSE table[k]]

\* Variant: the source is not kept.
StoredBuffers(table, r, d) ==
  [k \in Keys |-> IF k[1] = r /\ k[2] \in DOMAIN d.bytes \ {RevisionPart}
                  THEN Overwritten(table[k], d.bytes[k[2]], 0) ELSE table[k]]

\* put_blob for the source and every buffer.
Stored(table, r, d) ==
  [k \in Keys |-> IF k[1] = r /\ k[2] \in DOMAIN d.bytes
                  THEN Overwritten(table[k], d.bytes[k[2]], 0) ELSE table[k]]

\* Variant: rows there are get the default again.
InsertAll(table, keys) == [k \in Keys |-> IF k \in keys THEN {} ELSE table[k]]

InsertMissing(table, keys) ==
  [k \in Keys |-> IF k \in keys /\ table[k] = NoTracking THEN {} ELSE table[k]]

\* Variant: the row of the asset is not seeded.
SeededParts(r, a) == {k \in Keys : k[1] = r /\ records'[k] # NoRecord}

\* seed_tracking_for_revision: the asset, and what the scan of RECORDS finds.
SeededKeys(r, a) == {<<a, AssetPart>>} \cup {k \in Keys : k[1] = r /\ records'[k] # NoRecord}

\* Variant: next_revision is the number of the latest revision.
RevisionAgain == IF next_revision = 1 THEN 1 ELSE next_revision - 1

\* The number the revision gets; missing, next_revision counts from 1.
NewRevision == next_revision

Import(a, d) ==
  /\ NewRevision <= MaxRevision
  /\ next_revision' = NewRevision + 1
  /\ records' = Recorded(records, NewRevision, a, d, Kinds)
  /\ blobs' = Stored(blobs, NewRevision, d)
  /\ tracking' = InsertMissing(tracking, SeededKeys(NewRevision, a))
  /\ imported' = [imported EXCEPT ![NewRevision] = <<a, d>>]
  /\ UNCHANGED <<derived, derivers, decided, decisions, legacy>>

(* --- tracking ------------------------------------------------------------ *)

InitializeTracking ==
  /\ tracking' = InsertMissing(tracking, {k \in Keys : records[k] # NoRecord})
  /\ legacy' = 0
  /\ UNCHANGED <<next_revision, records, blobs, derived, derivers, imported, decided, decisions>>

SetTracking(k, flags) ==
  /\ decisions < MaxDecisions
  /\ ValidFlags(flags)
  /\ records[k] # NoRecord
  /\ tracking' = [tracking EXCEPT ![k] = flags]
  /\ decided' = [decided EXCEPT ![k] = flags]
  /\ decisions' = decisions + 1
  /\ UNCHANGED <<next_revision, records, blobs, derived, derivers, imported, legacy>>

(* --- put_derived, derived ------------------------------------------------ *)

\* revision: only a Complete one is found.
Complete(r) == records[<<r, RevisionPart>>].state = "complete"

\* Variant: a revision that may be imported one day will do.
DeriveAnyway(t, id, x) ==
  /\ step[t] = "idle"
  /\ step' = [step EXCEPT ![t] = "checked"]
  /\ job' = [job EXCEPT ![t] = <<id, x>>]
  /\ UNCHANGED <<tables, derived, history>>

DeriveChecks(t, id, x) ==
  /\ step[t] = "idle"
  /\ Complete(id[1])
  /\ step' = [step EXCEPT ![t] = "checked"]
  /\ job' = [job EXCEPT ![t] = <<id, x>>]
  /\ UNCHANGED <<tables, derived, history>>

\* Variant: whether there is one already is not looked at again.
VacantAnyway(id) == TRUE

Vacant(id) == derived[id].provenance = NoProvenance

\* Variant: provenance and length agree, so the bytes do.
SameRecord(id, x) ==
  derived[id].provenance = x.provenance /\ derived[id].row.length = Len(x.bytes)

\* The record is the same, and so are the chunks of these bytes.
Same(id, x) ==
  /\ derived[id].provenance = x.provenance
  /\ derived[id].row.length = Len(x.bytes)
  /\ \A i \in Indexes :
       i < ChunkCount(Len(x.bytes)) => derived[id].row.chunks[i] = Chunk(x.bytes, i)

Answer(t, answer) ==
  /\ step[t] = "checked"
  /\ step' = [step EXCEPT ![t] = answer]
  /\ UNCHANGED <<tables, job, history>>

Publishes(t, id, x) ==
  /\ Vacant(id)
  /\ derived' = [derived EXCEPT ![id] =
                   [provenance |-> x.provenance, row |-> Written(@.row.chunks, x.bytes, 0)]]
  /\ Answer(t, "ok")

Repeats(t, id, x) ==
  ~Vacant(id) /\ Same(id, x) /\ Answer(t, "ok") /\ UNCHANGED derived

Conflicts(t, id, x) ==
  ~Vacant(id) /\ ~Same(id, x) /\ Answer(t, "conflict") /\ UNCHANGED derived

DeriveWrites(t) ==
  \E id \in Ids, x \in Artefacts :
    /\ job[t] = <<id, x>>
    /\ Publishes(t, id, x) \/ Repeats(t, id, x) \/ Conflicts(t, id, x)

\* The call returns or fails, or a crash cuts it off.
DeriveEnds(t) ==
  /\ step[t] # "idle"
  /\ step' = [step EXCEPT ![t] = "idle"]
  /\ job' = [job EXCEPT ![t] = NoJob]
  /\ UNCHANGED <<tables, derived, history>>

(* --- the store ----------------------------------------------------------- *)

\* A new database, or one from before tracking and cameras.
Fresh ==
  /\ next_revision = 1
  /\ records = [k \in Keys |-> NoRecord]
  /\ blobs = [k \in Keys |-> NoChunks]
  /\ imported = [r \in Revisions |-> NoImport]
  /\ legacy = 0

Old(a, d) ==
  /\ MaxRevision > 0
  /\ next_revision = 2
  /\ records = Recorded([k \in Keys |-> NoRecord], 1, a, d, OldKinds)
  /\ blobs = Stored([k \in Keys |-> NoChunks], 1, d)
  /\ imported = [r \in Revisions |-> IF r = 1 THEN <<a, d>> ELSE NoImport]
  /\ legacy = 1

Init ==
  /\ Fresh \/ \E a \in Assets, d \in Documents : Old(a, d)
  /\ tracking = [k \in Keys |-> NoTracking]
  /\ derived = [id \in Ids |-> NotDerived]
  /\ step = [t \in Derivers |-> "idle"]
  /\ job = [t \in Derivers |-> NoJob]
  /\ decided = [k \in Keys |-> NoTracking]
  /\ decisions = 0

DeriverStep(t) ==
  \/ \E id \in Ids, x \in Artefacts : DeriveChecks(t, id, x)
  \/ DeriveWrites(t)
  \/ DeriveEnds(t)

Next ==
  \/ \E a \in Assets, d \in Documents : Import(a, d)
  \/ InitializeTracking
  \/ \E k \in Keys, v \in Verdicts : k[2] = v[1] /\ SetTracking(k, v[2])
  \/ \E t \in Derivers : DeriverStep(t)

Spec == Init /\ [][Next]_vars

(* --- what must hold ------------------------------------------------------ *)

\* "An append-only redb store. Re-importing an asset always creates a new
\* revision": what a revision consists of never changes, not its records, not its
\* blobs, not the place where it goes.
RevisionsStay ==
  [][\A r \in Revisions : imported[r] # NoImport =>
       /\ imported'[r] = imported[r]
       /\ \A p \in Parts : records'[<<r, p>>] = records[<<r, p>>]
                           /\ blobs'[<<r, p>>] = blobs[<<r, p>>]]_vars

\* blob: chunks are appended until one is missing.
Blob(chunks) ==
  LET joined[i \in 0 .. MaxLength] ==
        IF i = 0 THEN <<>>
        ELSE IF chunks[i - 1] = NoChunk THEN joined[i - 1]
        ELSE joined[i - 1] \o chunks[i - 1]
      missing == {i \in Indexes : chunks[i] = NoChunk}
      end == IF missing = {} THEN MaxLength
             ELSE CHOOSE i \in missing : \A j \in missing : i <= j
  IN  joined[end]

\* "All resolved bytes are retained": every blob a record names reads back as the
\* bytes the document had, and as many as the record says.
BlobsAreExact ==
  \A r \in Revisions : imported[r] # NoImport =>
    \A p \in Parts, b \in Keys : b \in records[<<r, p>>].blobs =>
      /\ p \in DOMAIN imported[r][2].bytes
      /\ Blob(blobs[b]) = imported[r][2].bytes[p]
      /\ p # RevisionPart => records[<<r, p>>].length = Len(Blob(blobs[b]))

\* Whatever a record refers to is there, in the same revision: node and camera, in
\* transactions of their own, never meet a missing or foreign record.
ReferencesResolve ==
  \A k \in Keys : \A l \in records[k].links :
    records[l] # NoRecord /\ (k[1] \in Assets \/ l[1] \in Assets \/ l[1] = k[1])

\* An asset names its last revision, and the revision names the asset.
LatestIsLast ==
  \A a \in Assets : records[<<a, AssetPart>>] # NoRecord =>
    \E r \in Revisions :
      /\ records[<<a, AssetPart>>].links = {<<r, RevisionPart>>}
      /\ Complete(r) /\ records[<<r, RevisionPart>>].links = {<<a, AssetPart>>}
      /\ \A s \in Revisions : records[<<s, RevisionPart>>].links = {<<a, AssetPart>>} => s <= r

\* Every record is tracked, but for those of an old database until
\* initialize_tracking has seen them.
FromOld(k) ==
  \/ k[1] \in Revisions /\ k[1] <= legacy
  \/ \E r \in Revisions : r <= legacy /\ records[k].links = {<<r, RevisionPart>>}
EveryRecordTracked ==
  \A k \in Keys : records[k] # NoRecord => FromOld(k) \/ tracking[k] # NoTracking

\* "Existing tracking decisions are preserved", by re-imports and by
\* initialize_tracking.
DecisionsStay ==
  \A k \in Keys : decided[k] # NoTracking => tracking[k] = decided[k]

\* derived: nothing without a complete revision, an error at an odd chunk.
ReadDerived(id) ==
  IF ~Complete(id[1]) \/ derived[id].provenance = NoProvenance THEN NoArtefact
  ELSE [provenance |-> derived[id].provenance,
        bytes |-> IF WholeRow(derived[id].row) THEN Content(derived[id].row) ELSE NoContent]

\* "Exact repeated publication is idempotent; changed bytes or provenance require a
\* new name": ok means that this artefact is what can be read now, conflict that
\* another one is, whoever else published meanwhile.
AnswersAreTrue ==
  \A t \in Derivers, id \in Ids, x \in Artefacts : job[t] = <<id, x>> =>
    /\ step[t] = "ok" => ReadDerived(id) = x
    /\ step[t] = "conflict" => ReadDerived(id) \notin {x, NoArtefact}

\* "Durably publishes an immutable derived payload beside its source revision."
artefacts == [id \in Ids |-> ReadDerived(id)]
Derivations == INSTANCE ImmutableStore
  WITH Objects <- Artefacts, NoObject <- NoArtefact, store <- artefacts
RefinesImmutableStore == Derivations!Spec

(* --- the inductive invariant --------------------------------------------- *)

\* The tables hold, of revision r, what a document was normalized to, with the
\* kinds of its day, and its bytes in chunks.
RecordsHold(table, r, a, d, kinds) ==
  /\ table[<<r, RevisionPart>>] = RevisionRecord(r, a)
  /\ \A p \in Parts \ {RevisionPart} :
       table[<<r, p>>] = IF p \in Normalized(d, kinds) THEN PartRecord(r, d, p, kinds) ELSE NoRecord
BlobsHold(table, r, d) ==
  \A p \in Parts :
    table[<<r, p>>] = IF p \in DOMAIN d.bytes THEN Overwritten(NoChunks, d.bytes[p], 0) ELSE NoChunks
RevisionHolds(r, a, d, kinds) == RecordsHold(records, r, a, d, kinds) /\ BlobsHold(blobs, r, d)
NothingHolds(r) ==
  \A p \in Parts : records[<<r, p>>] = NoRecord /\ blobs[<<r, p>>] = NoChunks

HistoryHolds ==
  /\ legacy < next_revision
  /\ \A r \in Revisions :
       IF r < next_revision
       THEN \E a \in Assets, d \in Documents, kinds \in {Kinds, OldKinds} :
              imported[r] = <<a, d>> /\ RevisionHolds(r, a, d, kinds)
       ELSE imported[r] = NoImport /\ NothingHolds(r)

Of(a) == {r \in Revisions : r < next_revision /\ imported[r][1] = a}
AssetsHold ==
  \A a \in Assets :
    \/ records[<<a, AssetPart>>] = NoRecord /\ Of(a) = {}
    \/ \E r \in Of(a) : records[<<a, AssetPart>>] = AssetRecord(r) /\ \A s \in Of(a) : s <= r

Derivation(x) == [provenance |-> x.provenance, row |-> Written(NoChunks, x.bytes, 0)]
DerivedHold ==
  \A id \in Ids :
    \/ derived[id] = NotDerived
    \/ Complete(id[1]) /\ \E x \in Artefacts : derived[id] = Derivation(x)

JobHolds(t, id, x) ==
  /\ Complete(id[1])
  /\ step[t] = "ok" => derived[id] = Derivation(x)
  /\ step[t] = "conflict" => \E z \in Artefacts \ {x} : derived[id] = Derivation(z)
JobsHold ==
  \A t \in Derivers :
    IF step[t] = "idle" THEN job[t] = NoJob
    ELSE \E id \in Ids, x \in Artefacts : job[t] = <<id, x>> /\ JobHolds(t, id, x)

GltfInvariant ==
  /\ TypeOK
  /\ HistoryHolds /\ AssetsHold
  /\ EveryRecordTracked /\ DecisionsStay
  /\ DerivedHold /\ JobsHold
=============================================================================
