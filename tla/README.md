# Verification of TRUEOS-Picasso

TLA+ models of the stateful parts of Picasso, TLC runs on small instances, and
TLAPS proofs for every instance. This file is the map: what the program is made
of, which module stands for which code, what the runs and proofs show, and what
is still open. File and line references are to the crate's `src/src/`.

## 1. The system

Picasso is a Rust crate with one lock-free data structure shared with a GPU
(`cubism.rs`), four stores on top of redb (`nosql.rs`, `runtime_assets.rs`,
`glTFredb.rs`, `glb_library` in `lib.rs`), a camera driven by routed input
(`cam.rs`), an inspection of GLB headers (`glb_metadata.rs`), and plain data
(`core.rs`, `grid.rs`). The parts
do not call each other, except that `test.rs` drives all of them: they meet in
the program that uses the crate. So the modules are independent, and each
composes the actors that meet inside one part.

| Component | State it keeps | Operations | What is hard | What makes it correct |
|---|---|---|---|---|
| Execution ring, `cubism.rs` | per slot: sequence, debug state, GPU timeline, owner metadata, payload; a producer hint | `try_acquire`, `payload_mut`, `publish`, drop of `CpuSlot`, `published`, `mark_in_flight`, `retire` | lock-free claims, stale sequence reads, failing flushes, caches that are not coherent with the GPU, GPU completion in timeline order, generations that overflow | one writer per slot; the GPU sees what was published and the CPU what the GPU left; the GPU keeps what it runs; sequences move one by one; nothing lost; a full ring is really full; published slots come back |
| MASS object store, `nosql.rs` | redb catalog (next ID, records), payload files in `staging/` and `objects/` | `open`, `put`, `info`, `read`, `read_range` | crashes between write, sync, rename, directory sync and commit; debris; concurrent writers | a record never gets ahead of its payload; what `put` returned stays; objects are immutable |
| Runtime asset owners, `runtime_assets.rs` | per owner a redb database in RAM: lengths and chunks; read-only or not | `new`, `put_embedded_asset`, `remove_embedded_asset`, `embedded_asset`, `fork_runtime_database`, `into_runtime_database_image`, `from_runtime_database_image` | replacement by shorter and longer assets, reads of many chunks during writes, copies of the RAM image | exact bytes, one version per read, other assets untouched, forks and images independent |
| glTF document store, `glTFredb.rs` | revisions, records, source and buffer blobs, tracking rows, derived blobs | `import`, `import_file`, `initialize_tracking`, `set_tracking`, `revision`, `put_derived`, `derived` | the derived check and write in two transactions, tracking of old and new revisions | revisions complete and immutable; every record tracked; derived artefacts immutable and idempotent |
| GLB library, `lib.rs` | three keys per asset in one table | `dump_glb_bytes`, `load_glb`, `load_json_chunk`, `load_bin_chunk` | replacement with and without BIN, parts read in separate transactions, asset-ID normalisation | parts of one asset agree in each state; no stale BIN |
| Fly camera, `cam.rs` | position, rotation, the route it follows, the keys of the last step | `step`, `step_ui4`, `handle_ui4_pointer_event` | routes and the focused keyboard read in two questions, devices that leave and return, events that come late | only the focused pointer and its keyboard move the camera; no jumping between pointers; no stuck keys |
| GLB inspection, `glb_metadata.rs` | none | `inspect_glb_reader` | lengths in the header that decide what is allocated and read | allocates and reads no more than the file can hold; answers describe the JSON chunk exactly |
| Core descriptors, `core.rs`; grid, `grid.rs` | none | constructors, predicates | none | plain data |

Outside the crate, and modelled only from how it is used: redb (a committed
transaction is durable and atomic, one write transaction at a time, a read
transaction is a snapshot), the host file system, the GPU runtime with its
timeline, the executor that submits to it, and UI4, which routes pointers and keys.

`PROJECT.json` lists the hazards of all this code line by line with the
properties that cover them; a hazard without a property says why.

## 2. Modules

| Module | Models | Role |
|---|---|---|
| `SlotOwnership` | what a ring promises, slot by slot | abstract specification |
| `ExecRing` | `cubism.rs` lines 121-571: producers, executors, retirers, GPU | detailed specification, properties, inductive invariant |
| `MCExecRing`, `ring_*.cfg` | | instances |
| `ExecRingProofs` | | theorems about `ExecRing` |
| `RingLayout` | `from_raw_parts` and the byte ranges of `cubism.rs` | operators |
| `SharedSlot` | a slot as memory that CPU and GPU pass back and forth | abstract specification |
| `RingVisibility` | `publish` and `retire` of `cubism.rs` over a cache; `VisibilityOps` | detailed specification, properties, inductive invariant |
| `MCRingVisibility`, `ring_visibility.cfg` | | instance |
| `RingVisibilityProofs` | | theorems about `RingLayout` and `RingVisibility` |
| `ImmutableStore` | what a store of immutable objects promises | abstract specification |
| `MassStore` | `nosql.rs` | detailed specification, properties, inductive invariant |
| `MCMassStore`, `mass_*.cfg` | | instances |
| `MassStoreProofs` | | theorems about `MassStore` |
| `Chunks` | byte strings in chunks beside their length, as `runtime_assets.rs` and `glTFredb.rs` keep them | operators |
| `ChunksProofs` | | lemmas about `Chunks` |
| `AssetMap` | owners as maps from names to contents | abstract specification |
| `RuntimeAssets` | `runtime_assets.rs` | detailed specification, properties, inductive invariant |
| `MCRuntimeAssets`, `runtime_*.cfg` | | instances |
| `RuntimeAssetsProofs` | | theorems about `RuntimeAssets` |
| `GltfStore` | `glTFredb.rs`; implements `ImmutableStore` too | detailed specification, properties, inductive invariant |
| `MCGltfStore`, `gltf_store.cfg` | | instance |
| `GltfStoreProofs` | | theorems about `GltfStore` |
| `GlbLibrary` | `glb_library` of `lib.rs` | specification, properties, inductive invariant |
| `GlbMetadata` | `glb_metadata.rs` | operators |
| `MCGlbLibrary`, `glb_library.cfg` | | instance; `GlbMetadata` around its bounds |
| `GlbLibraryProofs` | | theorems about `GlbLibrary` and `GlbMetadata` |
| `InputRouting` | the UI4 side of `cam.rs` | specification, properties, invariant |
| `MCInputRouting`, `input_routing.cfg` | | instance |
| `InputRoutingProofs` | | theorems about `InputRouting` |

Operators whose comment says *Variant* are plausible bugs of the definition that
follows them (a dropped check, a forgotten step, a rounded count). They are never
part of a specification; each property of a passing run has one that breaks it.

### ExecRing

A step is one atomic operation another thread can see. A load that only selects
a branch is merged with the branch; relaxed stores of one thread that nobody
reads in between are one step (the header fill in `publish`, the clearing in
`retire`). Steps interleave sequentially consistently: every hand-over in the
code is an acquire load or compare-exchange of a word stored with release, so
the weaker orders show nothing more at the hand-overs. The mapping is coherent
here; `RingVisibility` has the cache.

| Code | Actions |
|---|---|
| `try_acquire` 230-275 | `StartScan`, `SkipPublished`, `LoadSequence`, `ClaimFails`, `Claim`, `Recheck`, `RecheckFails`, `Unclaim`, `RingFull` |
| `CpuSlot::payload_mut`, `publish` 432-484 | `WritePayload`, `FlushData`, `Abandon`, `Seal`, `StoreSequence`, `FlushControl`, `FlushControlFails` |
| `Drop for CpuSlot` 487-501 | `DropClears`, `DropReleases` |
| `published` 277-293, executor | `Open`, `GpuSubmit` |
| `mark_in_flight` 552-577 | `MarkChecks`, `MarkClaims`, `MarkStamps` |
| `retire` 295-344 | `RetireChecks`, `RetireRefused`, `RetireAccepted`, `RetireClears`, `RetireStores`, `RetireOverflows`, `RetireFrees` |
| GPU runtime | `GpuComplete` |

`sequence`, `debug_state`, `gpu_timeline` are the header words; `metadata` and
`payload` say whose length and bytes a slot shows; `ppc`, `epc`, `rpc` are the
position of each thread in its call, with its local variables beside them.
`jobs` and `completed` are the GPU timeline. `free_since` is history only: the
slots free throughout a producer's scan.

### RingVisibility and RingLayout

`RingLayout` is arithmetic: which mappings `from_raw_parts` accepts, and which
bytes, hence which cache lines, the ranges handed to `VisibilityOps` cover.
Multiplications that the code leaves unchecked wrap here.

`RingVisibility` takes one slot of such a layout, line by line: a header line and
the lines of the payload, each in memory, which is what the GPU sees, and in the
CPU's cache or not. The cache may load any line and write back or drop any line
between any two steps. CPUs are coherent among themselves and `ExecRing` has
the races of producers. The odd sequence opens the slot: from `Seal` on, before the
flush of the header or despite its failing, an executor may start the GPU on it
(`Opened`), mark it, and retire it.

| Code | Actions |
|---|---|
| `try_acquire`, `payload_mut` | `TryAcquire`, `PayloadMut` |
| `publish` 444-485 | `Describe` (the header's fields), `MakeGpuVisible` (the flush of header and payload), `Seal` (the sequence), `PublishSlot` (the flush of the header) |
| `Drop for CpuSlot` | `Drop`, after either flush failed too |
| executor, `mark_in_flight` | `GpuStarts`, `GpuWrites`, `GpuFinishes`, `MarkInFlight` |
| `retire` 296-343 | `MakeCpuVisible` or `MakeCpuVisibleFails` (the invalidation), `RetireClears` (the fields), `Free` (the sequence) |
| the cache | `Fetch`, `Evict` |

`payload_bytes`, `resource_revision` and `gpu_timeline` are stored in one step: while
they change, the sequence in the header gives the slot to the side that changes them.
The sequence is stored in a step of its own. A flush writes back and keeps the line, an
invalidation drops it; a failed flush is one of which some lines may have been
written back (which `Evict` does), a failed invalidation one that dropped some
lines. `initialize_fresh` flushes nothing, so memory starts with any header an
older ring may have left, and `ours` is the history of its having been
overwritten. For the same reason `retire` leaves the odd sequence in memory until
the line is written back: only the marker of the current publication is promised
to the GPU, and a GPU that reads headers has to know which generation it is after.
The executor marks a slot only for work it has started. When retire overtakes the
flush that ends `publish`, that flush is one more write-back of the line that the cache
may do anyway; that it fails only then, and the slot is dropped over its next holder,
is left to the finding on the header flush (section 3). Caches on the GPU's side
are the platform's business; to the model the GPU works in memory.

### MassStore

`put` is one step per system call and per transaction. `place` and `size` are
the files as running programs see them; `synced`, `entries` and `directories`
are what is on disk: which bytes, and in which of several places a crash may
leave a name. `Crash` is the host's, not the store's: it chooses among those and
forgets everything in memory, and `Recover` is what it leaves of a file. `open` then
starts again from what it finds. `PutFails` is the `?` after each step: nothing is
cleaned up. `Reserve` is `reserve_id`, `ReadInfo` and `ReadExact` are the two
halves of `read_range`. `DirectoriesDurable` says whether the host makes the
two directories of a fresh store durable by itself; no code does.

### RuntimeAssets

A database is a row per name: the length record and the chunks, and whether the
two tables exist yet. `Put` and `Remove` are whole write transactions, which is
what redb makes of them; `Inserted` and `Removed` are what the code does to a
row. `GetBegin`, `GetChunk`, `GetReturns` are `embedded_asset`: the snapshot, the
loop over the chunks with its length check, and the answer or error. `Fork`,
`FromImage`, `IntoImage` and `Drop` open and close owners. An owner cannot be
consumed while a get borrows it (Rust's ownership), hence `NotBorrowed`. Bytes
are kept as short sequences, because the division into chunks is the point; that
division is the module `Chunks`.

### GltfStore

Every operation but `put_derived` is one write transaction, or one read
transaction, and so one step or a state function.

| Code | Definitions |
|---|---|
| `import` 264-470 | `Import`, with `NewRevision`, `Recorded`, `Stored`, `SeededKeys` for what it does to META, RECORDS, BLOBS and TRACKING |
| `initialize_tracking` 474-488, `insert_missing_tracking` 751-762 | `InitializeTracking`, `InsertMissing` |
| `set_tracking` 504-521 | `SetTracking`, `ValidFlags` |
| `put_derived` 573-620 | `DeriveChecks` (the read transaction), `Publishes`, `Repeats`, `Conflicts` (the write transaction), `DeriveEnds` |
| `revision`, `blob`, `derived` | `Complete`, `Blob`, `ReadDerived` |

A key is a revision and a part (`r/1/node/0`), or an asset. A document is what
the parser makes of a source: its parts, which part uses which, and the bytes
of the source and of each buffer. A record is reduced to its state, the keys it
names, the blob it names and its byte length; names, matrices, projections and
the like are carried along and depended on by nothing. `Kinds` are the loops of
`import`; a part of another kind (an image, a material) becomes no record. The
record of a revision is written as `Staging` and as `Complete` in the same
transaction, so `Staging` is never seen; `Recorded` is what the transaction leaves.

The initial state is a new database, or (`Old`) one with a revision from before
cameras and tracking: line 153 and `initialize_tracking` exist for these.
`imported`, `decided` and `legacy` are history only: the document of each
revision, the last decision on each record, and how many revisions are from
before tracking and not initialized yet.

### GlbLibrary and GlbMetadata

`dump_glb_bytes` is a step per call on redb: `DumpCalled` (the ID normalised, the
GLB split), `BeginWrite`, `InsertSource`, `InsertJson`, `InsertOrRemoveBin`,
`Commit`; `BeginFails` is the `?` of the first call on redb, `Fail` that of any later
one. `draft` is the table inside the
transaction. `Load` is each of the three loads, a read transaction of its own, and
a reader is a caller that loads the parts of one asset one by one. Asset IDs are
sequences of letters, blanks, slashes and NUL, because normalising and joining
them is the point; a GLB is a pair of a JSON chunk and a BIN chunk or none.
`replaced` is history: the rows of the reader's asset have changed since its first load.

`GlbMetadata` is `inspect_glb_reader` as an operator: from what the 20 header bytes
say, the size the file system gave and the bytes that are really there, to the
bytes allocated and read and whether there is an answer.

### InputRouting

| Code | Definitions |
|---|---|
| `step_ui4` 387-398 | `StepCalled` (the routes), `KeyboardRead` (the focused keyboard, asked for only if some route has the focus), `StepFails` |
| `step_ui4` 399-484 | `Completed`, with `Chosen` (the route) and `KeysOf` (the keys) |
| `step` 363-382 | `Motion` |
| `handle_ui4_pointer_event` 490-521 | `HandlePointerEvent` |
| UI4, not in the repository | `Ui4Changes`, `PointerMoves` |

`routes`, `focused` and `events` are UI4's: they change between any two steps, also
between the two questions of `step_ui4`. The model takes from UI4 that it lists a
pointer (a cursor in a combo) once; listed twice, the keys could come from the
listing that is not eligible, because line 455 takes the first of that identity.
`last_combo`, the counters of log lines and `Ui4InputFrame` follow from the rest.
Angles and positions are left out: `moved` is the direction of the last motion,
`looked` the pointer of the last look.

## 3. Properties and runs

| Run | Instance | Shows |
|---|---|---|
| `ring_slot` | 1 slot, 3 generations, 2 producers, 2 executors, 1 retirer; the data flush and the invalidation may fail | `SingleWriter`, `GpuOwnsRunningSlots`, `TimelineBelongsToGeneration`, `MarkNeverRefused`, `NoSlotLost`, `PublishedImmutable`, `SequenceSteps`, the inductive `RingInvariant`, and that the ring implements `SlotOwnership` |
| `ring_scan` | 2 slots, 2 generations, 2 producers, 1 job; either flush may fail | `NoFalseRingFull`: `RingFull` is answered only if no slot stayed free during the scan, also when a failed header flush has lost the other slot |
| `ring_liveness` | 1 slot, 2 generations, fair | `PublishedIsRetired`, `ClaimReturns` |
| `ring_control_flush` | 1 producer, 1 slot, the header flush may fail | violation of `AbandonedUnpublished` |
| `ring_double_retire` | 2 retirers | violation of `SequenceSteps` |
| `ring_visibility` | the second of 2 slots, a header line and 2 lines of payload, 4 sizes, 2 generations, any older header in memory | `HeaderArrives`, `SequenceNeverAheadOfData`, the inductive `VisibilityInvariant`, and that the slot implements `SharedSlot` |
| `mass_store` | 2 writers, 1 reader, 3 IDs, 2 crashes | `AckedIsDurable`, `AcceptedReadsSucceed`, `PublishedObjectsStay`, the inductive `StoreInvariant`, and that the store implements `ImmutableStore` |
| `mass_directories` | directories not durable | violation of `AckedIsDurable` |
| `runtime_assets` | 2 owners, 1 reader, 2 names, assets of 0, 1 and 2 chunks | `GetIsOneVersion`, the inductive `AssetsInvariant`, and that owners implement `AssetMap` |
| `gltf_store` | 2 assets, 2 documents, 2 revisions, 2 derivers with 3 artefacts for one name | `BlobsAreExact`, `ReferencesResolve`, `LatestIsLast`, `EveryRecordTracked`, `DecisionsStay`, `AnswersAreTrue`, `RevisionsStay`, the inductive `GltfInvariant`, and that derived artefacts implement `ImmutableStore` |
| `glb_library` | 2 writers, 1 reader, 3 GLBs (one without BIN), 6 spellings of 2 asset IDs | `PartsAgree`, `ReadsAgree`, `SpellingsFindAssets` |
| `input_routing` | 6 tables of routes, one keyboard in 2 combos, fair | `KeysComeFromFocus`, `LooksComeFromFocus`, `RoutesAreSteady`, `InputSettles` |

The inductive invariants contain the type invariants of their modules, and the
properties a state must have to be read at all (`RecordsHavePayloads`,
`StagingNameFree`, `RowsAreWhole`, `GetSucceeds`): these are proved from them
(section 4) and not checked a second time. `LibraryInvariant` and
`RoutingInvariant` hold on their instances too and are left to the proofs.

### Bounds

- `MaxU64` stands for `u64::MAX`. In the ring 5 gives generations 0, 1, 2 and
  the overflow at the end of the last; a stale handle or sequence then has one
  generation to be behind and one to be overtaken by. In the store 4 gives three
  IDs and their exhaustion, and every sum of a read range from 0 to overflow.
- `HintRange` stands for 2^64; the runs keep it a multiple of `SlotCount`, as it
  is for ring sizes that are powers of two. For other sizes `start + n` wraps in
  the middle of a scan, after 2^64 acquisitions; that case is listed as a hazard,
  and `HintWrapsEvenly` is the hypothesis of `FullMeansFull` that leaves it out.
- `MaxJobs` bounds the submissions: one per generation of the slot, and in the
  scan run one, so that one slot comes back while both producers scan.
- `MaxCrashes` 2: a crash during work on the debris of an earlier one.
- `MaxLength` 3 with `ChunkBytes` 2: no chunk, one full chunk, and a full chunk
  with a short one after it: both sides of the boundary that `div_ceil` and the
  length check are about, and the lengths at which a replacement must trim.
- `MaxRevision` 2: a revision, old or new, and one after it, of the same asset or
  another. `MaxDecisions` 1: a decision, and everything that might write over it.
  The three artefacts differ from each other in the second chunk only or in the
  provenance only; one document has a camera, the other a two-chunk source, an
  empty buffer and a part of no record. One verdict is one `set_tracking` refuses.
- `LineBytes` 2 with a stride of 6: a payload of two lines, of which the sizes 0, 1,
  3 and 4 cover none, half a line, a line and a half, and all. `Word` only has to
  be larger than the mapping. `MaxGeneration` 1: a publication, and one after it
  over what the first one, the cache and the GPU have left.
- The tables of `input_routing` share cursors and combos, list two focused pointers
  in both orders, an ineligible one of the same cursor, one without a keyboard and
  none at all; the camera goes between any two of them. `MaxEvents` 1: one event
  may be as late as it likes.
- The spellings of `glb_library` are one ID spelt three ways, one whose blank survives
  between slashes, and two that are refused. Every ID they make is looked up between
  slashes; the one with the blank is the one that another normalising changes.
- Symmetry sets are used in safety runs only, over threads, owners and names
  that the specifications treat alike.
- `CHECK_DEADLOCK FALSE`: all systems here may stop. A ring stops at its last
  generation, a store when its IDs are used up, and bounded runs at the bounds.

### Fairness

`ring_liveness` and `input_routing` assume some (`FairSpec`). In the ring, threads
finish calls they have begun (weak fairness on each): no call blocks on another, so this is only that
the scheduler runs every thread. Executors go on opening published slots, and
the GPU completes submitted work. The retirer polls each slot again and again
(strong fairness for each slot): `retire` answers an error while a slot is not
ready and leaves the retry to its caller, so nothing comes back unless the caller
keeps trying. Producers need not start another scan.

In `input_routing` the application calls `step_ui4` every frame (weak fairness), and
the question for the keyboard is answered again and again, though it may fail in
between (strong fairness). UI4 owes nothing: `InputSettles` speaks only of
behaviours in which the routes and the focused keyboard stop changing.

### Findings

- *Header flush* (`cubism.rs:475`). `publish` stores the odd sequence and then
  flushes the header. If that flush fails, the `CpuSlot` is dropped as
  unpublished, and clears the header of a slot executors can already see. The slot
  is then odd with debug state `Free`, and no call brings it back. If an executor
  marks it before the drop, and it is retired and claimed before the drop's last
  store, that store frees it under its new holder.
- *Overlapping retires* (`cubism.rs:338`). Nothing claims a generation for
  retirement; a late second retire sets a newer sequence back.
- *Copied handles* (`cubism.rs:566`). `mark_in_flight` checks the generation and
  exchanges the debug state in two steps; a second mark of the same handle can
  stamp the next generation with an old timeline point. With `SubmitOnce = FALSE`
  and two executors TLC finds `TimelineBelongsToGeneration` violated so; no run
  of this directory repeats that.
- *Fresh directories* (`nosql.rs:90`). The directories are never synced into
  their parent, which durability of a `put` would need on hosts that do not do it.
- *Empty images* (`runtime_assets.rs:239`). The image of an owner into which
  nothing was ever put is refused by `from_image`, which needs tables that only the
  first put creates (`Opened`), though lines 70-71 promise an image that another
  owner can open. Described here only.

The three findings on the ring are also why most of its other properties are stated
for a disciplined caller: one retirer at a time, one submission of each handle, and a
header flush that cannot fail. Section 4 says which of the three each theorem needs.

## 4. Proofs

TLAPS checks the following for every value of the constants, from the named
assumptions in the modules (sizes are naturals, `u64::MAX` is odd, contents are
sequences of bytes within the bound).

**ExecRingProofs.** `Typed` holds for any ring. The theorems about the GPU's side
assume `Disciplined` (one retirer, `"control"` not among the failing operations,
`SubmitOnce`). `RingIsInductive` proves `RingInvariant`:
`GuardsHold` (a producer past the claim has the slot to itself, free, at the
sequence it took), `PublishedStates`, `HandlesHold`, `TargetsHold`,
`TimelinesHold` and `WorkHolds` (unfinished GPU work is stamped on its slot or
in the hands of the executor that will stamp it). The safety properties alone
are not inductive: that `retire` cannot free a running slot rests on the
timeline word being 0 or that of this very generation, which rests on the guards.
From it follow `GpuKeepsRunningSlots`, `TimelinesAreTrue`, `MarkSucceeds`, and the
step property `PublishedStays`. Each role's steps are proved once against a frame
lemma that says what the other roles' conjuncts depend on.

Mutual exclusion needs less. `PublishedSlot` is `Copy`, and nothing keeps a caller
from submitting and marking it twice; then a late `mark_in_flight` stamps slots of a
later generation and takes a slot sealed but not yet published for its own. `Serial`
is `Disciplined` without `SubmitOnce`, and `WriterInvariant` what remains true: it
says nothing of timelines, and allows a slot about to be published to be `GpuInFlight`
already. `TurnsAreKept` proves it, and from it follow `OneWriterPerSlot`
(`SingleWriter`), `SequencesOnlyStep` (`SequenceSteps`) and
`AbandonedStaysUnpublished`, the comment that `ring_control_flush` refutes for rings
whose control flush may fail. Both hypotheses are needed: with two retirers, or with
control flushes that fail, TLC finds two producers holding one slot for writing, because a late
store of the guard frees it under its new holder. TLC has checked the invariant on the instance of
`ring_slot` with `SubmitOnce = FALSE`; no run of this directory repeats these.

Two results need a little more than `RingInvariant`. `NothingIsLost` (`NoSlotLost`)
also needs `JobsBehind`: no job is of a generation its slot has yet to reach, so a
slot just published has no job and its handle can still be opened. `RingRefines`
(`RefinesOwnership`) also needs `JobsOnce`, which is what `SubmitOnce` gives: the
rechecked claim takes a slot, the store of the odd sequence hands it over, the
submission starts it, the GPU's completion finishes it, the store of the even
sequence in `retire` reclaims it, and every other step is a stutter.

`FullMeansFull` (`NoFalseRingFull`) does without `Disciplined`: it holds however
often handles are submitted, however many threads retire and whichever flush fails,
and assumes only `HintWrapsEvenly`. Its invariant `ScanHolds` keeps the scan's
history: every slot that has stayed free since the scan began is still to be
probed. It starts from the lemma `EverySlotIsMet`, modular arithmetic that says that
`SlotCount` probes from any hint reach every slot. The hypothesis is exact:
`ScansMeetEverySlot` proves that for any other number of slots, one that does not
divide the hint's range, the scan that begins just before the hint wraps around
misses the last slot (`LastSlotIsMissed`).

**MassStoreProofs.** `StoreIsInductive` proves `StoreInvariant` on any host: IDs not
handed out have left no trace, each writer has its ID to itself, its file is as far
as the writer is, and published payloads are on disk with their entry settled, or
gone with the directories in a crash (`Gone`), which a durable host excludes. It
has to speak about what is on disk, not only about what programs see, for the
crash step to preserve it. `WriterFrame` reduces each writer step to what it
does to its own ID.

With `DirectoriesDurable` follow `RecordsAreWhole`, `AckedStays`, `ReadsSucceed`,
`ObjectsAreImmutable`, and `StoreRefines`: the commit of a record publishes, every
other step is a stutter. `mass_directories` shows that the hypothesis is needed, and
these theorems say what is left without it: `StagingIsFree`; `NeverTorn` (an object is
whole or gone, never in part); `ReadsNeverWrong` (a read let through finds its whole
range, or no file); `AckedStaysUntilCrash`; and `LossIsTotal` (objects go only in a
crash, all at once, only while the fresh directories are not on disk, and no other
object ever takes their place). TLC has checked these on the instance of `mass_store`
without `DirectoriesDurable`; no run of this directory repeats that.

**ChunksProofs.** Lemmas, for any chunk size: which bytes chunk i holds and when
it is counted (`Counted`, `ChunkIs`), that what is written is a whole row
(`OverwrittenIsWhole`) and reads back as it was (`OverwrittenContent`).

**RuntimeAssetsProofs.** No hypothesis. `InsertedIsWhole` and `RemovedIsWhole`
are the heart: over any row whose chunks are the ones its length counts, a put
or remove leaves such a row. `AssetsAreInductive` adds that a get has copied a
prefix of the row it began with, in full chunks. From it follow `RowsStayWhole`,
`GetsSucceed`, `GetsAreExact`, and `OwnersAreMaps`, the refinement of
`AssetMap`, with `InsertedContent` (what is stored is what is read back).

**GltfStoreProofs.** No hypothesis. `GltfIsInductive` proves `GltfInvariant`, which
says what the tables hold rather than what they must not: each revision below
`next_revision` exactly the records and chunks its document was normalized to,
with the kinds of its day (`RevisionHolds`), those above it nothing; each asset
the last of its revisions; each derived entry the chunks of one artefact, and
each thread in `put_derived` an answer that agrees with it. The properties alone
are not inductive: an import leaves old revisions alone only because the number
it takes has left no trace, and a conflict is final only because two artefacts
with the same record and chunks are the same (`DerivationsDiffer`, from
`OverwrittenContent`). From it follow `ReferencesAlwaysResolve`, `LatestAlwaysLast`,
`RecordsAlwaysTracked`, `DecisionsAlwaysStay`, `RevisionsAlwaysStay`,
`AnswersAlwaysTrue`, and `DerivedImmutable`: a publication is a `Publish`, every
other step, imports included, a stutter.

`BlobsAlwaysExact` is about a recursive function: `Blob` appends chunk after chunk
until one is missing. The provers cannot instantiate the library's induction
theorems, so the proof does without. It writes the value down in closed form
(`Prefix(bytes, i)`, the bytes of the first i chunks, `PrefixGrows`): that this
function satisfies the recursion shows that the function `Blob` chooses does so too
(`PrefixesJoin`), and no other does (`JoinsOnce`): where two first differ, at the
least such index (`LeastOfSome`), the recursion makes them equal.

**GlbLibraryProofs.** No hypothesis. `LibraryIsInductive` proves `LibraryInvariant`:
the writer inside the transaction has changed the rows of its own asset and of no
other, in the order of the calls, over the rows committed last (`DraftsHold`); and
a reader whose asset was not replaced has what it would load now (`ReadersHold`).
That keys of different assets or parts never coincide is a lemma on sequences.
From it follow `PartsAlwaysAgree` and `ReadsAlwaysAgree`. `SpellingsAlwaysFind` rests
on lemmas about trimming: what `Trim` leaves is the part between the first and the
last element kept (`TrimIs`), it leaves nothing of what has none
(`TrimOfAll`), it trims no more the second time (`TrimmedEnds`, `NothingToTrim`), and
what is trimmed may be put around it again (`SurroundedTrims`), and trimming shortens
exactly what has an end to trim (`TrimShortens`). It holds for every ID: between slashes
it finds its rows, and it normalises to itself exactly when it has no blank at its ends,
so an ID with one, as `ImportStats` may return it, names another asset or none.
`InspectionIsAlwaysCheap` is arithmetic over `GlbMetadata`, for every header and file size.

**InputRoutingProofs.** No hypothesis beyond what UI4 answers (`RoutingAssumption`).
`RoutingAlwaysHolds` proves the invariant; what carries it is that the first route
with the identity chosen is the one that was chosen (`KeysOf` looks it up again).
From it follow `KeysAlwaysFromFocus`, `LooksAlwaysFromFocus` and the step property
`RoutesAlwaysSteady`. `InputSettles` is liveness and stays with TLC.

**RingVisibilityProofs.** From `LayoutAssumption` alone, `SlotsAlwaysStayApart`: in
every mapping `from_raw_parts` accepts, products do not wrap, slots are disjoint
down to the cache line, and each header has a line of its own.
`VisibilityIsInductive` proves `VisibilityInvariant` for any layout, sizes and
number of generations. The promises alone are not inductive: that a late eviction
cannot undo a publication, or overwrite what the GPU has written, rests on which
lines may be dirty in which phase (`PayloadClean`) and on what a clean line may
hold (`CacheClear`), and both on the lines of header and payload being different
(`LinesOfTheSlot`, from the layout). There is one lemma per action. From the
invariant follow `HeaderAlwaysArrives`, `SequenceNeverAhead`, and
`RingImplementsSharedSlot`: `PayloadMut` and `GpuWrites` are writes of the slot's
owner, `Seal` hands it over, `Free` takes it back, and every other step,
those of the cache included, is a stutter.

Only model-checked: liveness (`PublishedIsRetired`, `ClaimReturns`, `InputSettles`),
because fairness and `ENABLED` are outside what TLAPS can reason about. Every invariant
and step property that a run checks is stated by a theorem.

## 5. Not modelled, and the plan

Not modelled: floating-point camera motion, matrices and transform checks; error
wording and logging; labels and record encoding; redb, gltf parsing, UI4, the file
system and the GPU beyond what their callers rely on; the RAM backend of
`runtime_assets.rs` below redb's transactions; `core.rs` and `grid.rs`, which are
data types and a constant array without any step or algorithm to state a property
of. In a fork taken during a commit the model relies on redb opening a copy at its
last commit.

Every part with state or control of its own has a module, and every safety property of
the runs a theorem. What is left to ask is what of the GPU's side survives copied
handles: `RingInvariant` needs `SubmitOnce` as a whole, `WriterInvariant` says nothing
of timelines, and between the two there may be a weaker promise about work marked once.
