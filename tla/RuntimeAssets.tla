--------------------------- MODULE RuntimeAssets ----------------------------
(***************************************************************************)
(* The runtime asset owners of runtime_assets.rs: Picasso values, each     *)
(* with a private redb database in RAM that keeps an asset as a length and *)
(* a run of chunks.  Owners are created, forked, closed into images and    *)
(* opened from images; threads put, remove and get through them.           *)
(*                                                                         *)
(* A write transaction is one step: redb admits one at a time, and one     *)
(* that fails or is dropped leaves nothing.  A read transaction sees the   *)
(* database as it was when it began, and is read chunk by chunk.           *)
(***************************************************************************)
EXTENDS Chunks

CONSTANTS
  Owners, Readers, Names,
  Contents           \* the byte strings put

ASSUME AssetsAssumption == Contents \subseteq ByteStrings

NoRead == <<>>

\* A database has a row for every name; its two tables exist once a write
\* transaction that opened them has been committed.
Databases == [tables : BOOLEAN, rows : [Names -> Rows]]

EmptyDatabase == [tables |-> FALSE, rows |-> [n \in Names |-> EmptyRow]]

VARIABLES
  state,     \* whether an owner is gone, writable or read_only
  db,        \* each owner's database
  image,     \* the bytes of the last image taken,
  taken,     \* if there is one
  reading,   \* get: the owner it borrows and the name it asks for
  row,       \* get: what its read transaction sees under the name
  got,       \* get: the bytes copied so far
  asked      \* history: what the owner held under the name when get began

owners == <<state, db, image, taken>>
readers == <<reading, row, got, asked>>
vars == <<owners, readers>>

TypeOK ==
  /\ state \in [Owners -> {"closed", "writable", "readonly"}]
  /\ db \in [Owners -> Databases]
  /\ image \in Databases
  /\ taken \in BOOLEAN
  /\ reading \in [Readers -> (Owners \X Names) \cup {NoRead}]
  /\ row \in [Readers -> Rows]
  /\ got \in [Readers -> Seq(Bytes)]
  /\ DOMAIN asked = Readers

Init ==
  /\ state = [o \in Owners |-> "closed"]
  /\ db = [o \in Owners |-> EmptyDatabase]
  /\ image = EmptyDatabase
  /\ taken = FALSE
  /\ reading = [t \in Readers |-> NoRead]
  /\ row = [t \in Readers |-> EmptyRow]
  /\ got = [t \in Readers |-> <<>>]
  /\ asked = [t \in Readers |-> NoContent]

(* --- put_embedded_asset, remove_embedded_asset ------------------------- *)

\* Variants: the tail of a longer predecessor stays, or chunks already there stay.
InsertedOver(r, bytes) ==
  Written(r.chunks, bytes, 0)
InsertedBeside(r, bytes) ==
  [length |-> Len(bytes),
   chunks |-> [i \in Indexes |-> IF r.chunks[i] # NoChunk THEN r.chunks[i]
                                 ELSE Overwritten(r.chunks, bytes, ChunkCount(r.length))[i]]]

\* insert: every chunk the previous length counts is overwritten or removed.
Inserted(r, bytes) ==
  Written(r.chunks, bytes, ChunkCount(r.length))

\* remove: the length record and every chunk it counts.
Removed(r) ==
  [length |-> NoLength,
   chunks |-> [i \in Indexes |-> IF i < ChunkCount(r.length) THEN NoChunk ELSE r.chunks[i]]]

\* A committed transaction leaves both tables behind, whatever it did to them.
Commit(o, n, r) ==
  db' = [db EXCEPT ![o] = [tables |-> TRUE, rows |-> [@.rows EXCEPT ![n] = r]]]

Put(o, n, bytes) ==
  /\ state[o] = "writable"
  /\ Commit(o, n, Inserted(db[o].rows[n], bytes))
  /\ UNCHANGED <<state, image, taken, readers>>

Remove(o, n) ==
  /\ state[o] = "writable"
  /\ Commit(o, n, Removed(db[o].rows[n]))
  /\ UNCHANGED <<state, image, taken, readers>>

(* --- embedded_asset ---------------------------------------------------- *)

\* A name with no length record is answered None at once.
GetBegin(t, o, n) ==
  /\ reading[t] = NoRead
  /\ state[o] # "closed"
  /\ db[o].rows[n].length # NoLength
  /\ reading' = [reading EXCEPT ![t] = <<o, n>>]
  /\ row' = [row EXCEPT ![t] = db[o].rows[n]]
  /\ asked' = [asked EXCEPT ![t] = Content(db[o].rows[n])]
  /\ UNCHANGED <<owners, got>>

\* Variant: each chunk is read in a transaction of its own.
SeenAnew(t) == db[reading[t][1]].rows[reading[t][2]]

\* The tables as the read transaction sees them.
Seen(t) == row[t]

\* The next chunk, and the length the loop insists on.
NextChunk(t) == Seen(t).chunks[Len(got[t]) \div ChunkBytes]
Expected(t) == AtMost(row[t].length - Len(got[t]), ChunkBytes)
More(t) == Len(got[t]) < row[t].length

GetChunk(t) ==
  /\ reading[t] # NoRead
  /\ More(t)
  /\ Len(NextChunk(t)) = Expected(t)
  /\ got' = [got EXCEPT ![t] = @ \o NextChunk(t)]
  /\ UNCHANGED <<owners, reading, row, asked>>

\* get returns: all the bytes, or an error at a chunk that is missing or of the
\* wrong length.
GetReturns(t) ==
  /\ reading[t] # NoRead
  /\ More(t) => Len(NextChunk(t)) # Expected(t)
  /\ reading' = [reading EXCEPT ![t] = NoRead]
  /\ row' = [row EXCEPT ![t] = EmptyRow]
  /\ got' = [got EXCEPT ![t] = <<>>]
  /\ asked' = [asked EXCEPT ![t] = NoContent]
  /\ UNCHANGED owners

(* --- owners ------------------------------------------------------------ *)

Opened(o, how, d) ==
  /\ state[o] = "closed"
  /\ state' = [state EXCEPT ![o] = how]
  /\ db' = [db EXCEPT ![o] = d]
  /\ UNCHANGED <<image, taken, readers>>

New(o) == Opened(o, "writable", EmptyDatabase)

\* The RAM image is copied under whatever transaction is under way: redb opens the
\* copy at its last commit.
Fork(o, p) ==
  /\ state[p] # "closed"
  /\ Opened(o, "writable", db[p])

\* from_image insists on both tables.
FromImage(o) ==
  /\ taken
  /\ image.tables
  /\ Opened(o, "readonly", image)

\* An owner is dropped, or consumed by into_image, which drops a read-only owner
\* and refuses; nobody borrows it then.
NotBorrowed(o) == \A t \in Readers : reading[t] # NoRead => reading[t][1] # o

Closed(o) ==
  /\ state[o] # "closed"
  /\ NotBorrowed(o)
  /\ state' = [state EXCEPT ![o] = "closed"]
  /\ db' = [db EXCEPT ![o] = EmptyDatabase]
  /\ UNCHANGED readers

Drop(o) == Closed(o) /\ UNCHANGED <<image, taken>>

IntoImage(o) ==
  /\ state[o] = "writable"
  /\ Closed(o)
  /\ image' = db[o]
  /\ taken' = TRUE

OwnerStep(o) ==
  \/ New(o) \/ FromImage(o) \/ Drop(o) \/ IntoImage(o)
  \/ \E p \in Owners : Fork(o, p)
  \/ \E n \in Names : Remove(o, n)
  \/ \E n \in Names, bytes \in Contents : Put(o, n, bytes)

ReaderStep(t) ==
  \/ \E o \in Owners, n \in Names : GetBegin(t, o, n)
  \/ GetChunk(t) \/ GetReturns(t)

Next ==
  \/ \E o \in Owners : OwnerStep(o)
  \/ \E t \in Readers : ReaderStep(t)

Spec == Init /\ [][Next]_vars

(* --- what must hold ---------------------------------------------------- *)

\* No put, replacement or removal leaves a chunk behind or out.
RowsAreWhole ==
  /\ \A n \in Names : WholeRow(image.rows[n])
  /\ \A o \in Owners, n \in Names : WholeRow(db[o].rows[n])

\* get never fails for a missing or odd chunk, whatever is put meanwhile.
GetSucceeds ==
  \A t \in Readers : reading[t] # NoRead /\ More(t) => Len(NextChunk(t)) = Expected(t)

\* "Returns an owned copy of the exact bytes stored under `name`": what get has
\* copied is a prefix of what was stored when it began, never of a replacement.
GetIsOneVersion ==
  \A t \in Readers : reading[t] # NoRead =>
    \A k \in 1 .. Len(got[t]) : k \in DOMAIN asked[t] /\ got[t][k] = asked[t][k]

\* "Re-inserting a name atomically replaces that asset while leaving all other
\* assets intact"; forks and images are exact and independent copies.
Map(d) == [n \in Names |-> Content(d.rows[n])]
assets == [o \in Owners |-> Map(db[o])]
shipped == Map(image)
Assets == INSTANCE AssetMap WITH assets <- assets, image <- shipped
RefinesAssetMap == Assets!Spec

(* --- the inductive invariant ------------------------------------------- *)

\* A get under way has a whole row, and has copied some of its chunks, in full.
ReaderHolds(t) ==
  /\ WholeRow(row[t]) /\ row[t].length # NoLength
  /\ asked[t] = Content(row[t])
  /\ Len(got[t]) <= row[t].length
  /\ Len(got[t]) % ChunkBytes = 0 \/ Len(got[t]) = row[t].length
  /\ \A k \in 1 .. Len(got[t]) : got[t][k] = Content(row[t])[k]
ReadersHold ==
  \A t \in Readers : IF reading[t] = NoRead THEN got[t] = <<>> ELSE ReaderHolds(t)

AssetsInvariant == TypeOK /\ RowsAreWhole /\ ReadersHold
=============================================================================
