----------------------------- MODULE MassStore ------------------------------
(***************************************************************************)
(* The MASS object store of nosql.rs: a catalog of records in redb, and    *)
(* payloads as files that are staged, synced, renamed and only then named  *)
(* by a record.  Writers and readers run concurrently; every step of a put *)
(* may fail, and the host may crash between any two steps.                 *)
(*                                                                         *)
(* Of a payload only its length is kept: each ID has one writer, so bytes  *)
(* can be missing but never anybody else's.  A transaction of the catalog  *)
(* is one step, and durable when it has committed, which is redb's promise.*)
(***************************************************************************)
EXTENDS Integers

CONSTANTS
  Writers, Readers,
  MaxU64,        \* u64::MAX: where ID and range arithmetic overflow
  MaxLength,     \* the longest payload put
  MaxCrashes,    \* bound on the crashes explored
  DirectoriesDurable  \* the host makes a new directory durable by itself

ASSUME StoreAssumption ==
  /\ MaxU64 \in Nat /\ MaxU64 > 1
  /\ MaxLength \in 0 .. MaxU64
  /\ MaxCrashes \in Nat
  /\ DirectoriesDurable \in BOOLEAN

Ids == 1 .. MaxU64 - 1
Lengths == 0 .. MaxLength
NoRecord == -1
Places == {"absent", "staging", "objects"}

VARIABLES
  next_object,   \* META: the next ID to hand out
  records,       \* OBJECTS: the length each record states, or NoRecord
  place, size,   \* the payload files as programs see them: where, how long
  synced,        \* whether a file's bytes are on disk
  entries,       \* the places a crash may leave each file in
  directories,   \* whether the two directories themselves are on disk
  wpc, id, length,                \* put
  rpc, wanted, offset, count,     \* read_range
  acked,         \* history: the IDs put has returned
  crashes

catalog == <<next_object, records>>
files == <<place, size, synced, entries, directories>>
writers == <<wpc, id, length>>
readers == <<rpc, wanted, offset, count>>
vars == <<catalog, files, writers, readers, acked, crashes>>

WriterPcs == {"idle", "create", "write", "sync", "rename", "syncdir", "record", "return"}

TypeOK ==
  /\ next_object \in 1 .. MaxU64
  /\ records \in [Ids -> Lengths \cup {NoRecord}]
  /\ place \in [Ids -> Places]
  /\ size \in [Ids -> Lengths]
  /\ synced \in [Ids -> BOOLEAN]
  /\ entries \in [Ids -> SUBSET Places]
  /\ directories \in BOOLEAN
  /\ wpc \in [Writers -> WriterPcs]
  /\ id \in [Writers -> Ids]
  /\ length \in [Writers -> Lengths]
  /\ rpc \in [Readers -> {"idle", "open"}]
  /\ wanted \in [Readers -> Ids]
  /\ offset \in [Readers -> 0 .. MaxU64]
  /\ count \in [Readers -> 0 .. MaxU64]
  /\ acked \subseteq Ids
  /\ crashes \in 0 .. MaxCrashes

Init ==
  /\ next_object = 1
  /\ records = [i \in Ids |-> NoRecord]
  /\ place = [i \in Ids |-> "absent"]
  /\ size = [i \in Ids |-> 0]
  /\ synced = [i \in Ids |-> FALSE]
  /\ entries = [i \in Ids |-> {"absent"}]
  /\ directories = DirectoriesDurable
  /\ wpc = [w \in Writers |-> "idle"]
  /\ id = [w \in Writers |-> 1]
  /\ length = [w \in Writers |-> 0]
  /\ rpc = [r \in Readers |-> "idle"]
  /\ wanted = [r \in Readers |-> 1]
  /\ offset = [r \in Readers |-> 0]
  /\ count = [r \in Readers |-> 0]
  /\ acked = {}
  /\ crashes = 0

(* --- put --------------------------------------------------------------- *)

WriterGoes(w, label) == wpc' = [wpc EXCEPT ![w] = label]
WriterDone(w) ==
  /\ WriterGoes(w, "idle")
  /\ id' = [id EXCEPT ![w] = 1]
  /\ length' = [length EXCEPT ![w] = 0]

\* Variant: the next ID is not stored.
ReserveForgets(w, n) ==
  /\ wpc[w] = "idle"
  /\ id' = [id EXCEPT ![w] = next_object]
  /\ length' = [length EXCEPT ![w] = n]
  /\ WriterGoes(w, "create")
  /\ UNCHANGED <<catalog, files, acked>>

\* reserve_id: a transaction of its own, so that the ID is used up from here on.
Reserve(w, n) ==
  /\ wpc[w] = "idle"
  /\ next_object + 1 <= MaxU64
  /\ next_object' = next_object + 1
  /\ id' = [id EXCEPT ![w] = next_object]
  /\ length' = [length EXCEPT ![w] = n]
  /\ WriterGoes(w, "create")
  /\ UNCHANGED <<records, files, acked>>

CreateStaging(w) ==
  /\ wpc[w] = "create"
  /\ place[id[w]] # "staging"
  /\ place' = [place EXCEPT ![id[w]] = "staging"]
  /\ size' = [size EXCEPT ![id[w]] = 0]
  /\ synced' = [synced EXCEPT ![id[w]] = FALSE]
  /\ entries' = [entries EXCEPT ![id[w]] = @ \cup {"staging"}]
  /\ WriterGoes(w, "write")
  /\ UNCHANGED <<catalog, directories, id, length, acked>>

WriteAll(w) ==
  /\ wpc[w] = "write"
  /\ size' = [size EXCEPT ![id[w]] = length[w]]
  /\ WriterGoes(w, "sync")
  /\ UNCHANGED <<catalog, place, synced, entries, directories, id, length, acked>>

\* Variant: the file is renamed unsynced.
SyncAllSkipped(w) ==
  /\ wpc[w] = "sync"
  /\ WriterGoes(w, "rename")
  /\ UNCHANGED <<catalog, files, id, length, acked>>

SyncAll(w) ==
  /\ wpc[w] = "sync"
  /\ synced' = [synced EXCEPT ![id[w]] = TRUE]
  /\ WriterGoes(w, "rename")
  /\ UNCHANGED <<catalog, place, size, entries, directories, id, length, acked>>

Rename(w) ==
  /\ wpc[w] = "rename"
  /\ place' = [place EXCEPT ![id[w]] = "objects"]
  /\ entries' = [entries EXCEPT ![id[w]] = @ \cup {"objects"}]
  /\ WriterGoes(w, "syncdir")
  /\ UNCHANGED <<catalog, size, synced, directories, id, length, acked>>

\* Variant: the record follows the rename at once.
SyncDirectorySkipped(w) ==
  /\ wpc[w] = "syncdir"
  /\ WriterGoes(w, "record")
  /\ UNCHANGED <<catalog, files, id, length, acked>>

\* Syncing the directory settles every file renamed into it so far.
SyncDirectory(w) ==
  /\ wpc[w] = "syncdir"
  /\ entries' = [i \in Ids |-> IF place[i] = "objects" THEN {"objects"} ELSE entries[i]]
  /\ WriterGoes(w, "record")
  /\ UNCHANGED <<catalog, place, size, synced, directories, id, length, acked>>

CommitRecord(w) ==
  /\ wpc[w] = "record"
  /\ records' = [records EXCEPT ![id[w]] = length[w]]
  /\ WriterGoes(w, "return")
  /\ UNCHANGED <<next_object, files, id, length, acked>>

Return(w) ==
  /\ wpc[w] = "return"
  /\ acked' = acked \cup {id[w]}
  /\ WriterDone(w)
  /\ UNCHANGED <<catalog, files>>

\* Any step may fail instead; put returns the error and cleans nothing up.  A
\* failing write_all leaves some of the bytes.
PutFails(w) ==
  /\ wpc[w] \in WriterPcs \ {"idle", "return"}
  /\ \/ UNCHANGED size
     \/ /\ wpc[w] = "write"
        /\ \E n \in 0 .. length[w] : size' = [size EXCEPT ![id[w]] = n]
  /\ WriterDone(w)
  /\ UNCHANGED <<catalog, place, synced, entries, directories, acked>>

(* --- info, read, read_range -------------------------------------------- *)

\* Variant: the sum wraps around.
InRangeWraps(o, n, recorded) == (o + n) % (MaxU64 + 1) <= recorded

\* The end of the range is a checked sum, and must lie within the record.
InRange(o, n, recorded) == o + n <= MaxU64 /\ o + n <= recorded

\* read_range checks the range against the record, in a read transaction, and
\* then opens the file; read asks for the range of the whole record.
ReadInfo(r, i, o, n) ==
  /\ rpc[r] = "idle"
  /\ records[i] # NoRecord
  /\ InRange(o, n, records[i])
  /\ rpc' = [rpc EXCEPT ![r] = "open"]
  /\ wanted' = [wanted EXCEPT ![r] = i]
  /\ offset' = [offset EXCEPT ![r] = o]
  /\ count' = [count EXCEPT ![r] = n]

ReadExact(r) ==
  /\ rpc[r] = "open"
  /\ rpc' = [rpc EXCEPT ![r] = "idle"]
  /\ wanted' = [wanted EXCEPT ![r] = 1]
  /\ offset' = [offset EXCEPT ![r] = 0]
  /\ count' = [count EXCEPT ![r] = 0]

(* --- crash and reopening ----------------------------------------------- *)

\* A file comes back in one of the places its entry may have reached, with bytes
\* missing if they were never synced.  What is found then is on disk.
Recover(i) ==
  /\ place'[i] \in entries[i]
  /\ size'[i] \in IF synced[i] THEN {size[i]} ELSE 0 .. size[i]

\* The catalog survives as committed.  Directories that open created and nobody
\* synced may be gone, and every file with them: open creates them anew.
Crash ==
  /\ crashes < MaxCrashes
  /\ crashes' = crashes + 1
  /\ place' \in [Ids -> Places]
  /\ size' \in [Ids -> Lengths]
  /\ \/ /\ \A i \in Ids : Recover(i)
        /\ directories' = TRUE
     \/ /\ ~directories
        /\ \A i \in Ids : place'[i] = "absent" /\ size'[i] = 0
        /\ directories' = DirectoriesDurable
  /\ entries' = [i \in Ids |-> {place'[i]}]
  /\ synced' = [i \in Ids |-> TRUE]
  /\ wpc' = [w \in Writers |-> "idle"]
  /\ id' = [w \in Writers |-> 1]
  /\ length' = [w \in Writers |-> 0]
  /\ rpc' = [r \in Readers |-> "idle"]
  /\ wanted' = [r \in Readers |-> 1]
  /\ offset' = [r \in Readers |-> 0]
  /\ count' = [r \in Readers |-> 0]
  /\ UNCHANGED <<catalog, acked>>

WriterStep(w) ==
  /\ \/ \E n \in Lengths : Reserve(w, n)
     \/ CreateStaging(w) \/ WriteAll(w) \/ SyncAll(w) \/ Rename(w)
     \/ SyncDirectory(w) \/ CommitRecord(w) \/ Return(w) \/ PutFails(w)
  /\ UNCHANGED <<readers, crashes>>

ReaderStep(r) ==
  /\ \/ \E i \in Ids, o \in 0 .. MaxU64, n \in 0 .. MaxU64 : ReadInfo(r, i, o, n)
     \/ ReadExact(r)
  /\ UNCHANGED <<catalog, files, writers, acked, crashes>>

Next ==
  \/ \E w \in Writers : WriterStep(w)
  \/ \E r \in Readers : ReaderStep(r)
  \/ Crash

Spec == Init /\ [][Next]_vars

(* --- what must hold ---------------------------------------------------- *)

Published == {i \in Ids : records[i] # NoRecord}

\* A record in the catalog names a file that is there, whole, in the objects
\* directory, in every state a crash can leave behind: put never commits a record
\* ahead of its payload.
RecordsHavePayloads ==
  \A i \in Published : place[i] = "objects" /\ size[i] = records[i]

\* "Durably publishes one immutable payload and returns its stable ID": an ID put
\* has returned is in the catalog with its whole payload, crashes or not.
AckedIsDurable ==
  \A i \in acked : i \in Published /\ place[i] = "objects" /\ size[i] = records[i]

\* The staging file create_new asks for is never there yet: IDs are used up by
\* puts that failed or crashed, so no debris of theirs stands in the way.
StagingNameFree ==
  \A w \in Writers : wpc[w] = "create" => place[id[w]] = "absent"

\* A read whose range was accepted finds the file, and all the bytes it wants.
AcceptedReadsSucceed ==
  \A r \in Readers : rpc[r] = "open" =>
    place[wanted[r]] = "objects" /\ offset[r] + count[r] <= size[wanted[r]]

\* "Published objects are immutable": neither the record nor the file of a
\* published object ever changes, whatever later puts and crashes do.
PublishedObjectsStay ==
  [][\A i \in Published : records'[i] = records[i] /\ place'[i] = place[i]
                            /\ size'[i] = size[i]]_vars

\* On a host that may lose the directories, a published object is whole or gone, file
\* and all: what a read was let through for it gets, or it finds no file.
Whole(i) == place[i] = "objects" /\ size[i] = records[i]
WholeOrGone == \A i \in Published : Whole(i) \/ place[i] = "absent"
ReadsAreExact ==
  \A r \in Readers : rpc[r] = "open" =>
    \/ place[wanted[r]] = "objects" /\ offset[r] + count[r] <= size[wanted[r]]
    \/ place[wanted[r]] = "absent"

\* Before the first crash, what put has returned is there on any host.
AckedUntilCrash == crashes = 0 => AckedIsDurable

\* Objects go only in a crash, only while the directories are not on disk yet, and
\* then all of them; what is gone stays gone, and its ID names nothing else.  Once the
\* directories are on disk they stay there.
OnlyCrashesLose ==
  [][/\ directories => directories'
     /\ \A i \in Published :
          /\ records'[i] = records[i]
          /\ \/ place'[i] = place[i] /\ size'[i] = size[i]
             \/ /\ ~directories /\ crashes' = crashes + 1
                /\ \A j \in Ids : place'[j] = "absent"]_vars

\* To its readers the store is an immutable store: an object appears whole.
visible == [i \in Ids |-> IF records[i] # NoRecord /\ place[i] = "objects"
                           THEN size[i] ELSE NoRecord]
Objects == INSTANCE ImmutableStore WITH
  Objects <- Lengths, NoObject <- NoRecord, store <- visible
RefinesImmutableStore == Objects!Spec

(* --- the inductive invariant ------------------------------------------- *)

\* IDs not handed out yet have left no trace.
UnusedIds ==
  \A i \in Ids : i >= next_object =>
    records[i] = NoRecord /\ place[i] = "absent" /\ entries[i] = {"absent"} /\ i \notin acked

\* Each writer at work has an ID to itself.
OwnIds ==
  \A v, w \in Writers : v # w /\ wpc[v] # "idle" /\ wpc[w] # "idle" => id[v] # id[w]

\* Its ID is used up, unpublished until the record is committed, and the file is
\* as far as the writer.
WriterHolds(w) ==
  LET i == id[w]
  IN /\ i < next_object
     /\ wpc[w] # "return" => records[i] = NoRecord
     /\ wpc[w] = "return" => records[i] # NoRecord
     /\ wpc[w] = "create" => place[i] = "absent" /\ entries[i] = {"absent"}
     /\ wpc[w] \in {"write", "sync", "rename"} => place[i] = "staging"
     /\ wpc[w] \in {"syncdir", "record"} => place[i] = "objects"
     /\ wpc[w] \in {"sync", "rename", "syncdir", "record"} => size[i] = length[w]
     /\ wpc[w] \in {"rename", "syncdir", "record"} => synced[i]
     /\ wpc[w] = "record" => entries[i] = {"objects"}
WritersHold == \A w \in Writers : wpc[w] # "idle" => WriterHolds(w)

\* The payload of a published object is on disk, and its entry settled, unless a crash
\* took it with the directories.
OnDisk(i) == Whole(i) /\ synced[i] /\ entries[i] = {"objects"}
Gone(i) ==
  /\ ~DirectoriesDurable /\ crashes > 0
  /\ place[i] = "absent" /\ size[i] = 0 /\ entries[i] = {"absent"}
PublishedOnDisk == \A i \in Published : OnDisk(i) \/ Gone(i)

\* A reader that was let through wants a range of a published object.
ReadersHold ==
  \A r \in Readers : rpc[r] = "open" =>
    wanted[r] \in Published /\ offset[r] + count[r] <= records[wanted[r]]

StoreInvariant ==
  /\ TypeOK /\ UnusedIds /\ OwnIds /\ WritersHold /\ PublishedOnDisk /\ ReadersHold
  /\ acked \subseteq Published
  /\ DirectoriesDurable => directories
=============================================================================
