-------------------------- MODULE MassStoreProofs ---------------------------
(***************************************************************************)
(* Proofs about the MASS object store, for any number of writers and       *)
(* readers, IDs and crashes.  Some assume that the host makes the store's  *)
(* two directories durable: nothing in the code does.                      *)
(***************************************************************************)
EXTENDS MassStore, TLAPS

LEMMA InitTyped == Init => TypeOK
BY StoreAssumption
   DEF Init, TypeOK, StoreAssumption, Ids, Lengths, NoRecord, Places, WriterPcs

LEMMA WriterTyped ==
  ASSUME TypeOK, NEW w \in Writers, WriterStep(w)
  PROVE  TypeOK'
<1> USE DEF TypeOK, WriterGoes, WriterPcs, Places, catalog, files, writers, readers
<1>1. UNCHANGED <<readers, crashes>> /\ 1 \in Ids /\ 0 \in Lengths
  BY StoreAssumption DEF WriterStep, StoreAssumption, Ids, Lengths
<1>2. ASSUME NEW n \in Lengths, Reserve(w, n) PROVE TypeOK'
  <2>1. next_object \in Ids /\ next_object + 1 \in 1 .. MaxU64
    BY <1>2, StoreAssumption DEF Reserve, Ids, StoreAssumption
  <2> QED
    BY <1>1, <1>2, <2>1 DEF Reserve
<1>3. CASE CreateStaging(w)
  BY <1>1, <1>3 DEF CreateStaging
<1>4. CASE WriteAll(w)
  BY <1>1, <1>4 DEF WriteAll
<1>5. CASE SyncAll(w)
  BY <1>1, <1>5 DEF SyncAll
<1>6. CASE Rename(w)
  BY <1>1, <1>6 DEF Rename
<1>7. CASE SyncDirectory(w)
  BY <1>1, <1>7 DEF SyncDirectory
<1>8. CASE CommitRecord(w)
  BY <1>1, <1>8 DEF CommitRecord
<1>9. CASE Return(w)
  BY <1>1, <1>9 DEF Return, WriterDone
<1>10. CASE PutFails(w)
  <2>1. size' \in [Ids -> Lengths]
    <3>1. \A n \in 0 .. length[w] : n \in Lengths
      BY StoreAssumption DEF Lengths, StoreAssumption
    <3> QED
      BY <1>10, <3>1 DEF PutFails
  <2> QED
    BY <1>1, <1>10, <2>1 DEF PutFails, WriterDone
<1> QED
  BY <1>2, <1>3, <1>4, <1>5, <1>6, <1>7, <1>8, <1>9, <1>10 DEF WriterStep

LEMMA ReaderTyped ==
  ASSUME TypeOK, NEW r \in Readers, ReaderStep(r)
  PROVE  TypeOK'
<1> USE DEF TypeOK, catalog, files, writers, readers
<1>1. 1 \in Ids /\ 0 \in 0 .. MaxU64
  BY StoreAssumption DEF StoreAssumption, Ids
<1>2. ASSUME NEW i \in Ids, NEW o \in 0 .. MaxU64, NEW n \in 0 .. MaxU64, ReadInfo(r, i, o, n)
      PROVE  TypeOK'
  BY <1>2 DEF ReadInfo, ReaderStep
<1>3. CASE ReadExact(r)
  BY <1>1, <1>3 DEF ReadExact, ReaderStep
<1> QED
  BY <1>2, <1>3 DEF ReaderStep

LEMMA CrashTyped ==
  ASSUME TypeOK, Crash
  PROVE  TypeOK'
<1> USE DEF TypeOK, catalog
<1>1. 1 \in Ids /\ 0 \in 0 .. MaxU64 /\ 0 \in Lengths
  BY StoreAssumption DEF StoreAssumption, Ids, Lengths
<1>2. /\ directories' \in BOOLEAN
      /\ crashes' \in 0 .. MaxCrashes
      /\ entries' \in [Ids -> SUBSET Places]
  <2>1. directories' \in BOOLEAN
    BY StoreAssumption DEF Crash, StoreAssumption
  <2>2. crashes' \in 0 .. MaxCrashes
    BY StoreAssumption DEF Crash, StoreAssumption
  <2>3. \A i \in Ids : place'[i] \in Places
    BY DEF Crash
  <2> QED
    BY <2>1, <2>2, <2>3 DEF Crash
<1>3. /\ place' \in [Ids -> Places] /\ size' \in [Ids -> Lengths]
      /\ synced' \in [Ids -> BOOLEAN]
      /\ UNCHANGED <<next_object, records, acked>>
  BY DEF Crash
<1>4. /\ wpc' \in [Writers -> WriterPcs] /\ id' \in [Writers -> Ids]
      /\ length' \in [Writers -> Lengths]
  BY <1>1 DEF Crash, WriterPcs
<1>5. /\ rpc' \in [Readers -> {"idle", "open"}] /\ wanted' \in [Readers -> Ids]
      /\ offset' \in [Readers -> 0 .. MaxU64] /\ count' \in [Readers -> 0 .. MaxU64]
  BY <1>1 DEF Crash
<1> QED
  BY <1>2, <1>3, <1>4, <1>5

LEMMA NextTyped == TypeOK /\ [Next]_vars => TypeOK'
<1> SUFFICES ASSUME TypeOK, [Next]_vars PROVE TypeOK'
  OBVIOUS
<1>1. CASE UNCHANGED vars
  BY <1>1 DEF TypeOK, vars, catalog, files, writers, readers
<1> QED
  BY <1>1, WriterTyped, ReaderTyped, CrashTyped DEF Next

\* Every field keeps its type: IDs and lengths never leave u64.
THEOREM Typed == Spec => []TypeOK
BY InitTyped, NextTyped, PTL DEF Spec
(* --- the inductive invariant ------------------------------------------- *)

LEMMA InitInductive == Init => StoreInvariant
BY InitTyped
   DEF Init, StoreInvariant, UnusedIds, OwnIds, WritersHold, PublishedOnDisk, ReadersHold,
       Published

\* A put touches the file and the record of its own ID, and neither once the
\* object is published.
TouchesOnly(w, i) ==
  /\ \A j \in Ids \ {i} :
       /\ records'[j] = records[j] /\ place'[j] = place[j]
       /\ size'[j] = size[j] /\ synced'[j] = synced[j]
       /\ place[j] # "objects" => entries'[j] = entries[j]
       /\ entries[j] = {"objects"} => entries'[j] = {"objects"}
       /\ j \in acked' => j \in acked
  /\ records[i] # NoRecord => records'[i] = records[i]
  /\ \A v \in Writers \ {w} :
       wpc'[v] = wpc[v] /\ id'[v] = id[v] /\ length'[v] = length[v]
  /\ UNCHANGED <<readers, directories, crashes>>

\* So everybody else keeps what they hold.
LEMMA WriterFrame ==
  ASSUME StoreInvariant, TypeOK', NEW w \in Writers, NEW i \in Ids,
         wpc[w] # "idle" => i = id[w],
         wpc[w] = "idle" => i = next_object,
         next_object <= next_object', i < next_object',
         TouchesOnly(w, i),
         i \in acked' => records'[i] # NoRecord,
         records'[i] # NoRecord => (OnDisk(i) \/ Gone(i))',
         wpc'[w] # "idle" => id'[w] = i /\ WriterHolds(w)'
  PROVE  StoreInvariant'
<1> USE DEF StoreInvariant, TouchesOnly
<1>1. UnusedIds'
  <2> SUFFICES ASSUME NEW j \in Ids, j >= next_object'
               PROVE  /\ records'[j] = NoRecord /\ place'[j] = "absent"
                      /\ entries'[j] = {"absent"} /\ j \notin acked'
    BY DEF UnusedIds
  <2>1. j # i /\ j >= next_object
    BY DEF TypeOK, Ids
  <2> QED
    BY <2>1 DEF UnusedIds
<1>2. ASSUME NEW v \in Writers \ {w}, wpc[v] # "idle"
      PROVE  id[v] # i /\ id[v] \in Ids /\ id[v] < next_object
  <2>1. id[v] < next_object /\ id[v] \in Ids
    BY <1>2 DEF WritersHold, WriterHolds, TypeOK
  <2>2. id[v] # i
    BY <1>2, <2>1 DEF OwnIds, Ids, TypeOK
  <2> QED
    BY <2>1, <2>2
<1>3. OwnIds'
  BY <1>2 DEF OwnIds
<1>4. ASSUME NEW v \in Writers \ {w}, wpc'[v] # "idle"
      PROVE  WriterHolds(v)'
  <2>1. wpc[v] # "idle" /\ id'[v] = id[v] /\ id[v] \in Ids \ {i} /\ id[v] < next_object
    BY <1>4, <1>2
  <2>2. WriterHolds(v)
    BY <2>1 DEF WritersHold
  <2>3. id[v] < next_object'
    BY <2>1 DEF TypeOK, Ids
  <2> QED
    BY <2>1, <2>2, <2>3 DEF WriterHolds
<1>5. WritersHold'
  BY <1>4 DEF WritersHold
<1>6. PublishedOnDisk'
  <2> SUFFICES ASSUME NEW j \in Ids, records'[j] # NoRecord PROVE (OnDisk(j) \/ Gone(j))'
    BY DEF PublishedOnDisk, Published
  <2>1. CASE j = i
    BY <2>1
  <2>2. CASE j # i
    BY <2>2 DEF PublishedOnDisk, Published, OnDisk, Whole, Gone
  <2> QED
    BY <2>1, <2>2
<1>7. ReadersHold'
  BY DEF ReadersHold, Published, readers
<1>8. (acked \subseteq Published)' /\ (DirectoriesDurable => directories')
  BY DEF Published, TypeOK
<1> QED
  BY <1>1, <1>3, <1>5, <1>6, <1>7, <1>8

LEMMA ReserveInductive ==
  ASSUME StoreInvariant, TypeOK', NEW w \in Writers, NEW n \in Lengths, Reserve(w, n),
         UNCHANGED <<readers, crashes>>
  PROVE  StoreInvariant'
<1> DEFINE i == next_object
<1>1. i \in Ids /\ next_object' = i + 1 /\ next_object \in Nat
  BY StoreAssumption DEF Reserve, Ids, StoreAssumption, StoreInvariant, TypeOK
<1>2. /\ records[i] = NoRecord /\ place[i] = "absent" /\ entries[i] = {"absent"}
      /\ i \notin acked
  BY <1>1 DEF StoreInvariant, UnusedIds
<1>3. TouchesOnly(w, i)
  BY DEF TouchesOnly, Reserve, files, StoreInvariant, TypeOK, WriterGoes
<1>4. wpc'[w] = "create" /\ id'[w] = i
  BY DEF Reserve, WriterGoes, StoreInvariant, TypeOK
<1>5. WriterHolds(w)'
  BY <1>1, <1>2, <1>4 DEF WriterHolds, Reserve, files
<1> QED
  BY <1>1, <1>2, <1>3, <1>4, <1>5, WriterFrame DEF Reserve, files

\* The other steps are about an ID the writer holds.
LEMMA WriterInductive ==
  ASSUME StoreInvariant, TypeOK', NEW w \in Writers, WriterStep(w)
  PROVE  StoreInvariant'
<1> USE DEF WriterGoes, catalog, files
<1>1. UNCHANGED <<readers, crashes>>
  BY DEF WriterStep
<1>2. ASSUME NEW n \in Lengths, Reserve(w, n) PROVE StoreInvariant'
  BY <1>1, <1>2, ReserveInductive
<1> SUFFICES ASSUME wpc[w] # "idle",
                    \/ CreateStaging(w) \/ WriteAll(w) \/ SyncAll(w) \/ Rename(w)
                    \/ SyncDirectory(w) \/ CommitRecord(w) \/ Return(w) \/ PutFails(w)
             PROVE  StoreInvariant'
  BY <1>2 DEF WriterStep, CreateStaging, WriteAll, SyncAll, Rename, SyncDirectory, CommitRecord,
              Return, PutFails
<1>0. PICK i \in Ids : i = id[w]
  BY DEF StoreInvariant, TypeOK
<1>3. i = id[w] /\ i < next_object /\ next_object \in 1 .. MaxU64 /\ WriterHolds(w)
  BY <1>0 DEF StoreInvariant, WritersHold, WriterHolds, TypeOK
<1>4. /\ records[i] = NoRecord => i \notin acked
      /\ records[i] # NoRecord => OnDisk(i) \/ Gone(i)
  BY <1>3 DEF StoreInvariant, PublishedOnDisk, Published
<1>5. SUFFICES /\ UNCHANGED next_object
               /\ TouchesOnly(w, i)
               /\ i \in acked' => records'[i] # NoRecord
               /\ records'[i] # NoRecord => (OnDisk(i) \/ Gone(i))'
               /\ wpc'[w] # "idle" => id'[w] = i /\ WriterHolds(w)'
  <2>1. next_object <= next_object' /\ i < next_object'
    BY <1>3, <1>5
  <2> QED
    BY <1>3, <1>5, <2>1, WriterFrame
<1>6. CASE CreateStaging(w)
  BY <1>1, <1>3, <1>4, <1>6
     DEF CreateStaging, TouchesOnly, OnDisk, Whole, Gone, WriterHolds, StoreInvariant, TypeOK
<1>7. CASE WriteAll(w)
  BY <1>1, <1>3, <1>4, <1>7
     DEF WriteAll, TouchesOnly, OnDisk, Whole, Gone, WriterHolds, StoreInvariant, TypeOK
<1>8. CASE SyncAll(w)
  BY <1>1, <1>3, <1>4, <1>8
     DEF SyncAll, TouchesOnly, OnDisk, Whole, Gone, WriterHolds, StoreInvariant, TypeOK
<1>9. CASE Rename(w)
  BY <1>1, <1>3, <1>4, <1>9
     DEF Rename, TouchesOnly, OnDisk, Whole, Gone, WriterHolds, StoreInvariant, TypeOK
<1>10. CASE SyncDirectory(w)
  BY <1>1, <1>3, <1>4, <1>10
     DEF SyncDirectory, TouchesOnly, OnDisk, Whole, Gone, WriterHolds, StoreInvariant, TypeOK
<1>11. CASE CommitRecord(w)
  BY <1>1, <1>3, <1>4, <1>11
     DEF CommitRecord, NoRecord, Lengths, TouchesOnly, OnDisk, Whole, WriterHolds, StoreInvariant,
         TypeOK
<1>12. CASE Return(w)
  BY <1>1, <1>3, <1>4, <1>12
     DEF Return, WriterDone, TouchesOnly, OnDisk, Whole, Gone, WriterHolds, StoreInvariant, TypeOK
<1>13. CASE PutFails(w)
  BY <1>1, <1>3, <1>4, <1>13
     DEF PutFails, WriterDone, TouchesOnly, OnDisk, Whole, Gone, WriterHolds, StoreInvariant, TypeOK
<1> QED
  BY <1>6, <1>7, <1>8, <1>9, <1>10, <1>11, <1>12, <1>13

LEMMA ReaderInductive ==
  ASSUME StoreInvariant, TypeOK', NEW r \in Readers, ReaderStep(r)
  PROVE  StoreInvariant'
<1> USE DEF StoreInvariant, catalog, files, writers
<1>1. UNCHANGED <<catalog, files, writers, acked, crashes>>
  BY DEF ReaderStep
<1>2. UnusedIds' /\ OwnIds' /\ PublishedOnDisk'
  BY <1>1 DEF UnusedIds, OwnIds, PublishedOnDisk, Published, OnDisk, Whole, Gone
<1>3. WritersHold'
  BY <1>1 DEF WritersHold, WriterHolds
<1>4. (acked \subseteq Published)' /\ (DirectoriesDurable => directories')
  BY <1>1 DEF Published
<1>5. ReadersHold'
  <2>1. ASSUME NEW i \in Ids, NEW o \in 0 .. MaxU64, NEW n \in 0 .. MaxU64,
               ReadInfo(r, i, o, n)
        PROVE  ReadersHold'
    BY <1>1, <2>1 DEF ReadInfo, InRange, ReadersHold, Published, TypeOK
  <2>2. CASE ReadExact(r)
    BY <1>1, <2>2 DEF ReadExact, ReadersHold, Published, TypeOK
  <2> QED
    BY <2>1, <2>2 DEF ReaderStep
<1> QED
  BY <1>2, <1>3, <1>4, <1>5

\* A crash keeps the catalog, and what is settled on disk.
LEMMA CrashInductive ==
  ASSUME StoreInvariant, TypeOK', Crash
  PROVE  StoreInvariant'
<1> USE DEF StoreInvariant, catalog
<1>1. /\ UNCHANGED <<next_object, records, acked>>
      /\ \A i \in Ids : entries'[i] = {place'[i]} /\ synced'[i]
      /\ crashes' = crashes + 1 /\ crashes \in Nat
      /\ \A w \in Writers : wpc'[w] = "idle"
      /\ \A r \in Readers : rpc'[r] = "idle"
  BY StoreAssumption DEF Crash, TypeOK, StoreAssumption
<1>2. \/ (\A i \in Ids : Recover(i)) /\ directories'
      \/ /\ ~directories /\ ~DirectoriesDurable
         /\ \A i \in Ids : place'[i] = "absent" /\ size'[i] = 0
  BY DEF Crash
<1>3. UnusedIds'
  BY <1>1, <1>2 DEF UnusedIds, Recover
<1>4. PublishedOnDisk'
  <2> SUFFICES ASSUME NEW i \in Ids, records'[i] # NoRecord PROVE (OnDisk(i) \/ Gone(i))'
    BY DEF PublishedOnDisk, Published
  <2>1. OnDisk(i) \/ Gone(i)
    BY <1>1 DEF PublishedOnDisk, Published
  <2>2. CASE Recover(i) /\ OnDisk(i)
    BY <1>1, <2>2 DEF OnDisk, Whole, Recover
  <2>3. CASE Recover(i) /\ Gone(i)
    <3>1. size'[i] = 0 /\ place'[i] = "absent"
      BY <2>3 DEF Gone, Recover
    <3> QED
      BY <1>1, <2>3, <3>1 DEF Gone
  <2>4. CASE ~DirectoriesDurable /\ place'[i] = "absent" /\ size'[i] = 0
    BY <1>1, <2>4 DEF Gone
  <2> QED
    BY <1>2, <2>1, <2>2, <2>3, <2>4
<1>5. OwnIds' /\ WritersHold' /\ ReadersHold'
  BY <1>1 DEF OwnIds, WritersHold, ReadersHold
<1>6. (acked \subseteq Published)' /\ (DirectoriesDurable => directories')
  BY <1>1, <1>2 DEF Published
<1> QED
  BY <1>3, <1>4, <1>5, <1>6

LEMMA NextInductive == StoreInvariant /\ [Next]_vars => StoreInvariant'
<1> SUFFICES ASSUME StoreInvariant, [Next]_vars PROVE StoreInvariant'
  OBVIOUS
<1>1. TypeOK'
  BY NextTyped DEF StoreInvariant
<1>2. CASE UNCHANGED vars
  <2>1. UNCHANGED <<catalog, files, writers, readers, acked, crashes>>
    BY <1>2 DEF vars
  <2>2. UnusedIds' /\ OwnIds' /\ PublishedOnDisk' /\ ReadersHold'
    BY <2>1 DEF StoreInvariant, UnusedIds, OwnIds, PublishedOnDisk, Published, OnDisk,
                Whole, Gone, ReadersHold, catalog, files, writers, readers
  <2>3. WritersHold'
    BY <2>1 DEF StoreInvariant, WritersHold, WriterHolds, catalog, files, writers
  <2> QED
    BY <1>1, <2>1, <2>2, <2>3 DEF StoreInvariant, Published, catalog, files
<1> QED
  BY <1>1, <1>2, WriterInductive, ReaderInductive, CrashInductive DEF Next

\* The inductive invariant, on any host: everybody has an ID to itself, a record never
\* gets ahead of its payload, and a payload is on disk or went with its directory.
THEOREM StoreIsInductive == Spec => []StoreInvariant
BY InitInductive, NextInductive, PTL DEF Spec

(* --- what follows from it ---------------------------------------------- *)

LEMMA InvariantImpliesSafety ==
  StoreInvariant => WholeOrGone /\ AckedUntilCrash /\ StagingNameFree /\ ReadsAreExact
<1> SUFFICES ASSUME StoreInvariant
             PROVE  WholeOrGone /\ AckedUntilCrash /\ StagingNameFree /\ ReadsAreExact
  OBVIOUS
<1> USE DEF StoreInvariant
<1>1. WholeOrGone
  BY DEF WholeOrGone, PublishedOnDisk, OnDisk, Gone
<1>2. StagingNameFree
  BY DEF StagingNameFree, WritersHold, WriterHolds
<1>3. ReadsAreExact
  BY DEF ReadsAreExact, ReadersHold, PublishedOnDisk, OnDisk, Whole, Gone
<1>4. AckedUntilCrash
  BY DEF AckedUntilCrash, AckedIsDurable, PublishedOnDisk, OnDisk, Whole, Gone
<1> QED
  BY <1>1, <1>2, <1>3, <1>4

LEMMA DurableHost ==
  ASSUME DirectoriesDurable
  PROVE  StoreInvariant =>
           /\ RecordsHavePayloads /\ AckedIsDurable /\ AcceptedReadsSucceed
           /\ \A i \in Published : OnDisk(i)
<1> SUFFICES ASSUME StoreInvariant
             PROVE  /\ RecordsHavePayloads /\ AckedIsDurable /\ AcceptedReadsSucceed
                    /\ \A i \in Published : OnDisk(i)
  OBVIOUS
<1>1. \A i \in Published : OnDisk(i)
  BY DEF StoreInvariant, PublishedOnDisk, Gone
<1>2. RecordsHavePayloads /\ AckedIsDurable
  BY <1>1 DEF StoreInvariant, RecordsHavePayloads, AckedIsDurable, OnDisk, Whole
<1>3. AcceptedReadsSucceed
  BY <1>1 DEF StoreInvariant, AcceptedReadsSucceed, ReadersHold, OnDisk, Whole
<1> QED
  BY <1>1, <1>2, <1>3

\* On any host, a published object is never torn: it is there whole, or a crash took
\* its file away altogether.
THEOREM NeverTorn == Spec => []WholeOrGone
BY StoreIsInductive, InvariantImpliesSafety, PTL

\* On any host, what put has returned is there until the first crash.
THEOREM AckedStaysUntilCrash == Spec => []AckedUntilCrash
BY StoreIsInductive, InvariantImpliesSafety, PTL

\* On any host, a range that was accepted is read as it was put, or no file is found.
THEOREM ReadsNeverWrong == Spec => []ReadsAreExact
BY StoreIsInductive, InvariantImpliesSafety, PTL

\* On any host, create_new never meets the debris of an earlier put, whatever a crash
\* brought back of it.
THEOREM StagingIsFree == Spec => []StagingNameFree
BY StoreIsInductive, InvariantImpliesSafety, PTL

\* No record names a payload that a crash could still take away.
THEOREM RecordsAreWhole == DirectoriesDurable => (Spec => []RecordsHavePayloads)
<1> SUFFICES ASSUME DirectoriesDurable PROVE Spec => []RecordsHavePayloads
  OBVIOUS
<1>1. StoreInvariant => RecordsHavePayloads
  BY DurableHost
<1> QED
  BY <1>1, StoreIsInductive, PTL

\* What put has returned is there for good.
THEOREM AckedStays == DirectoriesDurable => (Spec => []AckedIsDurable)
<1> SUFFICES ASSUME DirectoriesDurable PROVE Spec => []AckedIsDurable
  OBVIOUS
<1>1. StoreInvariant => AckedIsDurable
  BY DurableHost
<1> QED
  BY <1>1, StoreIsInductive, PTL

\* A range that was accepted can be read.
THEOREM ReadsSucceed == DirectoriesDurable => (Spec => []AcceptedReadsSucceed)
<1> SUFFICES ASSUME DirectoriesDurable PROVE Spec => []AcceptedReadsSucceed
  OBVIOUS
<1>1. StoreInvariant => AcceptedReadsSucceed
  BY DurableHost
<1> QED
  BY <1>1, StoreIsInductive, PTL

LEMMA RecordsOnlyAppear ==
  ASSUME StoreInvariant, [Next]_vars
  PROVE  \/ UNCHANGED records
         \/ \E i \in Ids, n \in Lengths :
              records[i] = NoRecord /\ records' = [records EXCEPT ![i] = n]
<1> USE DEF catalog
<1>1. ASSUME NEW w \in Writers, CommitRecord(w)
      PROVE  \E i \in Ids, n \in Lengths :
               records[i] = NoRecord /\ records' = [records EXCEPT ![i] = n]
  BY <1>1 DEF CommitRecord, StoreInvariant, WritersHold, WriterHolds, TypeOK
<1>2. ASSUME NEW w \in Writers, WriterStep(w), ~CommitRecord(w)
      PROVE  UNCHANGED records
  BY <1>2 DEF WriterStep, Reserve, CreateStaging, WriteAll, SyncAll, Rename, SyncDirectory,
              Return, PutFails
<1>3. ASSUME NEW r \in Readers, ReaderStep(r)
      PROVE  UNCHANGED records
  BY <1>3 DEF ReaderStep
<1>4. Crash => UNCHANGED records
  BY DEF Crash
<1>5. UNCHANGED vars => UNCHANGED records
  BY DEF vars
<1> QED
  BY <1>1, <1>2, <1>3, <1>4, <1>5 DEF Next

\* Nothing that is published ever changes, in the catalog or on disk.
THEOREM ObjectsAreImmutable == DirectoriesDurable => (Spec => PublishedObjectsStay)
<1> SUFFICES ASSUME DirectoriesDurable PROVE Spec => PublishedObjectsStay
  OBVIOUS
<1>1. StoreInvariant /\ [Next]_vars =>
        [\A i \in Published : records'[i] = records[i] /\ place'[i] = place[i]
                               /\ size'[i] = size[i]]_vars
  <2> SUFFICES ASSUME StoreInvariant, [Next]_vars, NEW i \in Published
               PROVE  /\ records'[i] = records[i] /\ place'[i] = place[i]
                      /\ size'[i] = size[i]
    OBVIOUS
  <2>1. i \in Ids /\ records'[i] = records[i]
    BY RecordsOnlyAppear DEF Published, StoreInvariant, TypeOK
  <2>2. StoreInvariant'
    BY NextInductive
  <2>3. OnDisk(i) /\ OnDisk(i)'
    BY <2>1, <2>2 DEF StoreInvariant, PublishedOnDisk, Published, Gone
  <2> QED
    BY <2>1, <2>3 DEF OnDisk, Whole
<1> QED
  BY <1>1, StoreIsInductive, PTL DEF Spec, PublishedObjectsStay

\* On any host, an object can be lost only as a whole, with all others, in a crash that
\* comes before the directories are on disk; no object is changed or comes back, and
\* every crash that leaves the directories settles them for good.
THEOREM LossIsTotal == Spec => OnlyCrashesLose
<1> DEFINE Loses == /\ ~directories /\ crashes' = crashes + 1
                    /\ \A j \in Ids : place'[j] = "absent"
           Stays(i) == place'[i] = place[i] /\ size'[i] = size[i]
<1>1. ASSUME StoreInvariant, NEW w \in Writers, WriterStep(w), NEW i \in Published
      PROVE  Stays(i) /\ UNCHANGED directories
  <2>1. i \in Ids /\ (OnDisk(i) \/ Gone(i)) /\ TypeOK
    BY <1>1 DEF StoreInvariant, PublishedOnDisk, Published
  <2>2. wpc[w] \in {"create", "write", "rename"} => id[w] # i
    BY <1>1, <2>1 DEF StoreInvariant, WritersHold, WriterHolds, Published
  <2>3. id[w] \in Ids
    BY <2>1 DEF TypeOK
  <2> QED
    BY <1>1, <2>1, <2>2, <2>3
       DEF WriterStep, Reserve, CreateStaging, WriteAll, SyncAll, Rename, SyncDirectory,
           CommitRecord, Return, PutFails, files, TypeOK
<1>2. ASSUME StoreInvariant, Crash, NEW i \in Published
      PROVE  (directories => directories') /\ (Stays(i) \/ Loses)
  <2>1. i \in Ids /\ (OnDisk(i) \/ Gone(i))
    BY <1>2 DEF StoreInvariant, PublishedOnDisk, Published
  <2>2. CASE ~directories /\ \A j \in Ids : place'[j] = "absent"
    BY <1>2, <2>2 DEF Crash
  <2>3. CASE (\A j \in Ids : Recover(j)) /\ directories'
    <3>1. Recover(i)
      BY <2>1, <2>3
    <3>2. place'[i] = place[i]
      BY <2>1, <3>1 DEF Recover, OnDisk, Whole, Gone
    <3>3. size'[i] = size[i]
      BY <2>1, <3>1 DEF Recover, OnDisk, Gone
    <3> QED
      BY <2>1, <2>3, <3>2, <3>3
  <2> QED
    BY <1>2, <2>2, <2>3 DEF Crash
<1>3. ASSUME StoreInvariant, NEW w \in Writers, WriterStep(w) PROVE UNCHANGED directories
  BY <1>3 DEF WriterStep, Reserve, CreateStaging, WriteAll, SyncAll, Rename, SyncDirectory,
              CommitRecord, Return, PutFails, files
<1>4. StoreInvariant /\ [Next]_vars =>
        [/\ directories => directories'
         /\ \A i \in Published :
              /\ records'[i] = records[i]
              /\ \/ place'[i] = place[i] /\ size'[i] = size[i]
                 \/ /\ ~directories /\ crashes' = crashes + 1
                    /\ \A j \in Ids : place'[j] = "absent"]_vars
  <2> SUFFICES ASSUME StoreInvariant, Next
               PROVE  /\ directories => directories'
                      /\ \A i \in Published : records'[i] = records[i] /\ (Stays(i) \/ Loses)
    OBVIOUS
  <2>1. \A i \in Published : records'[i] = records[i]
    BY RecordsOnlyAppear DEF Published, StoreInvariant, TypeOK
  <2>2. CASE \E w \in Writers : WriterStep(w)
    BY <1>1, <1>3, <2>1, <2>2
  <2>3. CASE \E r \in Readers : ReaderStep(r)
    BY <2>1, <2>3 DEF ReaderStep, files
  <2>4. CASE Crash
    <3>1. directories => directories'
      BY <2>4 DEF Crash
    <3> QED
      BY <1>2, <2>1, <2>4, <3>1
  <2> QED
    BY <2>2, <2>3, <2>4 DEF Next
<1> QED
  BY <1>4, StoreIsInductive, PTL DEF Spec, OnlyCrashesLose

\* While the invariant holds, what readers see is what the records say.
LEMMA StoreIsRecords ==
  ASSUME DirectoriesDurable
  PROVE  /\ StoreInvariant => visible = records
         /\ StoreInvariant' => visible' = records'
<1>1. ASSUME StoreInvariant PROVE visible = records
  BY <1>1, DurableHost DEF visible, StoreInvariant, Published, OnDisk, Whole, TypeOK
<1>2. ASSUME StoreInvariant' PROVE visible' = records'
  <2>1. \A i \in Ids : records'[i] # NoRecord => OnDisk(i)'
    BY <1>2 DEF StoreInvariant, PublishedOnDisk, Published, Gone
  <2> QED
    BY <1>2, <2>1 DEF visible, StoreInvariant, OnDisk, Whole, TypeOK
<1> QED
  BY <1>1, <1>2

\* The store is an immutable store: the commit of a record publishes the object,
\* and every other step, failures and crashes included, shows nothing.
THEOREM StoreRefines == DirectoriesDurable => (Spec => RefinesImmutableStore)
<1> SUFFICES ASSUME DirectoriesDurable PROVE Spec => RefinesImmutableStore
  OBVIOUS
<1>1. Init => Objects!Init
  BY DEF Init, Objects!Init, visible
<1>2. StoreInvariant /\ [Next]_vars => [Objects!Next]_(visible)
  <2> SUFFICES ASSUME StoreInvariant, [Next]_vars
               PROVE  \/ UNCHANGED visible
                      \/ Objects!Next
    OBVIOUS
  <2>1. visible = records /\ visible' = records'
    BY NextInductive, StoreIsRecords
  <2>2. ASSUME NEW i \in Ids, NEW n \in Lengths,
               records[i] = NoRecord, records' = [records EXCEPT ![i] = n]
        PROVE  Objects!Next
    <3>1. Objects!Publish(i, n)
      BY <2>1, <2>2 DEF Objects!Publish
    <3> QED
      BY <3>1 DEF Objects!Next
  <2> QED
    BY <2>1, <2>2, RecordsOnlyAppear
<1> QED
  BY <1>1, <1>2, StoreIsInductive, PTL DEF Spec, RefinesImmutableStore, Objects!Spec
=============================================================================
