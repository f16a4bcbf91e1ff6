----------------------------- MODULE GlbLibrary -----------------------------
(***************************************************************************)
(* The GLB library of lib.rs: each asset is three rows of one table, its   *)
(* GLB and the JSON and BIN chunks split off it.  dump_glb_bytes writes    *)
(* all three in one transaction; every load reads one of them in a         *)
(* transaction of its own.                                                 *)
(***************************************************************************)
EXTENDS Integers, Sequences

CONSTANTS
  Writers, Readers,  \* threads in dump_glb_bytes, and threads that load
  Spellings,         \* the asset IDs callers pass, as sequences of characters
  Letters,           \* characters other than blanks, slashes and NUL
  Glbs,              \* records of a JSON chunk and a BIN chunk, or NoRow
  NoRow

Nobody == "nobody"
Blank == " "
Slash == "/"
Nul == "0"
Characters == Letters \cup {Blank, Slash, Nul}

ASSUME LibraryAssumption ==
  /\ Spellings \subseteq Seq(Characters)
  /\ Letters \cap {Blank, Slash, Nul} = {}
  /\ \A g \in Glbs : "json" \in DOMAIN g /\ "bin" \in DOMAIN g
  /\ NoRow \notin Glbs /\ \A g \in Glbs : g.json # NoRow
  /\ Nobody \notin Writers

(* --- asset IDs and keys ------------------------------------------------ *)

\* s without the characters of C at both ends.
Trim(s, C) ==
  LET kept == {i \in 1 .. Len(s) : s[i] \notin C}
  IN IF kept = {} THEN <<>>
     ELSE LET first == CHOOSE i \in kept : \A j \in kept : i <= j
              last == CHOOSE i \in kept : \A j \in kept : j <= i
          IN SubSeq(s, first, last)

NoId == <<>>

\* Variant: the slashes first.
SlashesFirst(s) ==
  LET id == Trim(Trim(s, {Slash}), {Blank})
  IN IF \E i \in 1 .. Len(id) : id[i] = Nul THEN NoId ELSE id

NormalizeAssetId(s) ==
  LET id == Trim(Trim(s, {Blank}), {Slash})
  IN IF \E i \in 1 .. Len(id) : id[i] = Nul THEN NoId ELSE id

Ids == {NormalizeAssetId(s) : s \in Spellings} \ {NoId}
Parts == {"source.glb", "gltf.json", "buffer.bin"}
Key(id, part) == id \o <<Slash, part>>
Keys == {Key(id, part) : id \in Ids, part \in Parts}

\* What the rows of an asset hold once `g` has been imported, or nothing has.
PartOf(g, part) ==
  IF g = NoRow THEN NoRow
  ELSE CASE part = "source.glb" -> g
         [] part = "gltf.json" -> g.json
         [] OTHER -> g.bin
Values == {NoRow} \cup Glbs \cup {g.json : g \in Glbs} \cup {g.bin : g \in Glbs}

VARIABLES
  table,               \* the committed rows of glb_dump_v1
  holder, draft,       \* the writer with the write transaction, and its view
  wpc, asset, glb,     \* dump_glb_bytes
  wanted, got,         \* a reader's asset, and the parts it has loaded
  replaced             \* history: imported anew since the first of them

writers == <<holder, draft, wpc, asset, glb>>
readers == <<wanted, got, replaced>>
vars == <<table, writers, readers>>

WriterPcs == {"idle", "begin", "source", "json", "bin", "commit"}
Inside == {"source", "json", "bin", "commit"}
Nothing == [part \in {} |-> NoRow]

TypeOK ==
  /\ table \in [Keys -> Values]
  /\ holder \in Writers \cup {Nobody}
  /\ draft \in [Keys -> Values]
  /\ wpc \in [Writers -> WriterPcs]
  /\ asset \in [Writers -> Ids \cup {NoId}]
  /\ glb \in [Writers -> Glbs \cup {NoRow}]
  /\ \A w \in Writers : wpc[w] # "idle" => asset[w] \in Ids /\ glb[w] \in Glbs
  /\ wanted \in [Readers -> Ids \cup {NoId}]
  /\ got \in [Readers -> UNION {[loaded -> Values] : loaded \in SUBSET Parts}]
  /\ replaced \in [Readers -> BOOLEAN]

\* A database without the table reads like one with an empty table.
Init ==
  /\ table = [k \in Keys |-> NoRow]
  /\ holder = Nobody
  /\ draft = table
  /\ wpc = [w \in Writers |-> "idle"]
  /\ asset = [w \in Writers |-> NoId]
  /\ glb = [w \in Writers |-> NoRow]
  /\ wanted = [r \in Readers |-> NoId]
  /\ got = [r \in Readers |-> Nothing]
  /\ replaced = [r \in Readers |-> FALSE]

(* --- dump_glb_bytes ---------------------------------------------------- *)

Goto(w, label) == wpc' = [wpc EXCEPT ![w] = label] /\ UNCHANGED <<asset, glb>>
WriterIdle(w) ==
  /\ wpc' = [wpc EXCEPT ![w] = "idle"]
  /\ asset' = [asset EXCEPT ![w] = NoId]
  /\ glb' = [glb EXCEPT ![w] = NoRow]

\* The ID is normalised and the GLB split before anything is written.
DumpCalled(w, s, g) ==
  /\ wpc[w] = "idle"
  /\ NormalizeAssetId(s) # NoId
  /\ wpc' = [wpc EXCEPT ![w] = "begin"]
  /\ asset' = [asset EXCEPT ![w] = NormalizeAssetId(s)]
  /\ glb' = [glb EXCEPT ![w] = g]
  /\ UNCHANGED <<table, holder, draft>>

\* One write transaction at a time, on the table as it was committed last.
BeginWrite(w) ==
  /\ wpc[w] = "begin" /\ holder = Nobody
  /\ holder' = w
  /\ draft' = table
  /\ Goto(w, "source")
  /\ UNCHANGED table

Put(w, part, value) ==
  /\ draft' = [draft EXCEPT ![Key(asset[w], part)] = value]
  /\ UNCHANGED <<table, holder>>

InsertSource(w) ==
  wpc[w] = "source" /\ Put(w, "source.glb", glb[w]) /\ Goto(w, "json")

InsertJson(w) ==
  wpc[w] = "json" /\ Put(w, "gltf.json", glb[w].json) /\ Goto(w, "bin")

\* Variant: a BIN chunk is only ever inserted.
InsertBin(w) ==
  /\ wpc[w] = "bin"
  /\ IF glb[w].bin = NoRow THEN UNCHANGED <<table, holder, draft>>
     ELSE Put(w, "buffer.bin", glb[w].bin)
  /\ Goto(w, "commit")

\* The BIN chunk is inserted, or a stale one removed.
InsertOrRemoveBin(w) ==
  wpc[w] = "bin" /\ Put(w, "buffer.bin", glb[w].bin) /\ Goto(w, "commit")

Commit(w) ==
  /\ wpc[w] = "commit"
  /\ table' = draft
  /\ holder' = Nobody
  /\ WriterIdle(w)
  /\ UNCHANGED draft

\* begin_write itself fails, and nothing has been opened.
BeginFails(w) ==
  /\ wpc[w] = "begin"
  /\ WriterIdle(w)
  /\ UNCHANGED <<table, holder, draft>>

\* Variant: what a failed call has written is committed.
FailCommits(w) ==
  /\ wpc[w] \in Inside
  /\ table' = draft
  /\ holder' = Nobody
  /\ WriterIdle(w)
  /\ UNCHANGED draft

\* Any later error drops the transaction with everything written in it.
Fail(w) ==
  /\ wpc[w] \in Inside
  /\ holder' = Nobody
  /\ WriterIdle(w)
  /\ draft' = table
  /\ UNCHANGED table

(* --- load_glb, load_json_chunk, load_bin_chunk ------------------------- *)

StartReading(r, s) ==
  /\ wanted[r] = NoId
  /\ NormalizeAssetId(s) # NoId
  /\ wanted' = [wanted EXCEPT ![r] = NormalizeAssetId(s)]
  /\ UNCHANGED <<got, replaced>>

\* Each load is a read transaction of its own.
Load(r, part) ==
  /\ wanted[r] # NoId /\ part \notin DOMAIN got[r]
  /\ got' = [got EXCEPT ![r] = [p \in DOMAIN @ \cup {part} |->
               IF p = part THEN table[Key(wanted[r], part)] ELSE @[p]]]
  /\ UNCHANGED <<wanted, replaced>>

StopReading(r) ==
  /\ wanted[r] # NoId
  /\ wanted' = [wanted EXCEPT ![r] = NoId]
  /\ got' = [got EXCEPT ![r] = Nothing]
  /\ replaced' = [replaced EXCEPT ![r] = FALSE]

(* --- the system -------------------------------------------------------- *)

WriterStep(w) ==
  \/ \E s \in Spellings, g \in Glbs : DumpCalled(w, s, g)
  \/ BeginWrite(w) \/ InsertSource(w) \/ InsertJson(w) \/ InsertOrRemoveBin(w)
  \/ Commit(w) \/ BeginFails(w) \/ Fail(w)

ReaderStep(r) ==
  \/ \E s \in Spellings : StartReading(r, s)
  \/ \E part \in Parts : Load(r, part)
  \/ StopReading(r)

\* Readers that have loaded something notice that its rows change.
ObserveImports ==
  /\ replaced' = [r \in Readers |->
       replaced[r] \/ /\ got[r] # Nothing
                      /\ \E part \in Parts :
                           table'[Key(wanted[r], part)] # table[Key(wanted[r], part)]]
  /\ UNCHANGED <<wanted, got>>

Next ==
  \/ \E w \in Writers : WriterStep(w) /\ ObserveImports
  \/ \E r \in Readers : ReaderStep(r) /\ UNCHANGED <<table, writers>>

Spec == Init /\ [][Next]_vars

(* --- what must hold ---------------------------------------------------- *)

Imported(rows, id, g) == \A part \in Parts : rows[Key(id, part)] = PartOf(g, part)

\* "Importing the same asset_id again is idempotent": whatever was imported before,
\* failed or is under way, the rows of an asset are those of one GLB, and a BIN
\* chunk of an older one does not stay behind.
PartsAgree == \A id \in Ids : \E g \in Glbs \cup {NoRow} : Imported(table, id, g)

\* A caller that loads the parts of an asset one by one gets them of one GLB,
\* unless the asset was replaced between its loads.
ReadsAgree ==
  \A r \in Readers : ~replaced[r] =>
    \E g \in Glbs \cup {NoRow} : \A part \in DOMAIN got[r] : got[r][part] = PartOf(g, part)

\* Blanks around a spelling, and slashes around one with no blank at its ends, find the
\* same asset.  Every asset, also one whose ID has kept a blank that slashes had
\* enclosed, is found under its ID with slashes around it; and the ID that ImportStats
\* returns finds it again exactly when it has kept none: another call trims that blank.
BlankEnded(s) == s # <<>> /\ Blank \in {s[1], s[Len(s)]}
Found(s) ==
  LET id == NormalizeAssetId(s)
  IN IF id \in Ids THEN table[Key(id, "source.glb")] ELSE NoRow
SpellingsFindAssets ==
  /\ \A s \in Spellings :
       /\ Found(<<Blank>> \o s \o <<Blank>>) = Found(s)
       /\ ~BlankEnded(s) => Found(<<Slash>> \o s \o <<Slash>>) = Found(s)
  /\ \A id \in Ids :
       /\ Found(<<Slash>> \o id \o <<Slash>>) = table[Key(id, "source.glb")]
       /\ NormalizeAssetId(id) = id <=> ~BlankEnded(id)

(* --- the inductive invariant ------------------------------------------- *)

\* The writer inside the transaction has changed the rows of its asset only, and
\* these in the order of the calls.
Written(w) ==
  {part \in Parts :
    CASE part = "source.glb" -> wpc[w] \in {"json", "bin", "commit"}
      [] part = "gltf.json" -> wpc[w] \in {"bin", "commit"}
      [] OTHER -> wpc[w] = "commit"}
DraftHolds(w) ==
  /\ holder = w
  /\ \A id \in Ids, part \in Parts :
       draft[Key(id, part)] =
         IF id = asset[w] /\ part \in Written(w) THEN PartOf(glb[w], part)
         ELSE table[Key(id, part)]
DraftsHold == \A w \in Writers : wpc[w] \in Inside => DraftHolds(w)

\* Until its asset is replaced, a reader has what it would load now.
ReadersHold ==
  \A r \in Readers :
    /\ got[r] # Nothing => wanted[r] \in Ids
    /\ ~replaced[r] =>
         \A part \in DOMAIN got[r] : got[r][part] = table[Key(wanted[r], part)]

LibraryInvariant == TypeOK /\ PartsAgree /\ DraftsHold /\ ReadersHold
=============================================================================
