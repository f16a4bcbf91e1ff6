----------------------------- MODULE GlbMetadata -----------------------------
(***************************************************************************)
(* The inspection of glb_metadata.rs: the 20 bytes of a GLB's header and   *)
(* first chunk header decide how many bytes of JSON to allocate and read.  *)
(* A file has the size the file system gave when it was opened, and as     *)
(* many bytes as are still there when it is read.                          *)
(***************************************************************************)
EXTENDS Integers

HeaderBytes == 20

\* What a reader of the file meets: the tags, the two lengths, the bytes present,
\* and whether the JSON says version 2.0.
Files == [glTF2 : BOOLEAN, length : Nat, json_bytes : Nat, tagged : BOOLEAN,
          present : Nat, version2 : BOOLEAN]

\* saturating_sub.
Less(a, b) == IF a < b THEN 0 ELSE a - b

JsonChunkFits(file, file_size) ==
  /\ file.tagged
  /\ file.json_bytes # 0 /\ file.json_bytes % 4 = 0
  /\ file.json_bytes <= Less(file_size, HeaderBytes)

HeaderAgrees(file, file_size) ==
  /\ file.glTF2
  /\ file.length = file_size /\ file_size % 4 = 0

\* The bytes allocated for the JSON, the bytes read, and whether there is an answer.
Outcome(buffer, position, accepted) ==
  [buffer |-> buffer, position |-> position, accepted |-> accepted]

\* read_exact: an end of file that comes too early leaves everything read.
AtMost(a, b) == IF a <= b THEN a ELSE b
InspectGlb(file, file_size) ==
  LET end == HeaderBytes + file.json_bytes
  IN IF file.present < HeaderBytes \/ ~HeaderAgrees(file, file_size)
        \/ ~JsonChunkFits(file, file_size)
     THEN Outcome(0, AtMost(file.present, HeaderBytes), FALSE)
     ELSE Outcome(file.json_bytes, AtMost(file.present, end),
                  end <= file.present /\ file.version2)

(* --- what must hold ---------------------------------------------------- *)

\* "Cheap host inspection": no header makes it allocate more than the file can
\* hold, or read past the JSON chunk; and an answer describes exactly that chunk of
\* a file of the declared length.
InspectionIsCheap(file, file_size) ==
  LET outcome == InspectGlb(file, file_size)
  IN /\ outcome.buffer > 0 => HeaderBytes + outcome.buffer <= file_size
     /\ outcome.position <= HeaderBytes + outcome.buffer
     /\ outcome.position <= file.present
     /\ outcome.accepted =>
          /\ outcome.position = HeaderBytes + file.json_bytes
          /\ outcome.buffer = file.json_bytes /\ outcome.buffer % 4 = 0
          /\ file.length = file_size
=============================================================================
