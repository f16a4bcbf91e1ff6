----------------------------- MODULE RingLayout -----------------------------
(***************************************************************************)
(* Where the slots of an execution ring lie in its mapping: what           *)
(* from_raw_parts of cubism.rs accepts, and the ranges and pointers it     *)
(* computes for slot `index` of a ring with this count and stride.         *)
(***************************************************************************)
EXTENDS Integers

CONSTANTS
  LineBytes,     \* 64: a cache line, an ExecSlotHeader, the alignment of both
  Word           \* 2^64: where usize wraps around

ASSUME LayoutAssumption ==
  /\ LineBytes \in Nat \ {0}
  /\ Word \in Nat \ {0}

Usize == 0 .. Word - 1
HeaderBytes == LineBytes

\* Unchecked arithmetic wraps.
Times(a, b) == (a * b) % Word
Plus(a, b) == (a + b) % Word

FromRawParts(base, total_bytes, slot_count, slot_stride) ==
  /\ base # 0 /\ base % LineBytes = 0
  /\ slot_count # 0
  /\ slot_stride >= HeaderBytes /\ slot_stride % LineBytes = 0
  /\ slot_count * slot_stride < Word
  /\ slot_count * slot_stride <= total_bytes

Capacity(slot_stride) == slot_stride - HeaderBytes

\* A SharedByteRange of the ring's resource.
SlotRange(slot_stride, index, payload_bytes) ==
  [offset |-> Times(index, slot_stride), byte_length |-> HeaderBytes + payload_bytes]
HeaderRange(slot_stride, index) == SlotRange(slot_stride, index, 0)
PayloadRange(slot_stride, index, payload_bytes) ==
  [offset |-> Plus(Times(index, slot_stride), HeaderBytes), byte_length |-> payload_bytes]

\* The cache lines of the mapping that hold a byte of the range.
End(range) == range.offset + range.byte_length
Covers(range, line) ==
  /\ range.byte_length > 0
  /\ range.offset < (line + 1) * LineBytes /\ line * LineBytes < End(range)

(* --- what must hold ---------------------------------------------------- *)

\* No slot that a ring hands out reaches beyond the mapping, or shares a cache line
\* with another: maintenance of one slot's lines never touches another slot.
SlotsStayApart(base, total_bytes, slot_count, slot_stride) ==
  FromRawParts(base, total_bytes, slot_count, slot_stride) =>
    \A i \in 0 .. slot_count - 1, n \in 0 .. Capacity(slot_stride) :
      /\ End(SlotRange(slot_stride, i, n)) <= total_bytes
      /\ End(PayloadRange(slot_stride, i, n)) = End(SlotRange(slot_stride, i, n))
      /\ \A j \in 0 .. slot_count - 1, m \in 0 .. Capacity(slot_stride), line \in Nat :
           /\ Covers(SlotRange(slot_stride, i, n), line)
           /\ Covers(SlotRange(slot_stride, j, m), line)
           => i = j
      \* Only the payload is invalidated: the header has a line of its own.
      /\ \A line \in Nat : ~(Covers(HeaderRange(slot_stride, i), line)
                             /\ Covers(PayloadRange(slot_stride, i, n), line))
=============================================================================
