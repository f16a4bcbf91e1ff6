--------------------------- MODULE RingVisibility ---------------------------
(***************************************************************************)
(* One slot of an execution ring on a mapping that is not coherent: the    *)
(* CPU works in its cache, which may write lines back, drop clean ones and *)
(* load others at any time; the GPU works in memory.  publish and retire   *)
(* of cubism.rs keep the two apart by calling VisibilityOps on the ranges  *)
(* of RingLayout.  CPUs are coherent among themselves: ExecRing has their  *)
(* races for a slot, and this module one holder of it at a time.           *)
(***************************************************************************)
EXTENDS RingLayout

CONSTANTS
  Slot, SlotCount, SlotStride,
  Sizes,              \* the payload_bytes that producers publish
  MaxGeneration,      \* bound on the generations explored
  Absent              \* a line that is not in the cache

ASSUME VisibilityAssumption ==
  /\ SlotCount \in Nat /\ SlotStride \in Nat /\ Slot \in 0 .. SlotCount - 1
  /\ FromRawParts(LineBytes, SlotCount * SlotStride, SlotCount, SlotStride)
  /\ Sizes \subseteq 0 .. Capacity(SlotStride)
  /\ MaxGeneration \in Nat

LinesOf(range) == {l \in 0 .. SlotCount * SlotStride : Covers(range, l)}
Header == HeaderRange(SlotStride, Slot).offset \div LineBytes
PayloadLines(n) == LinesOf(PayloadRange(SlotStride, Slot, n))
Payload == PayloadLines(Capacity(SlotStride))
SlotLines == {Header} \cup Payload

\* The fields of ExecSlotHeader the GPU side reads; resource_revision goes with
\* payload_bytes.
Headers == [sequence : 0 .. 2 * MaxGeneration + 2, payload_bytes : Sizes \cup {0},
            gpu_timeline : {0, 1}]
Values == [by : {"nobody", "cpu", "gpu"}, at : 0 .. MaxGeneration]
ASSUME AbsentAssumption == Absent \notin Headers \cup Values
Fresh == [sequence |-> 0, payload_bytes |-> 0, gpu_timeline |-> 0]
Blank == [by |-> "nobody", at |-> 0]
Published(g) == 2 * g + 1

VARIABLES
  memory,            \* what the GPU sees
  cache, dirty,      \* what the CPU sees, and must still write back
  phase,             \* how far the slot's holder is in publish or retire
  generation, size,  \* of the CpuSlot or PublishedSlot
  gpu,               \* the GPU's work on the slot
  ours               \* history: memory has shown this ring's header since Init

ram == <<memory, ours>>
slot == <<phase, generation, size>>
vars == <<ram, cache, dirty, slot, gpu>>

TypeOK ==
  /\ memory = [l \in SlotLines |-> memory[l]] /\ cache = [l \in SlotLines |-> cache[l]]
  /\ memory[Header] \in Headers /\ cache[Header] \in Headers \cup {Absent}
  /\ \A l \in Payload : memory[l] \in Values /\ cache[l] \in Values \cup {Absent}
  /\ dirty \subseteq {l \in SlotLines : cache[l] # Absent}
  /\ phase \in {"free", "writing", "described", "visible", "sealed", "lost",
                "published", "invalidated", "cleared"}
  /\ generation \in 0 .. MaxGeneration /\ size \in Sizes \cup {0}
  /\ gpu \in {"idle", "running", "done"} /\ ours \in BOOLEAN

\* initialize_fresh leaves its headers in the cache: memory may still show what an
\* older ring over the mapping left there.
Init ==
  /\ \E h \in Headers : memory = [l \in SlotLines |-> IF l = Header THEN h ELSE Blank]
  /\ cache = [l \in SlotLines |-> IF l = Header THEN Fresh ELSE Absent]
  /\ dirty = {Header}
  /\ phase = "free" /\ generation = 0 /\ size = 0
  /\ gpu = "idle" /\ ours = FALSE

(* --- the cache --------------------------------------------------------- *)

View(l) == IF cache[l] = Absent THEN memory[l] ELSE cache[l]

Store(l, v) == cache' = [cache EXCEPT ![l] = v] /\ dirty' = dirty \cup {l}

Clean(lines) ==
  /\ memory' = [l \in SlotLines |-> IF l \in lines \cap dirty THEN cache[l] ELSE memory[l]]
  /\ dirty' = dirty \ lines
  /\ ours' = (ours \/ Header \in lines)

Discard(lines) ==
  /\ cache' = [l \in SlotLines |-> IF l \in lines THEN Absent ELSE cache[l]]
  /\ dirty' = dirty \ lines

\* A load, or a prefetch that nobody asked for.
Fetch(l) ==
  /\ cache[l] = Absent
  /\ cache' = [cache EXCEPT ![l] = memory[l]]
  /\ UNCHANGED <<ram, dirty, slot, gpu>>

Evict(l) ==
  /\ cache[l] # Absent
  /\ Clean({l})
  /\ cache' = [cache EXCEPT ![l] = Absent]
  /\ UNCHANGED <<slot, gpu>>

(* --- the producer ------------------------------------------------------ *)

Goto(label) == phase' = label

StoreHeader(h) == Store(Header, h) /\ UNCHANGED ram

\* try_acquire: the claim in debug_state makes the header's line dirty.
TryAcquire ==
  /\ phase = "free" /\ View(Header).sequence % 2 = 0
  /\ View(Header).sequence \div 2 <= MaxGeneration
  /\ generation' = View(Header).sequence \div 2
  /\ StoreHeader(View(Header))
  /\ Goto("writing")
  /\ UNCHANGED <<size, gpu>>

\* payload_mut gives the whole capacity, whatever will be published of it.
PayloadMut(l) ==
  /\ phase = "writing"
  /\ Store(l, [by |-> "cpu", at |-> generation])
  /\ UNCHANGED <<ram, slot, gpu>>

\* Variant: the sequence is stored with the other fields, before the flush.
DescribeSealed(n) ==
  /\ phase = "writing"
  /\ StoreHeader([sequence |-> Published(generation), payload_bytes |-> n, gpu_timeline |-> 0])
  /\ size' = n
  /\ Goto("described")
  /\ UNCHANGED <<generation, gpu>>

Describe(n) ==
  /\ phase = "writing"
  /\ StoreHeader([View(Header) EXCEPT !.payload_bytes = n, !.gpu_timeline = 0])
  /\ size' = n
  /\ Goto("described")
  /\ UNCHANGED <<generation, gpu>>

\* Variant: only the header's line is made visible to the GPU.
HeaderOnly ==
  /\ phase = "described"
  /\ Clean(LinesOf(HeaderRange(SlotStride, Slot)))
  /\ Goto("visible")
  /\ UNCHANGED <<cache, generation, size, gpu>>

MakeGpuVisible ==
  /\ phase = "described"
  /\ Clean(LinesOf(SlotRange(SlotStride, Slot, size)))
  /\ Goto("visible")
  /\ UNCHANGED <<cache, generation, size, gpu>>

\* From here on executors can open the slot, though publish has not returned.
Seal ==
  /\ phase = "visible"
  /\ StoreHeader([View(Header) EXCEPT !.sequence = Published(generation)])
  /\ Goto("sealed")
  /\ UNCHANGED <<generation, size, gpu>>

\* Variant: the flush of the data is trusted to have done it.
DontPublish ==
  /\ phase = "sealed"
  /\ Goto("published")
  /\ UNCHANGED <<ram, cache, dirty, generation, size, gpu>>

PublishSlot ==
  /\ phase = "sealed"
  /\ Clean(LinesOf(HeaderRange(SlotStride, Slot)))
  /\ Goto("published")
  /\ UNCHANGED <<cache, generation, size, gpu>>

\* The CpuSlot goes unpublished: dropped as it is, refused as too large, or after
\* either flush failed.  What a failed flush did write back, Evict does.
Drop ==
  /\ phase \in {"writing", "described", "sealed"}
  /\ StoreHeader([View(Header) EXCEPT !.payload_bytes = 0, !.gpu_timeline = 0])
  /\ Goto(IF phase = "sealed" THEN "lost" ELSE "free")
  /\ UNCHANGED <<generation, size, gpu>>

(* --- executor and GPU -------------------------------------------------- *)

\* published asks for the odd sequence only: an executor may open the slot before
\* the flush of the header, and even if that flush fails.
Opened == phase \in {"sealed", "lost", "published"}

GpuStarts ==
  /\ Opened /\ gpu = "idle"
  /\ gpu' = "running"
  /\ UNCHANGED <<ram, cache, dirty, slot>>

\* The GPU leaves results in the payload that the header in memory describes.
GpuWrites(l) ==
  /\ gpu = "running"
  /\ l \in PayloadLines(memory[Header].payload_bytes)
  /\ memory' = [memory EXCEPT ![l] = [by |-> "gpu", at |-> generation]]
  /\ UNCHANGED <<ours, cache, dirty, slot, gpu>>

GpuFinishes ==
  /\ gpu = "running"
  /\ gpu' = "done"
  /\ UNCHANGED <<ram, cache, dirty, slot>>

\* The timeline comes from the submission; the header in memory need not show it.
\* A slot that Drop has set free is refused.
MarkInFlight ==
  /\ Opened /\ phase # "lost" /\ gpu # "idle" /\ View(Header).gpu_timeline = 0
  /\ StoreHeader([View(Header) EXCEPT !.gpu_timeline = 1])
  /\ UNCHANGED <<slot, gpu>>

(* --- retire ------------------------------------------------------------ *)

\* Neither does retire wait for publish to return.  The flush that publish then has yet
\* to make is an Evict and a Fetch of the header's line.
Retirable ==
  /\ phase \in {"sealed", "published"}
  /\ View(Header).gpu_timeline # 0 /\ gpu = "done"

\* Variant: only the header's line is made visible to the CPU.
HeaderVisible ==
  /\ Retirable
  /\ Discard(LinesOf(HeaderRange(SlotStride, Slot)))
  /\ Goto("invalidated")
  /\ UNCHANGED <<ram, generation, size, gpu>>

MakeCpuVisible ==
  /\ Retirable
  /\ Discard(PayloadLines(View(Header).payload_bytes))
  /\ Goto("invalidated")
  /\ UNCHANGED <<ram, generation, size, gpu>>

\* It may fail having dropped some of the lines; the slot stays published.
MakeCpuVisibleFails ==
  /\ Retirable
  /\ \E lines \in SUBSET PayloadLines(View(Header).payload_bytes) : Discard(lines)
  /\ UNCHANGED <<ram, slot, gpu>>

RetireClears ==
  /\ phase = "invalidated"
  /\ StoreHeader([View(Header) EXCEPT !.payload_bytes = 0, !.gpu_timeline = 0])
  /\ Goto("cleared")
  /\ UNCHANGED <<generation, size, gpu>>

Free ==
  /\ phase = "cleared"
  /\ StoreHeader([View(Header) EXCEPT !.sequence = 2 * (generation + 1)])
  /\ Goto("free")
  /\ gpu' = "idle"
  /\ UNCHANGED <<generation, size>>

Next ==
  \/ \E l \in SlotLines : Fetch(l) \/ Evict(l)
  \/ TryAcquire \/ Drop
  \/ \E l \in Payload : PayloadMut(l) \/ GpuWrites(l)
  \/ \E n \in Sizes : Describe(n)
  \/ MakeGpuVisible \/ Seal \/ PublishSlot
  \/ GpuStarts \/ GpuFinishes \/ MarkInFlight
  \/ MakeCpuVisible \/ MakeCpuVisibleFails \/ RetireClears \/ Free

Spec == Init /\ [][Next]_vars

(* --- what must hold ---------------------------------------------------- *)

\* "So a non-coherent GPU cannot observe stale `sequence`": from the moment publish
\* returns until retire, memory shows the header of this very publication, whatever
\* generation or older ring it showed before, marked in the CPU's own header or not.
HeaderArrives ==
  phase = "published" =>
    /\ memory[Header].sequence = Published(generation)
    /\ memory[Header].payload_bytes = size

\* "Flush slot data before the ownership marker moves": whenever the cache lets the
\* marker of this generation out, even before its flush or if that flush fails, the
\* payload that the header in memory describes is there as the producer left it.
SequenceNeverAheadOfData ==
  /\ ours /\ phase \notin {"free", "invalidated", "cleared"} /\ gpu = "idle"
  /\ memory[Header].sequence = Published(generation)
  => \A l \in PayloadLines(memory[Header].payload_bytes) : memory[l] = View(l)

\* The inductive invariant.  What the CPU reads in a line that it has not changed is
\* what memory holds, but for the payload while the GPU has it; the fields of the
\* header follow the phase, in the CPU's view and in memory.
Clear(l) == l \in dirty \/ cache[l] \in {Absent, memory[l]}
Invalidated == {"invalidated", "cleared"}
CacheClear ==
  \A l \in SlotLines :
    gpu = "idle" \/ phase \in Invalidated \/ l \notin PayloadLines(size) => Clear(l)
GpuInTurn ==
  /\ gpu # "idle" => Opened \/ phase \in Invalidated
  /\ phase \in Invalidated => gpu = "done"
PayloadClean ==
  phase \in {"visible", "sealed", "lost", "published", "invalidated", "cleared"} =>
    dirty \cap PayloadLines(size) = {}
SequenceFollows ==
  /\ phase \in {"writing", "described", "visible"} => View(Header).sequence = 2 * generation
  /\ phase \in {"sealed", "lost", "published", "invalidated", "cleared"} =>
       View(Header).sequence = Published(generation)
  /\ ours => memory[Header].sequence <= View(Header).sequence
SizeFollows ==
  /\ phase \in {"described", "visible", "sealed", "published", "invalidated"} =>
       View(Header).payload_bytes = size
  /\ phase \in {"visible", "sealed", "published", "invalidated"} =>
       memory[Header].payload_bytes = size
  /\ phase \in {"lost", "cleared"} =>
       {memory[Header].payload_bytes, View(Header).payload_bytes} \subseteq {0, size}

VisibilityInvariant ==
  /\ TypeOK /\ CacheClear /\ GpuInTurn /\ PayloadClean
  /\ SequenceFollows /\ SizeFollows /\ HeaderArrives

\* To its users the slot is memory that two owners pass back and forth, the odd
\* sequence handing it over: the GPU reads what the producer wrote, however early it
\* starts, no late write-back of the CPU goes over its results, and the next producer
\* finds these, nothing older.
Owner == IF Opened \/ phase \in Invalidated THEN "gpu" ELSE "cpu"
Handed == IF Owner = "gpu" THEN PayloadLines(size) ELSE {}
Content == [l \in Payload |-> IF l \in Handed THEN memory[l] ELSE View(l)]
Shared == INSTANCE SharedSlot WITH
            Lines <- Payload, owner <- Owner, handed <- Handed, content <- Content
ImplementsSharedSlot == Shared!Spec
=============================================================================
