------------------------------ MODULE ExecRing ------------------------------
(***************************************************************************)
(* The execution ring of cubism.rs: slots in shared memory that producers  *)
(* claim, fill and publish without a lock, that executors hand to the GPU, *)
(* and that a retirer frees once the GPU timeline has passed them.         *)
(*                                                                         *)
(* Every atomic operation another thread can see is a step.  A load that   *)
(* only selects the next branch is a step with that branch; relaxed stores *)
(* of one thread that no other thread reads in between are one step.       *)
(***************************************************************************)
EXTENDS Integers, Sequences

CONSTANTS
  Producers, Executors, Retirers,  \* threads, one role each
  SlotCount,
  MaxU64,        \* u64::MAX: the last sequence number a slot can show
  HintRange,     \* 2^64: where the producer hint wraps around
  MaxJobs,       \* bound on the GPU submissions explored
  FailingOps,    \* the VisibilityOps of this platform that may fail
  SubmitOnce     \* each publication is submitted to the GPU only once

ASSUME RingAssumption ==
  /\ SlotCount \in Nat \ {0}
  /\ MaxU64 \in Nat /\ MaxU64 % 2 = 1
  /\ HintRange \in Nat \ {0}
  /\ MaxJobs \in Nat
  /\ FailingOps \subseteq {"data", "control", "invalidate"}
  /\ SubmitOnce \in BOOLEAN

Slots == 0 .. SlotCount - 1
Sequences == 0 .. MaxU64
Generations == 0 .. MaxU64 \div 2
DebugStates == {"Free", "CpuWriting", "CpuSealed", "GpuInFlight", "GpuComplete"}
Handles == [slot : Slots, generation : Generations]
NoHandle == [slot |-> 0, generation |-> 0]
Nobody == "nobody"
ASSUME NobodyAssumption == Nobody \notin Producers

VARIABLES
  sequence, debug_state, gpu_timeline,  \* the header of each slot
  metadata,       \* whose payload_bytes and resource_revision it shows
  payload,        \* who wrote the payload last
  producer_hint,
  ppc, start, probe, cpu,  \* try_acquire, and the CpuSlot it returns
  epc, view, ticket,       \* an executor, its PublishedSlot, its timeline point
  rpc, target, done,       \* retire, its arguments
  jobs, completed,         \* the GPU: work in timeline order, how far it is
  free_since     \* history: slots free ever since this producer's scan began

ring == <<sequence, debug_state, gpu_timeline, metadata, payload>>
producers == <<producer_hint, ppc, start, probe, cpu>>
executors == <<epc, view, ticket>>
retirers == <<rpc, target, done>>
gpu == <<jobs, completed>>
vars == <<ring, producers, executors, retirers, gpu, free_since>>

ScanPcs == {"scan", "claim", "recheck", "unclaim"}
HoldPcs == {"own", "seal", "store", "drop", "release"}
ProducerPcs == {"idle", "control"} \cup ScanPcs \cup HoldPcs
ExecutorPcs == {"idle", "submit", "check", "cas", "stamp"}
RetirerPcs == {"idle", "timeline", "clear", "next", "free"}

TypeOK ==
  /\ sequence \in [Slots -> Sequences]
  /\ debug_state \in [Slots -> DebugStates]
  /\ gpu_timeline \in [Slots -> Nat]
  /\ metadata \in [Slots -> Producers \cup {Nobody}]
  /\ payload \in [Slots -> Producers \cup {Nobody}]
  /\ producer_hint \in 0 .. HintRange - 1
  /\ ppc \in [Producers -> ProducerPcs]
  /\ start \in [Producers -> 0 .. HintRange - 1]
  /\ probe \in [Producers -> 0 .. SlotCount]
  /\ \A p \in Producers :
       ppc[p] \in {"claim", "recheck", "unclaim"} => probe[p] < SlotCount
  /\ cpu \in [Producers -> Handles]
  /\ epc \in [Executors -> ExecutorPcs]
  /\ view \in [Executors -> Handles]
  /\ ticket \in [Executors -> Nat]
  /\ rpc \in [Retirers -> RetirerPcs]
  /\ target \in [Retirers -> Handles]
  /\ done \in [Retirers -> Nat]
  /\ jobs \in Seq(Handles)
  /\ completed \in 0 .. Len(jobs)
  /\ free_since \in [Producers -> SUBSET Slots]

\* A fresh ring: every slot is free at generation 0.
Init ==
  /\ sequence = [i \in Slots |-> 0]
  /\ debug_state = [i \in Slots |-> "Free"]
  /\ gpu_timeline = [i \in Slots |-> 0]
  /\ metadata = [i \in Slots |-> Nobody]
  /\ payload = [i \in Slots |-> Nobody]
  /\ producer_hint = 0
  /\ ppc = [p \in Producers |-> "idle"]
  /\ start = [p \in Producers |-> 0]
  /\ probe = [p \in Producers |-> 0]
  /\ cpu = [p \in Producers |-> NoHandle]
  /\ epc = [e \in Executors |-> "idle"]
  /\ view = [e \in Executors |-> NoHandle]
  /\ ticket = [e \in Executors |-> 0]
  /\ rpc = [r \in Retirers |-> "idle"]
  /\ target = [r \in Retirers |-> NoHandle]
  /\ done = [r \in Retirers |-> 0]
  /\ jobs = << >>
  /\ completed = 0
  /\ free_since = [p \in Producers |-> {}]

IsFree(seq) == seq % 2 = 0
Generation(seq) == seq \div 2
FreeSequence(g) == 2 * g
PublishedSequence(g) == 2 * g + 1
HandleOf(i) == [slot |-> i, generation |-> Generation(sequence[i])]
IsPublished(h) == sequence[h.slot] = PublishedSequence(h.generation)

(* --- try_acquire ------------------------------------------------------- *)

Probed(first, n) == ((first + n) % HintRange) % SlotCount
Index(p) == Probed(start[p], probe[p])

Goto(p, label) == ppc' = [ppc EXCEPT ![p] = label]
Scanned(p) ==
  /\ start' = [start EXCEPT ![p] = 0]
  /\ probe' = [probe EXCEPT ![p] = 0]
NextProbe(p) ==
  /\ Goto(p, "scan")
  /\ probe' = [probe EXCEPT ![p] = @ + 1]
  /\ cpu' = [cpu EXCEPT ![p] = NoHandle]
  /\ UNCHANGED <<producer_hint, start>>

StartScan(p) ==
  /\ ppc[p] = "idle"
  /\ start' = [start EXCEPT ![p] = producer_hint]
  /\ producer_hint' = (producer_hint + 1) % HintRange
  /\ Goto(p, "scan")
  /\ UNCHANGED <<ring, probe, cpu>>

SkipPublished(p) ==
  /\ ppc[p] = "scan" /\ probe[p] < SlotCount
  /\ ~IsFree(sequence[Index(p)])
  /\ NextProbe(p)
  /\ UNCHANGED ring

LoadSequence(p) ==
  /\ ppc[p] = "scan" /\ probe[p] < SlotCount
  /\ IsFree(sequence[Index(p)])
  /\ cpu' = [cpu EXCEPT ![p] = HandleOf(Index(p))]
  /\ Goto(p, "claim")
  /\ UNCHANGED <<ring, producer_hint, start, probe>>

\* Variant: the first lost claim ends the scan.
ClaimEndsScan(p) ==
  /\ ppc[p] = "claim"
  /\ debug_state[cpu[p].slot] # "Free"
  /\ Goto(p, "scan")
  /\ probe' = [probe EXCEPT ![p] = SlotCount]
  /\ cpu' = [cpu EXCEPT ![p] = NoHandle]
  /\ UNCHANGED <<ring, producer_hint, start>>

ClaimFails(p) ==
  /\ ppc[p] = "claim"
  /\ debug_state[cpu[p].slot] # "Free"
  /\ NextProbe(p)
  /\ UNCHANGED ring

\* Variant: the guard is stored without comparing it first.
ClaimStores(p) ==
  /\ ppc[p] = "claim"
  /\ debug_state' = [debug_state EXCEPT ![cpu[p].slot] = "CpuWriting"]
  /\ Goto(p, "recheck")
  /\ UNCHANGED <<sequence, gpu_timeline, metadata, payload>>
  /\ UNCHANGED <<producer_hint, start, probe, cpu>>

Claim(p) ==
  /\ ppc[p] = "claim"
  /\ debug_state[cpu[p].slot] = "Free"
  /\ debug_state' = [debug_state EXCEPT ![cpu[p].slot] = "CpuWriting"]
  /\ Goto(p, "recheck")
  /\ UNCHANGED <<sequence, gpu_timeline, metadata, payload>>
  /\ UNCHANGED <<producer_hint, start, probe, cpu>>

\* Variant: the sequence loaded before the claim is trusted.
RecheckSkipped(p) ==
  /\ ppc[p] = "recheck"
  /\ Goto(p, "own") /\ Scanned(p)
  /\ UNCHANGED <<ring, producer_hint, cpu>>

Recheck(p) ==
  /\ ppc[p] = "recheck"
  /\ sequence[cpu[p].slot] = FreeSequence(cpu[p].generation)
  /\ Goto(p, "own") /\ Scanned(p)
  /\ UNCHANGED <<ring, producer_hint, cpu>>

RecheckFails(p) ==
  /\ ppc[p] = "recheck"
  /\ sequence[cpu[p].slot] # FreeSequence(cpu[p].generation)
  /\ Goto(p, "unclaim")
  /\ UNCHANGED <<ring, producer_hint, start, probe, cpu>>

\* Variant: a lost recheck keeps the guard.
UnclaimForgets(p) ==
  /\ ppc[p] = "unclaim"
  /\ NextProbe(p)
  /\ UNCHANGED ring

Unclaim(p) ==
  /\ ppc[p] = "unclaim"
  /\ debug_state' = [debug_state EXCEPT ![cpu[p].slot] = "Free"]
  /\ NextProbe(p)
  /\ UNCHANGED <<sequence, gpu_timeline, metadata, payload>>

RingFull(p) ==
  /\ ppc[p] = "scan" /\ probe[p] = SlotCount
  /\ Goto(p, "idle") /\ Scanned(p)
  /\ UNCHANGED <<ring, producer_hint, cpu>>

(* --- CpuSlot: payload_mut, publish, drop ------------------------------- *)

WritePayload(p) ==
  /\ ppc[p] = "own"
  /\ payload' = [payload EXCEPT ![cpu[p].slot] = p]
  /\ UNCHANGED <<sequence, debug_state, gpu_timeline, metadata, producers>>

\* The slot is dropped, or publish refuses a payload larger than the slot.
Abandon(p) ==
  /\ ppc[p] = "own"
  /\ Goto(p, "drop")
  /\ UNCHANGED <<ring, producer_hint, start, probe, cpu>>

\* publish fills the header and makes header and payload visible to the GPU.
FlushData(p) ==
  /\ ppc[p] = "own"
  /\ metadata' = [metadata EXCEPT ![cpu[p].slot] = p]
  /\ gpu_timeline' = [gpu_timeline EXCEPT ![cpu[p].slot] = 0]
  /\ \/ Goto(p, "seal")
     \/ "data" \in FailingOps /\ Goto(p, "drop")
  /\ UNCHANGED <<sequence, debug_state, payload, producer_hint, start, probe, cpu>>

Seal(p) ==
  /\ ppc[p] = "seal"
  /\ debug_state' = [debug_state EXCEPT ![cpu[p].slot] = "CpuSealed"]
  /\ Goto(p, "store")
  /\ UNCHANGED <<sequence, gpu_timeline, metadata, payload>>
  /\ UNCHANGED <<producer_hint, start, probe, cpu>>

\* From here on every executor that looks sees the slot published.
StoreSequence(p) ==
  /\ ppc[p] = "store"
  /\ sequence' = [sequence EXCEPT ![cpu[p].slot] =
                    PublishedSequence(cpu[p].generation)]
  /\ Goto(p, "control")
  /\ UNCHANGED <<debug_state, gpu_timeline, metadata, payload>>
  /\ UNCHANGED <<producer_hint, start, probe, cpu>>

\* The flush of the header alone; only after it is the CpuSlot `published`,
\* so that its failure runs drop.
FlushControl(p) ==
  /\ ppc[p] = "control"
  /\ Goto(p, "idle")
  /\ cpu' = [cpu EXCEPT ![p] = NoHandle]
  /\ UNCHANGED <<ring, producer_hint, start, probe>>

FlushControlFails(p) ==
  /\ ppc[p] = "control"
  /\ "control" \in FailingOps
  /\ Goto(p, "drop")
  /\ UNCHANGED <<ring, producer_hint, start, probe, cpu>>

DropClears(p) ==
  /\ ppc[p] = "drop"
  /\ metadata' = [metadata EXCEPT ![cpu[p].slot] = Nobody]
  /\ gpu_timeline' = [gpu_timeline EXCEPT ![cpu[p].slot] = 0]
  /\ Goto(p, "release")
  /\ UNCHANGED <<sequence, debug_state, payload, producer_hint, start, probe, cpu>>

DropReleases(p) ==
  /\ ppc[p] = "release"
  /\ debug_state' = [debug_state EXCEPT ![cpu[p].slot] = "Free"]
  /\ Goto(p, "idle")
  /\ cpu' = [cpu EXCEPT ![p] = NoHandle]
  /\ UNCHANGED <<sequence, gpu_timeline, metadata, payload>>
  /\ UNCHANGED <<producer_hint, start, probe>>

(* --- executors: published, the submission, mark_in_flight -------------- *)

Carried(h) == \E e \in Executors : epc[e] # "idle" /\ view[e] = h
Submitted(h) == \E t \in 1 .. Len(jobs) : jobs[t] = h

Open(e, i) ==
  /\ epc[e] = "idle"
  /\ ~IsFree(sequence[i])
  /\ SubmitOnce => ~Carried(HandleOf(i)) /\ ~Submitted(HandleOf(i))
  /\ view' = [view EXCEPT ![e] = HandleOf(i)]
  /\ epc' = [epc EXCEPT ![e] = "submit"]
  /\ UNCHANGED <<ring, ticket, gpu>>

\* The GPU runtime queues the work and returns its point on the timeline.
GpuSubmit(e) ==
  /\ epc[e] = "submit"
  /\ Len(jobs) < MaxJobs
  /\ jobs' = Append(jobs, view[e])
  /\ ticket' = [ticket EXCEPT ![e] = Len(jobs) + 1]
  /\ epc' = [epc EXCEPT ![e] = "check"]
  /\ UNCHANGED <<ring, view, completed>>

ExecutorIdle(e) ==
  /\ epc' = [epc EXCEPT ![e] = "idle"]
  /\ view' = [view EXCEPT ![e] = NoHandle]
  /\ ticket' = [ticket EXCEPT ![e] = 0]

MarkChecks(e) ==
  /\ epc[e] = "check"
  /\ IF IsPublished(view[e])
     THEN epc' = [epc EXCEPT ![e] = "cas"] /\ UNCHANGED <<view, ticket>>
     ELSE ExecutorIdle(e)
  /\ UNCHANGED <<ring, gpu>>

MarkClaims(e) ==
  /\ epc[e] = "cas"
  /\ IF debug_state[view[e].slot] = "CpuSealed"
     THEN /\ debug_state' = [debug_state EXCEPT ![view[e].slot] = "GpuInFlight"]
          /\ epc' = [epc EXCEPT ![e] = "stamp"]
          /\ UNCHANGED <<view, ticket>>
     ELSE ExecutorIdle(e) /\ UNCHANGED debug_state
  /\ UNCHANGED <<sequence, gpu_timeline, metadata, payload, gpu>>

\* Variant: the timeline is not stored at all.
MarkForgets(e) ==
  /\ epc[e] = "stamp"
  /\ ExecutorIdle(e)
  /\ UNCHANGED <<ring, gpu>>

MarkStamps(e) ==
  /\ epc[e] = "stamp"
  /\ gpu_timeline' = [gpu_timeline EXCEPT ![view[e].slot] = ticket[e]]
  /\ ExecutorIdle(e)
  /\ UNCHANGED <<sequence, debug_state, metadata, payload, gpu>>

\* The GPU finishes its work in timeline order.
GpuComplete ==
  /\ completed < Len(jobs)
  /\ completed' = completed + 1
  /\ UNCHANGED jobs

(* --- retire ------------------------------------------------------------ *)

RetirerIdle(r) ==
  /\ rpc' = [rpc EXCEPT ![r] = "idle"]
  /\ target' = [target EXCEPT ![r] = NoHandle]
  /\ done' = [done EXCEPT ![r] = 0]

\* Called with the timeline value the GPU has reached by now.
RetireChecks(r, i) ==
  /\ rpc[r] = "idle"
  /\ ~IsFree(sequence[i])
  /\ target' = [target EXCEPT ![r] = HandleOf(i)]
  /\ done' = [done EXCEPT ![r] = completed]
  /\ rpc' = [rpc EXCEPT ![r] = "timeline"]
  /\ UNCHANGED ring

\* Variants: the comparison is dropped, off by one, or made without the zero test.
TimelineStamped(r) == gpu_timeline[target[r].slot] # 0
TimelineAlmost(r) ==
  /\ gpu_timeline[target[r].slot] # 0
  /\ gpu_timeline[target[r].slot] <= done[r] + 1
TimelineReached(r) == gpu_timeline[target[r].slot] <= done[r]

TimelineComplete(r) ==
  /\ gpu_timeline[target[r].slot] # 0
  /\ gpu_timeline[target[r].slot] <= done[r]

\* NotSubmitted, TimelineNotComplete, or the GPU's writes cannot be made visible.
RetireRefused(r) ==
  /\ rpc[r] = "timeline"
  /\ ~TimelineComplete(r) \/ "invalidate" \in FailingOps
  /\ RetirerIdle(r)
  /\ UNCHANGED ring

RetireAccepted(r) ==
  /\ rpc[r] = "timeline"
  /\ TimelineComplete(r)
  /\ rpc' = [rpc EXCEPT ![r] = "clear"]
  /\ UNCHANGED <<ring, target, done>>

\* Variant: the timeline is left for the next generation.
RetireKeepsTimeline(r) ==
  /\ rpc[r] = "clear"
  /\ debug_state' = [debug_state EXCEPT ![target[r].slot] = "GpuComplete"]
  /\ metadata' = [metadata EXCEPT ![target[r].slot] = Nobody]
  /\ rpc' = [rpc EXCEPT ![r] = "next"]
  /\ UNCHANGED <<sequence, gpu_timeline, payload, target, done>>

RetireClears(r) ==
  /\ rpc[r] = "clear"
  /\ debug_state' = [debug_state EXCEPT ![target[r].slot] = "GpuComplete"]
  /\ metadata' = [metadata EXCEPT ![target[r].slot] = Nobody]
  /\ gpu_timeline' = [gpu_timeline EXCEPT ![target[r].slot] = 0]
  /\ rpc' = [rpc EXCEPT ![r] = "next"]
  /\ UNCHANGED <<sequence, payload, target, done>>

NextSequence(g) == FreeSequence(g + 1)

RetireStores(r) ==
  /\ rpc[r] = "next"
  /\ NextSequence(target[r].generation) <= MaxU64
  /\ sequence' = [sequence EXCEPT ![target[r].slot] =
                    NextSequence(target[r].generation)]
  /\ rpc' = [rpc EXCEPT ![r] = "free"]
  /\ UNCHANGED <<debug_state, gpu_timeline, metadata, payload, target, done>>

\* GenerationOverflow, after the header has been cleared.
RetireOverflows(r) ==
  /\ rpc[r] = "next"
  /\ NextSequence(target[r].generation) > MaxU64
  /\ RetirerIdle(r)
  /\ UNCHANGED ring

RetireFrees(r) ==
  /\ rpc[r] = "free"
  /\ debug_state' = [debug_state EXCEPT ![target[r].slot] = "Free"]
  /\ RetirerIdle(r)
  /\ UNCHANGED <<sequence, gpu_timeline, metadata, payload>>

(* --- the system -------------------------------------------------------- *)

\* What a producer does once it has asked for a slot.
ProducerBusy(p) ==
  \/ SkipPublished(p) \/ LoadSequence(p) \/ ClaimFails(p) \/ Claim(p)
  \/ Recheck(p) \/ RecheckFails(p) \/ Unclaim(p) \/ RingFull(p)
  \/ Abandon(p) \/ FlushData(p) \/ Seal(p) \/ StoreSequence(p)
  \/ FlushControl(p) \/ FlushControlFails(p) \/ DropClears(p) \/ DropReleases(p)

ProducerStep(p) ==
  /\ StartScan(p) \/ WritePayload(p) \/ ProducerBusy(p)
  /\ UNCHANGED <<executors, retirers, gpu>>

ExecutorStep(e) ==
  /\ \/ \E i \in Slots : Open(e, i)
     \/ GpuSubmit(e) \/ MarkChecks(e) \/ MarkClaims(e) \/ MarkStamps(e)
  /\ UNCHANGED <<producers, retirers>>

GpuStep == GpuComplete /\ UNCHANGED <<ring, producers, executors, retirers>>

RetirerBusy(r) ==
  \/ RetireRefused(r) \/ RetireAccepted(r) \/ RetireClears(r)
  \/ RetireStores(r) \/ RetireOverflows(r) \/ RetireFrees(r)

RetirerStep(r) ==
  /\ (\E i \in Slots : RetireChecks(r, i)) \/ RetirerBusy(r)
  /\ UNCHANGED <<producers, executors, gpu>>

\* A slot a producer could take: even sequence, guard Free.
FreeSlots == {i \in Slots : IsFree(sequence[i]) /\ debug_state[i] = "Free"}

ObserveFree ==
  free_since' = [p \in Producers |->
    CASE ppc'[p] \notin ScanPcs -> {}
      [] ppc'[p] \in ScanPcs /\ ppc[p] = "idle" -> FreeSlots'
      [] OTHER -> free_since[p] \cap FreeSlots']

Next ==
  /\ \/ \E p \in Producers : ProducerStep(p)
     \/ \E e \in Executors : ExecutorStep(e)
     \/ GpuStep
     \/ \E r \in Retirers : RetirerStep(r)
  /\ ObserveFree

Spec == Init /\ [][Next]_vars
(* --- what must hold ---------------------------------------------------- *)

Guarding(p) == ppc[p] \in {"recheck", "unclaim"} \cup HoldPcs
Holds(p, i) == ppc[p] \in HoldPcs /\ cpu[p].slot = i

\* A CpuSlot is the only one of its slot, and its slot is not published: what
\* payload_mut lends out as `&mut [u8]` is aliased by no producer and no GPU.
SingleWriter ==
  \A p \in Producers : ppc[p] \in HoldPcs =>
    /\ IsFree(sequence[cpu[p].slot])
    /\ \A q \in Producers \ {p} : ~Holds(q, cpu[p].slot)

\* While the GPU has work on a slot queued or running, the slot stays published
\* at the generation the work was submitted for, with its header intact: retire
\* never frees a slot under the GPU, whatever the order of mark and retire.
GpuOwnsRunningSlots ==
  \A t \in completed + 1 .. Len(jobs) :
    IsPublished(jobs[t]) /\ metadata[jobs[t].slot] # Nobody

\* A timeline point found in a header is that of this very generation's
\* submission: retire can trust the value it compares with the GPU's progress.
TimelineBelongsToGeneration ==
  \A i \in Slots : gpu_timeline[i] # 0 =>
    gpu_timeline[i] <= Len(jobs) /\ jobs[gpu_timeline[i]] = HandleOf(i)

\* mark_in_flight is never refused once the work is on the GPU (a refusal would
\* leave a slot that retire never frees).
MarkNeverRefused ==
  \A e \in Executors :
    /\ epc[e] \in {"check", "cas"} => IsPublished(view[e])
    /\ epc[e] = "cas" => debug_state[view[e].slot] = "CpuSealed"

\* Who still has slot i in hand: a retire between two of its stores, an executor, a
\* job on the GPU, a producer.
Clearing(i, pc) == \E r \in Retirers : rpc[r] = pc /\ target[r].slot = i
MovesOn(i) ==
  \/ debug_state[i] = "CpuSealed" /\ (Carried(HandleOf(i)) \/ ~Submitted(HandleOf(i)))
  \/ debug_state[i] = "GpuInFlight" /\ (Carried(HandleOf(i)) \/ gpu_timeline[i] # 0)
  \/ debug_state[i] = "GpuComplete" /\ (Clearing(i, "next") \/ sequence[i] = MaxU64)
Kept(i) ==
  \/ debug_state[i] = "Free" /\ IsFree(sequence[i])
  \/ \E p \in Producers : Guarding(p) /\ cpu[p].slot = i
  \/ debug_state[i] = "GpuComplete" /\ Clearing(i, "free")
  \/ ~IsFree(sequence[i]) /\ MovesOn(i)
\* A slot whose guard is not Free is on its way: some thread is inside a call
\* that moves it on, or an executor can still open it, or retire can still free
\* it.  The one exception is the last generation, which nothing frees.
NoSlotLost == \A i \in Slots : Kept(i)

\* try_acquire answers RingFull only when no slot has been free all through its
\* scan, however the other producers and retire moved meanwhile.
NoFalseRingFull ==
  \A p \in Producers : ppc[p] = "scan" /\ probe[p] = SlotCount => free_since[p] = {}

\* A published slot keeps the payload and the header it was published with until
\* the GPU has completed the work submitted for it.
PublishedImmutable ==
  [][\A i \in Slots :
       ~IsFree(sequence[i]) /\ (\A t \in 1 .. completed : jobs[t] # HandleOf(i))
         => payload'[i] = payload[i] /\ metadata'[i] = metadata[i]]_vars

\* A sequence never jumps and never goes back: publish and retire each move
\* their slot to the next number, exactly once per generation.
SequenceSteps ==
  [][\A i \in Slots : sequence'[i] \in {sequence[i], sequence[i] + 1}]_vars

\* "Abandoned before publication: no generation change": what drop cleans up has
\* not been published.
AbandonedUnpublished ==
  \A p \in Producers : ppc[p] \in {"drop", "release"} =>
    sequence[cpu[p].slot] = FreeSequence(cpu[p].generation)

\* The ring keeps the promises of SlotOwnership: even slots are free or one
\* producer's; odd ones go from published over running to done with their job.
Holder(i) ==
  LET work == {t \in 1 .. Len(jobs) : jobs[t] = HandleOf(i)}
  IN IF IsFree(sequence[i])
     THEN IF \E p \in Producers : Holds(p, i) THEN "cpu" ELSE "free"
     ELSE IF work = {} THEN "published"
     ELSE IF \E t \in work : t > completed THEN "running" ELSE "done"

Ownership == INSTANCE SlotOwnership WITH
  holder <- [i \in Slots |-> Holder(i)],
  generation <- [i \in Slots |-> Generation(sequence[i])]
RefinesOwnership == Ownership!Spec

(* --- the inductive invariant ------------------------------------------- *)

\* The calling discipline under which the ring is correct: one retirer, control
\* flushes that do not fail, and one submission of each published handle.
Disciplined ==
  /\ \A r, s \in Retirers : r = s
  /\ "control" \notin FailingOps
  /\ SubmitOnce

\* One producer at most is past the guard of a slot, the slot is free of the
\* GPU, and its sequence is the one a CpuSlot was made for.
GuardsHold ==
  \A p \in Producers : Guarding(p) =>
    /\ \A q \in Producers \ {p} : Guarding(q) => cpu[q].slot # cpu[p].slot
    /\ IsFree(sequence[cpu[p].slot])
    /\ debug_state[cpu[p].slot] = IF ppc[p] = "store" THEN "CpuSealed" ELSE "CpuWriting"
    /\ ppc[p] \in HoldPcs => sequence[cpu[p].slot] = FreeSequence(cpu[p].generation)
    /\ ppc[p] \in {"seal", "store"} => metadata[cpu[p].slot] = p

\* What the debug state of a published slot says about it.
PublishedStates ==
  \A i \in Slots : ~IsFree(sequence[i]) =>
    /\ debug_state[i] \in {"CpuSealed", "GpuInFlight", "GpuComplete"}
    /\ debug_state[i] \in {"CpuSealed", "GpuInFlight"} => metadata[i] # Nobody
    /\ debug_state[i] \in {"GpuInFlight", "GpuComplete"} => Submitted(HandleOf(i))

\* A handle an executor works on is still published, unmarked, and nobody else's.
HandlesHold ==
  \A e \in Executors : epc[e] # "idle" =>
    /\ IsPublished(view[e])
    /\ gpu_timeline[view[e].slot] = 0
    /\ debug_state[view[e].slot] = IF epc[e] = "stamp" THEN "GpuInFlight" ELSE "CpuSealed"
    /\ \A f \in Executors \ {e} : epc[f] # "idle" => view[f] # view[e]
    /\ epc[e] # "submit" => ticket[e] \in 1 .. Len(jobs) /\ jobs[ticket[e]] = view[e]

\* The generation a retirer works on stays put until the retirer moves it.
TargetsHold ==
  \A r \in Retirers :
    /\ done[r] <= completed
    /\ rpc[r] \in {"timeline", "clear", "next"} => IsPublished(target[r])
    /\ rpc[r] = "clear" =>
         /\ gpu_timeline[target[r].slot] \in 1 .. completed
         /\ debug_state[target[r].slot] = "GpuInFlight"
    /\ rpc[r] \in {"next", "free"} => debug_state[target[r].slot] = "GpuComplete"
    /\ rpc[r] = "free" => IsFree(sequence[target[r].slot])

\* A stamped slot is in flight for the work its timeline names.
TimelinesHold ==
  \A i \in Slots : gpu_timeline[i] # 0 =>
    /\ ~IsFree(sequence[i])
    /\ debug_state[i] = "GpuInFlight"
    /\ gpu_timeline[i] <= Len(jobs) /\ jobs[gpu_timeline[i]] = HandleOf(i)

\* Unfinished work is about to be stamped on its slot, or has been.
WorkHolds ==
  \A t \in completed + 1 .. Len(jobs) :
    \/ gpu_timeline[jobs[t].slot] = t
    \/ \E e \in Executors : epc[e] \in {"check", "cas", "stamp"} /\ ticket[e] = t

\* No job is of a generation its slot has yet to reach, and none is there twice: what
\* NoSlotLost and the refinement need beside RingInvariant.
JobsBehind ==
  \A t \in 1 .. Len(jobs) :
    PublishedSequence(jobs[t].generation) <= sequence[jobs[t].slot]
JobsOnce ==
  /\ \A s, t \in 1 .. Len(jobs) : jobs[s] = jobs[t] => s = t
  /\ \A e \in Executors : epc[e] = "submit" => ~Submitted(view[e])

\* The hint wraps around at a multiple of the slots: then a scan meets them all.
HintWrapsEvenly == HintRange % SlotCount = 0

\* A scan has yet to probe every slot that has stayed free since it began; the slot
\* whose guard it took did not stay free.
ScanHolds ==
  \A p \in Producers :
    /\ ppc[p] \notin ScanPcs => probe[p] = 0
    /\ ppc[p] \in {"claim", "recheck", "unclaim"} => cpu[p].slot = Index(p)
    /\ ppc[p] \in {"recheck", "unclaim"} => Index(p) \notin free_since[p]
    /\ ppc[p] \in ScanPcs =>
         \A i \in free_since[p] :
           \E n \in probe[p] .. SlotCount - 1 : i = Probed(start[p], n)

\* Together: inductive for a disciplined ring, and enough for the safety above.
RingInvariant ==
  TypeOK /\ GuardsHold /\ PublishedStates /\ HandlesHold
  /\ TargetsHold /\ TimelinesHold /\ WorkHolds

\* What is left of the discipline when handles are submitted as often as anyone likes,
\* as PublishedSlot, which is Copy, lets them be: one retirer, control flushes that do
\* not fail.
Serial ==
  /\ \A r, s \in Retirers : r = s
  /\ "control" \notin FailingOps

\* A stale mark_in_flight may stamp any slot and take a slot sealed but not yet
\* published for its own, so that the timelines say nothing any more.  Whose turn it is
\* on a slot still shows.
WriterInvariant ==
  /\ TypeOK
  /\ \A p \in Producers : Guarding(p) =>
       /\ \A q \in Producers \ {p} : Guarding(q) => cpu[q].slot # cpu[p].slot
       /\ IsFree(sequence[cpu[p].slot])
       /\ debug_state[cpu[p].slot] \in
            IF ppc[p] = "store" THEN {"CpuSealed", "GpuInFlight"} ELSE {"CpuWriting"}
       /\ ppc[p] \in HoldPcs => sequence[cpu[p].slot] = FreeSequence(cpu[p].generation)
  /\ \A i \in Slots : ~IsFree(sequence[i]) =>
       debug_state[i] \in {"CpuSealed", "GpuInFlight", "GpuComplete"}
  /\ \A r \in Retirers :
       /\ rpc[r] \in {"timeline", "clear", "next"} => IsPublished(target[r])
       /\ rpc[r] \in {"next", "free"} => debug_state[target[r].slot] = "GpuComplete"
       /\ rpc[r] = "free" => IsFree(sequence[target[r].slot])

(* --- progress ---------------------------------------------------------- *)

\* Threads finish the calls they have begun, executors open what is published,
\* the GPU completes what it was given, and the retirer keeps polling each slot.
Fairness ==
  /\ \A p \in Producers :
       WF_vars(ProducerBusy(p) /\ UNCHANGED <<executors, retirers, gpu>> /\ ObserveFree)
  /\ \A e \in Executors : WF_vars(ExecutorStep(e) /\ ObserveFree)
  /\ WF_vars(GpuStep /\ ObserveFree)
  /\ \A r \in Retirers :
       /\ WF_vars(RetirerBusy(r) /\ UNCHANGED <<producers, executors, gpu>> /\ ObserveFree)
       /\ \A i \in Slots :
            SF_vars(RetireChecks(r, i) /\ UNCHANGED <<producers, executors, gpu>> /\ ObserveFree)

FairSpec == Spec /\ Fairness

\* Every published slot is free again in the end, except in the last generation.
PublishedIsRetired ==
  \A i \in Slots, g \in Generations :
    NextSequence(g) <= MaxU64 =>
      (sequence[i] = PublishedSequence(g) ~> sequence[i] = NextSequence(g))

\* A claimed slot can be claimed again in the end, whichever way it took: lost
\* recheck, abandoned, failed flush, or published and retired.
ClaimReturns ==
  \A i \in Slots :
    debug_state[i] # "Free" ~> debug_state[i] = "Free" \/ sequence[i] = MaxU64
=============================================================================
