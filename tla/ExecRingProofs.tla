--------------------------- MODULE ExecRingProofs ---------------------------
(***************************************************************************)
(* Proofs about the execution ring, for any number of threads, slots and   *)
(* generations.                                                            *)
(***************************************************************************)
EXTENDS ExecRing, TLAPS

\* Sequence numbers: even and odd ones, and the generation they stand for.
LEMMA SequenceArithmetic ==
  /\ \A s \in Sequences :
       /\ Generation(s) \in Generations
       /\ IsFree(s) => s = FreeSequence(Generation(s))
       /\ ~IsFree(s) => s = PublishedSequence(Generation(s))
  /\ \A g \in Generations :
       /\ FreeSequence(g) \in Sequences /\ PublishedSequence(g) \in Sequences
       /\ IsFree(FreeSequence(g)) /\ ~IsFree(PublishedSequence(g))
       /\ Generation(FreeSequence(g)) = g /\ Generation(PublishedSequence(g)) = g
       /\ NextSequence(g) <= MaxU64 =>
            g + 1 \in Generations /\ NextSequence(g) = PublishedSequence(g) + 1
BY RingAssumption
   DEF Sequences, Generations, Generation, IsFree, FreeSequence, PublishedSequence,
       NextSequence, RingAssumption

LEMMA IndexInSlots ==
  ASSUME TypeOK, NEW p \in Producers
  PROVE  Index(p) \in Slots
<1>1. SlotCount \in Nat /\ SlotCount > 0 /\ HintRange \in Nat /\ HintRange > 0
  BY RingAssumption DEF RingAssumption
<1>2. start[p] + probe[p] \in Nat
  BY <1>1 DEF TypeOK
<1>3. (start[p] + probe[p]) % HintRange \in Nat
  BY <1>1, <1>2
<1> QED
  BY <1>1, <1>3 DEF Index, Probed, Slots

LEMMA HandlesAreTyped ==
  ASSUME TypeOK
  PROVE  /\ NoHandle \in Handles
         /\ \A i \in Slots : HandleOf(i) \in Handles
BY RingAssumption, SequenceArithmetic
   DEF TypeOK, NoHandle, Handles, HandleOf, Slots, Generations, RingAssumption

LEMMA JobsTyped ==
  ASSUME TypeOK
  PROVE  /\ Len(jobs) \in Nat
         /\ \A t \in 1 .. Len(jobs) : jobs[t] \in Handles /\ jobs[t].slot \in Slots
         /\ \A t \in completed + 1 .. Len(jobs) :
              t \in 1 .. Len(jobs) /\ t # 0 /\ jobs[t] \in Handles /\ jobs[t].slot \in Slots
<1>1. jobs \in Seq(Handles) /\ Len(jobs) \in Nat /\ completed \in Nat
  BY DEF TypeOK
<1>2. \A t \in 1 .. Len(jobs) : jobs[t] \in Handles
  BY <1>1
<1> QED
  BY <1>1, <1>2 DEF Handles

LEMMA InitTyped == Init => TypeOK
BY RingAssumption, NobodyAssumption, HandlesAreTyped
   DEF Init, TypeOK, Handles, NoHandle, Slots, Generations, Sequences, DebugStates,
       ProducerPcs, ExecutorPcs, RetirerPcs, RingAssumption

LEMMA FreeSinceTyped ==
  ASSUME ObserveFree PROVE free_since' \in [Producers -> SUBSET Slots]
BY DEF ObserveFree, FreeSlots

LEMMA ProducerTyped ==
  ASSUME TypeOK, NEW p \in Producers, ProducerStep(p), ObserveFree
  PROVE  TypeOK'
<1> USE DEF TypeOK, Goto, Scanned, NextProbe, ProducerPcs, ScanPcs, HoldPcs, DebugStates,
            vars, ring, producers, executors, retirers, gpu
<1>1. /\ UNCHANGED <<executors, retirers, gpu>>
      /\ free_since' \in [Producers -> SUBSET Slots]
  BY FreeSinceTyped DEF ProducerStep
<1>2. /\ cpu[p] \in Handles /\ NoHandle \in Handles
      /\ cpu[p].slot \in Slots /\ cpu[p].generation \in Generations
  BY HandlesAreTyped DEF Handles
<1>3. /\ (producer_hint + 1) % HintRange \in 0 .. HintRange - 1
      /\ 0 \in 0 .. HintRange - 1 /\ 0 \in 0 .. SlotCount
      /\ probe[p] < SlotCount => probe[p] + 1 \in 0 .. SlotCount
  BY RingAssumption DEF RingAssumption
<1>4. Index(p) \in Slots /\ HandleOf(Index(p)) \in Handles
  BY IndexInSlots, HandlesAreTyped
<1>5. PublishedSequence(cpu[p].generation) \in Sequences
  BY <1>2, SequenceArithmetic
<1>6. CASE StartScan(p)
  BY <1>1, <1>2, <1>3, <1>6 DEF StartScan
<1>7. CASE SkipPublished(p)
  BY <1>1, <1>2, <1>3, <1>7 DEF SkipPublished
<1>8. CASE LoadSequence(p)
  BY <1>1, <1>2, <1>3, <1>4, <1>8 DEF LoadSequence
<1>9. CASE ClaimFails(p)
  BY <1>1, <1>2, <1>3, <1>9 DEF ClaimFails
<1>10. CASE Claim(p)
  BY <1>1, <1>2, <1>3, <1>10 DEF Claim
<1>11. CASE Recheck(p)
  BY <1>1, <1>2, <1>3, <1>11 DEF Recheck
<1>12. CASE RecheckFails(p)
  BY <1>1, <1>2, <1>3, <1>12 DEF RecheckFails
<1>13. CASE Unclaim(p)
  BY <1>1, <1>2, <1>3, <1>13 DEF Unclaim
<1>14. CASE RingFull(p)
  BY <1>1, <1>2, <1>3, <1>14 DEF RingFull
<1>15. CASE WritePayload(p)
  BY <1>1, <1>2, <1>3, <1>15 DEF WritePayload
<1>16. CASE Abandon(p)
  BY <1>1, <1>2, <1>3, <1>16 DEF Abandon
<1>17. CASE FlushData(p)
  BY <1>1, <1>2, <1>3, <1>17 DEF FlushData
<1>18. CASE Seal(p)
  BY <1>1, <1>2, <1>3, <1>18 DEF Seal
<1>19. CASE StoreSequence(p)
  BY <1>1, <1>2, <1>3, <1>5, <1>19 DEF StoreSequence
<1>20. CASE FlushControl(p)
  BY <1>1, <1>2, <1>3, <1>20 DEF FlushControl
<1>21. CASE FlushControlFails(p)
  BY <1>1, <1>2, <1>3, <1>21 DEF FlushControlFails
<1>22. CASE DropClears(p)
  BY <1>1, <1>2, <1>3, <1>22 DEF DropClears
<1>23. CASE DropReleases(p)
  BY <1>1, <1>2, <1>3, <1>23 DEF DropReleases
<1> QED
  BY <1>6, <1>7, <1>8, <1>9, <1>10, <1>11, <1>12, <1>13, <1>14,
     <1>15, <1>16, <1>17, <1>18, <1>19, <1>20, <1>21, <1>22, <1>23
  DEF ProducerStep, ProducerBusy

LEMMA ExecutorTyped ==
  ASSUME TypeOK, NEW e \in Executors, ExecutorStep(e), ObserveFree
  PROVE  TypeOK'
<1> USE DEF TypeOK, ExecutorPcs, DebugStates, ExecutorIdle,
            ring, producers, executors, retirers, gpu
<1>1. /\ UNCHANGED <<producers, retirers>>
      /\ free_since' \in [Producers -> SUBSET Slots]
  BY FreeSinceTyped DEF ExecutorStep
<1>2. /\ view[e] \in Handles /\ NoHandle \in Handles
      /\ view[e].slot \in Slots
      /\ \A i \in Slots : HandleOf(i) \in Handles
  BY HandlesAreTyped DEF Handles
<1>3. CASE \E i \in Slots : Open(e, i)
  <2>1. PICK i \in Slots : Open(e, i)
    BY <1>3
  <2>2. /\ view' = [view EXCEPT ![e] = HandleOf(i)] /\ HandleOf(i) \in Handles
        /\ epc' = [epc EXCEPT ![e] = "submit"]
        /\ UNCHANGED <<ring, ticket, gpu>>
    BY <1>2, <2>1 DEF Open
  <2> QED
    BY <1>1, <2>2
<1>4. CASE GpuSubmit(e)
  <2>1. jobs' \in Seq(Handles) /\ Len(jobs') = Len(jobs) + 1 /\ Len(jobs) \in Nat
    BY <1>2, <1>4 DEF GpuSubmit
  <2> QED
    BY <1>1, <1>4, <2>1 DEF GpuSubmit
<1>5. CASE MarkChecks(e)
  <2>1. CASE IsPublished(view[e])
    <3>1. epc' = [epc EXCEPT ![e] = "cas"] /\ UNCHANGED <<view, ticket, ring, gpu>>
      BY <1>5, <2>1 DEF MarkChecks
    <3> QED
      BY <1>1, <3>1
  <2>2. CASE ~IsPublished(view[e])
    <3>1. ExecutorIdle(e) /\ UNCHANGED <<ring, gpu>>
      BY <1>5, <2>2 DEF MarkChecks
    <3> QED
      BY <1>1, <1>2, <3>1
  <2> QED
    BY <2>1, <2>2
<1>6. CASE MarkClaims(e)
  <2>1. CASE debug_state[view[e].slot] = "CpuSealed"
    <3>1. /\ debug_state' = [debug_state EXCEPT ![view[e].slot] = "GpuInFlight"]
          /\ epc' = [epc EXCEPT ![e] = "stamp"]
          /\ UNCHANGED <<view, ticket, sequence, gpu_timeline, metadata, payload, gpu>>
      BY <1>6, <2>1 DEF MarkClaims
    <3> QED
      BY <1>1, <1>2, <3>1
  <2>2. CASE debug_state[view[e].slot] # "CpuSealed"
    <3>1. ExecutorIdle(e) /\ UNCHANGED <<ring, gpu>>
      BY <1>6, <2>2 DEF MarkClaims
    <3> QED
      BY <1>1, <1>2, <3>1
  <2> QED
    BY <2>1, <2>2
<1>7. CASE MarkStamps(e)
  BY <1>1, <1>2, <1>7 DEF MarkStamps
<1> QED
  BY <1>3, <1>4, <1>5, <1>6, <1>7 DEF ExecutorStep

LEMMA GpuTyped ==
  ASSUME TypeOK, GpuStep, ObserveFree
  PROVE  TypeOK'
BY FreeSinceTyped
   DEF TypeOK, GpuStep, GpuComplete, ring, producers, executors, retirers, gpu

LEMMA RetirerTyped ==
  ASSUME TypeOK, NEW r \in Retirers, RetirerStep(r), ObserveFree
  PROVE  TypeOK'
<1> USE DEF TypeOK, RetirerPcs, DebugStates, RetirerIdle,
            ring, producers, executors, retirers, gpu
<1>1. /\ UNCHANGED <<producers, executors, gpu>>
      /\ free_since' \in [Producers -> SUBSET Slots]
  BY FreeSinceTyped DEF RetirerStep
<1>2. /\ target[r] \in Handles /\ NoHandle \in Handles
      /\ target[r].slot \in Slots /\ target[r].generation \in Generations
      /\ \A i \in Slots : HandleOf(i) \in Handles
  BY HandlesAreTyped DEF Handles
<1>3. CASE \E i \in Slots : RetireChecks(r, i)
  BY <1>1, <1>2, <1>3 DEF RetireChecks
<1>4. CASE RetireRefused(r)
  BY <1>1, <1>2, <1>4 DEF RetireRefused
<1>5. CASE RetireAccepted(r)
  BY <1>1, <1>2, <1>5 DEF RetireAccepted
<1>6. CASE RetireClears(r)
  BY <1>1, <1>2, <1>6 DEF RetireClears
<1>7. CASE RetireStores(r)
  <2>1. NextSequence(target[r].generation) \in Sequences
    BY <1>2, <1>7 DEF RetireStores, NextSequence, FreeSequence, Generations, Sequences
  <2> QED
    BY <1>1, <1>2, <1>7, <2>1 DEF RetireStores
<1>8. CASE RetireOverflows(r)
  BY <1>1, <1>2, <1>8 DEF RetireOverflows
<1>9. CASE RetireFrees(r)
  BY <1>1, <1>2, <1>9 DEF RetireFrees
<1> QED
  BY <1>3, <1>4, <1>5, <1>6, <1>7, <1>8, <1>9 DEF RetirerStep, RetirerBusy

LEMMA NextTyped == TypeOK /\ [Next]_vars => TypeOK'
<1>1. TypeOK /\ UNCHANGED vars => TypeOK'
  BY DEF TypeOK, vars, ring, producers, executors, retirers, gpu
<1> QED
  BY <1>1, ProducerTyped, ExecutorTyped, GpuTyped, RetirerTyped DEF Next

\* Every field keeps its type, in particular every sequence stays within u64 and
\* every probe within the ring: the arithmetic of publish, retire and try_acquire
\* never leaves its range.
THEOREM Typed == Spec => []TypeOK
BY InitTyped, NextTyped, PTL DEF Spec

(* --- the inductive invariant ------------------------------------------- *)

\* A producer only touches a slot that is neither published nor being freed, and
\* leaves it unstamped: executors, retirer and GPU do not notice.
LEMMA ProducerFrame ==
  ASSUME RingInvariant, TypeOK', UNCHANGED <<executors, retirers, gpu>>,
         NEW i \in Slots, IsFree(sequence[i]), debug_state[i] # "GpuComplete",
         \A j \in Slots \ {i} :
           /\ sequence'[j] = sequence[j] /\ debug_state'[j] = debug_state[j]
           /\ gpu_timeline'[j] = gpu_timeline[j] /\ metadata'[j] = metadata[j],
         gpu_timeline'[i] = 0,
         \/ sequence'[i] = sequence[i]
         \/ debug_state'[i] = "CpuSealed" /\ metadata'[i] # Nobody
  PROVE  PublishedStates' /\ HandlesHold' /\ TargetsHold' /\ TimelinesHold' /\ WorkHolds'
<1> USE DEF executors, retirers, gpu, RingInvariant
<1>1. gpu_timeline[i] = 0
  BY DEF TimelinesHold
<1>2. ASSUME NEW h \in Handles, IsPublished(h) PROVE h.slot \in Slots \ {i} /\ h.slot # i
  BY <1>2, SequenceArithmetic DEF IsPublished, Handles
<1>3. PublishedStates'
  <2> SUFFICES ASSUME NEW j \in Slots, ~IsFree(sequence'[j])
               PROVE  /\ debug_state'[j] \in {"CpuSealed", "GpuInFlight", "GpuComplete"}
                      /\ debug_state'[j] \in {"CpuSealed", "GpuInFlight"}
                           => metadata'[j] # Nobody
                      /\ debug_state'[j] \in {"GpuInFlight", "GpuComplete"}
                           => Submitted(HandleOf(j))'
    BY DEF PublishedStates
  <2>1. CASE j = i
    BY <2>1
  <2>2. CASE j # i
    BY <2>2 DEF PublishedStates, Submitted, HandleOf
  <2> QED
    BY <2>1, <2>2
<1>4. HandlesHold'
  <2> SUFFICES ASSUME NEW e \in Executors, epc[e] # "idle"
               PROVE  /\ sequence'[view[e].slot] = sequence[view[e].slot]
                      /\ gpu_timeline'[view[e].slot] = gpu_timeline[view[e].slot]
                      /\ debug_state'[view[e].slot] = debug_state[view[e].slot]
    BY DEF HandlesHold, IsPublished
  <2> QED
    BY <1>2 DEF HandlesHold, TypeOK
<1>5. TargetsHold'
  <2> SUFFICES ASSUME NEW r \in Retirers, rpc[r] \in {"timeline", "clear", "next", "free"}
               PROVE  /\ sequence'[target[r].slot] = sequence[target[r].slot]
                      /\ gpu_timeline'[target[r].slot] = gpu_timeline[target[r].slot]
                      /\ debug_state'[target[r].slot] = debug_state[target[r].slot]
    BY DEF TargetsHold, IsPublished
  <2>1. target[r] \in Handles /\ target[r].slot \in Slots
    BY DEF TypeOK, Handles
  <2> QED
    BY <1>2, <2>1 DEF TargetsHold
<1>6. TimelinesHold'
  BY DEF TimelinesHold, HandleOf
<1>7. WorkHolds'
  <2> SUFFICES ASSUME NEW t \in completed + 1 .. Len(jobs), gpu_timeline[jobs[t].slot] = t
               PROVE  gpu_timeline'[jobs[t].slot] = t
    BY DEF WorkHolds
  <2>1. jobs[t].slot \in Slots /\ t # 0
    BY JobsTyped
  <2> QED
    BY <1>1, <2>1
<1> QED
  BY <1>3, <1>4, <1>5, <1>6, <1>7

\* A step that leaves the guarded slots alone keeps the guards.
LEMMA GuardsFrame ==
  ASSUME GuardsHold, UNCHANGED producers,
         \A p \in Producers : Guarding(p) =>
           /\ sequence'[cpu[p].slot] = sequence[cpu[p].slot]
           /\ debug_state'[cpu[p].slot] = debug_state[cpu[p].slot]
           /\ metadata'[cpu[p].slot] = metadata[cpu[p].slot]
  PROVE  GuardsHold'
BY DEF GuardsHold, Guarding, producers

LEMMA InitInductive == Init => RingInvariant
<1> SUFFICES ASSUME Init PROVE RingInvariant
  OBVIOUS
<1>1. TypeOK
  BY InitTyped
<1>2. \A i \in Slots : IsFree(sequence[i]) /\ gpu_timeline[i] = 0
  BY DEF Init, IsFree
<1>3. GuardsHold /\ HandlesHold
  BY DEF Init, GuardsHold, Guarding, HoldPcs, HandlesHold
<1>4. PublishedStates /\ TimelinesHold
  BY <1>2 DEF PublishedStates, TimelinesHold
<1>5. TargetsHold /\ WorkHolds
  BY DEF Init, TargetsHold, WorkHolds
<1> QED
  BY <1>1, <1>3, <1>4, <1>5 DEF RingInvariant

\* Each step of a producer: what its own guard and the others' become, and that
\* the rest of the ring does not notice.
LEMMA ProducerInductive ==
  ASSUME RingInvariant, TypeOK', Disciplined, NEW p \in Producers, ProducerStep(p)
  PROVE  RingInvariant'
<1> DEFINE i == cpu[p].slot
           Rest == PublishedStates /\ HandlesHold /\ TargetsHold /\ TimelinesHold /\ WorkHolds
           Quiet == UNCHANGED <<sequence, debug_state, gpu_timeline, metadata>>
<1> USE DEF RingInvariant, ScanPcs, HoldPcs
<1>1. UNCHANGED <<executors, retirers, gpu>>
  BY DEF ProducerStep
<1>2. /\ cpu[p] \in Handles /\ i \in Slots /\ cpu[p].generation \in Generations
      /\ ppc \in [Producers -> ProducerPcs] /\ cpu \in [Producers -> Handles]
      /\ debug_state \in [Slots -> DebugStates] /\ sequence \in [Slots -> Sequences]
      /\ metadata \in [Slots -> Producers \cup {Nobody}] /\ gpu_timeline \in [Slots -> Nat]
      /\ p # Nobody
  <2>1. \A x \in Handles : x.slot \in Slots /\ x.generation \in Generations
    BY DEF Handles
  <2> QED
    BY <2>1, NobodyAssumption DEF TypeOK
<1>3. Quiet => Rest'
  BY <1>1 DEF PublishedStates, HandlesHold, TargetsHold, TimelinesHold, WorkHolds,
              HandleOf, Submitted, IsPublished, executors, retirers, gpu
<1>4. Guarding(p) => /\ IsFree(sequence[i])
                     /\ gpu_timeline[i] = 0
                     /\ debug_state[i] \in {"CpuWriting", "CpuSealed"}
                     /\ \A q \in Producers \ {p} : Guarding(q) => cpu[q].slot # i
  BY <1>2 DEF GuardsHold, TimelinesHold
<1>5. CASE StartScan(p)
  <2>1. Quiet
    BY <1>5 DEF StartScan, ring
  <2>2. GuardsHold'
    BY <1>2, <1>5, <2>1 DEF StartScan, GuardsHold, Guarding, Goto, NextProbe, producers
  <2> QED
    BY <1>3, <2>1, <2>2
<1>6. CASE SkipPublished(p)
  <2>1. Quiet
    BY <1>6 DEF SkipPublished, ring
  <2>2. GuardsHold'
    BY <1>2, <1>6, <2>1 DEF SkipPublished, GuardsHold, Guarding, Goto, NextProbe, producers
  <2> QED
    BY <1>3, <2>1, <2>2
<1>7. CASE LoadSequence(p)
  <2>1. Quiet
    BY <1>7 DEF LoadSequence, ring
  <2>2. GuardsHold'
    BY <1>2, <1>7, <2>1 DEF LoadSequence, GuardsHold, Guarding, Goto, NextProbe, producers
  <2> QED
    BY <1>3, <2>1, <2>2
<1>8. CASE ClaimFails(p)
  <2>1. Quiet
    BY <1>8 DEF ClaimFails, ring
  <2>2. GuardsHold'
    BY <1>2, <1>8, <2>1 DEF ClaimFails, GuardsHold, Guarding, Goto, NextProbe, producers
  <2> QED
    BY <1>3, <2>1, <2>2
<1>9. CASE Recheck(p)
  <2>1. Quiet
    BY <1>9 DEF Recheck, ring
  <2>2. GuardsHold'
    BY <1>2, <1>9, <2>1 DEF Recheck, GuardsHold, Guarding, Goto, NextProbe, producers
  <2> QED
    BY <1>3, <2>1, <2>2
<1>10. CASE RecheckFails(p)
  <2>1. Quiet
    BY <1>10 DEF RecheckFails, ring
  <2>2. GuardsHold'
    BY <1>2, <1>10, <2>1 DEF RecheckFails, GuardsHold, Guarding, Goto, NextProbe, producers
  <2> QED
    BY <1>3, <2>1, <2>2
<1>11. CASE RingFull(p)
  <2>1. Quiet
    BY <1>11 DEF RingFull, ring
  <2>2. GuardsHold'
    BY <1>2, <1>11, <2>1 DEF RingFull, GuardsHold, Guarding, Goto, NextProbe, producers
  <2> QED
    BY <1>3, <2>1, <2>2
<1>12. CASE WritePayload(p)
  <2>1. Quiet
    BY <1>12 DEF WritePayload, ring
  <2>2. GuardsHold'
    BY <1>2, <1>12, <2>1 DEF WritePayload, GuardsHold, Guarding, Goto, NextProbe, producers
  <2> QED
    BY <1>3, <2>1, <2>2
<1>13. CASE Abandon(p)
  <2>1. Quiet
    BY <1>13 DEF Abandon, ring
  <2>2. GuardsHold'
    BY <1>2, <1>13, <2>1 DEF Abandon, GuardsHold, Guarding, Goto, NextProbe, producers
  <2> QED
    BY <1>3, <2>1, <2>2
<1>14. CASE FlushControl(p)
  <2>1. Quiet
    BY <1>14 DEF FlushControl, ring
  <2>2. GuardsHold'
    BY <1>2, <1>14, <2>1 DEF FlushControl, GuardsHold, Guarding, Goto, NextProbe, producers
  <2> QED
    BY <1>3, <2>1, <2>2
<1>15. CASE Claim(p)
  <2>1. debug_state[i] = "Free" /\ UNCHANGED <<sequence, gpu_timeline, metadata>>
    BY <1>15 DEF Claim
  <2>2. /\ IsFree(sequence[i]) /\ gpu_timeline[i] = 0
        /\ \A q \in Producers : Guarding(q) => cpu[q].slot # i
    BY <1>2, <2>1 DEF PublishedStates, TimelinesHold, GuardsHold
  <2>3. GuardsHold'
    BY <1>2, <1>15, <2>1, <2>2 DEF Claim, GuardsHold, Guarding, Goto
  <2>4. Rest'
    BY <1>1, <1>2, <1>15, <2>1, <2>2, ProducerFrame DEF Claim
  <2> QED
    BY <2>3, <2>4
<1>16. CASE Unclaim(p)
  <2>1. GuardsHold'
    BY <1>2, <1>4, <1>16 DEF Unclaim, GuardsHold, Guarding, Goto, NextProbe
  <2>2. Rest'
    BY <1>1, <1>2, <1>4, <1>16, ProducerFrame DEF Unclaim, Guarding
  <2> QED
    BY <2>1, <2>2
<1>17. CASE FlushData(p)
  <2>1. GuardsHold'
    BY <1>2, <1>4, <1>17 DEF FlushData, GuardsHold, Guarding, Goto, NextProbe
  <2>2. Rest'
    BY <1>1, <1>2, <1>4, <1>17, ProducerFrame DEF FlushData, Guarding
  <2> QED
    BY <2>1, <2>2
<1>18. CASE Seal(p)
  <2>1. GuardsHold'
    BY <1>2, <1>4, <1>18 DEF Seal, GuardsHold, Guarding, Goto, NextProbe
  <2>2. Rest'
    BY <1>1, <1>2, <1>4, <1>18, ProducerFrame DEF Seal, Guarding
  <2> QED
    BY <2>1, <2>2
<1>19. CASE StoreSequence(p)
  <2>1. GuardsHold'
    BY <1>2, <1>4, <1>19 DEF StoreSequence, GuardsHold, Guarding, Goto, NextProbe
  <2>2. debug_state[i] = "CpuSealed" /\ metadata[i] # Nobody
    BY <1>2, <1>19 DEF StoreSequence, GuardsHold, Guarding
  <2>3. Rest'
    BY <1>1, <1>2, <1>4, <1>19, <2>2, ProducerFrame DEF StoreSequence, Guarding
  <2> QED
    BY <2>1, <2>3
<1>20. CASE DropClears(p)
  <2>1. GuardsHold'
    BY <1>2, <1>4, <1>20 DEF DropClears, GuardsHold, Guarding, Goto, NextProbe
  <2>2. Rest'
    BY <1>1, <1>2, <1>4, <1>20, ProducerFrame DEF DropClears, Guarding
  <2> QED
    BY <2>1, <2>2
<1>21. CASE DropReleases(p)
  <2>1. GuardsHold'
    BY <1>2, <1>4, <1>21 DEF DropReleases, GuardsHold, Guarding, Goto, NextProbe
  <2>2. Rest'
    BY <1>1, <1>2, <1>4, <1>21, ProducerFrame DEF DropReleases, Guarding
  <2> QED
    BY <2>1, <2>2
<1>22. ~FlushControlFails(p)
  BY DEF FlushControlFails, Disciplined
<1> QED
  BY <1>5, <1>6, <1>7, <1>8, <1>9, <1>10, <1>11, <1>12, <1>13, <1>14, <1>15, <1>16, <1>17, <1>18, <1>19, <1>20, <1>21, <1>22
  DEF ProducerStep, ProducerBusy

LEMMA ExecutorInductive ==
  ASSUME RingInvariant, TypeOK', Disciplined, NEW e \in Executors, ExecutorStep(e)
  PROVE  RingInvariant'
<1> DEFINE h == view[e]
           i == view[e].slot
<1> USE DEF RingInvariant
<1>1. UNCHANGED <<producers, retirers>>
  BY DEF ExecutorStep
<1>2. /\ h \in Handles /\ i \in Slots /\ Len(jobs) \in Nat
      /\ epc \in [Executors -> ExecutorPcs] /\ view \in [Executors -> Handles]
      /\ ticket \in [Executors -> Nat] /\ target \in [Retirers -> Handles]
      /\ debug_state \in [Slots -> DebugStates] /\ sequence \in [Slots -> Sequences]
      /\ gpu_timeline \in [Slots -> Nat] /\ completed \in Nat
      /\ \A p \in Producers : cpu[p].slot \in Slots
      /\ \A f \in Executors : view[f] \in Handles /\ view[f].slot \in Slots
      /\ \A r \in Retirers : target[r].slot \in Slots
  <2>1. Len(jobs) \in Nat /\ completed \in Nat
    BY JobsTyped DEF TypeOK
  <2>2. /\ \A p \in Producers : cpu[p] \in Handles
        /\ \A f \in Executors : view[f] \in Handles
        /\ \A r \in Retirers : target[r] \in Handles
    BY DEF TypeOK
  <2>3. \A x \in Handles : x.slot \in Slots
    BY DEF Handles
  <2> QED
    BY <2>1, <2>2, <2>3 DEF TypeOK
<1>3. epc[e] # "idle" =>
        /\ ~IsFree(sequence[i]) /\ HandleOf(i) = h /\ gpu_timeline[i] = 0
        /\ \A f \in Executors \ {e} : epc[f] # "idle" => view[f].slot # i
  BY <1>2, SequenceArithmetic DEF HandlesHold, IsPublished, HandleOf, Handles
<1>4. CASE \E j \in Slots : Open(e, j)
  <2>1. PICK j \in Slots : Open(e, j)
    BY <1>4
  <2>2. /\ epc[e] = "idle" /\ ~IsFree(sequence[j])
        /\ view' = [view EXCEPT ![e] = HandleOf(j)]
        /\ epc' = [epc EXCEPT ![e] = "submit"]
        /\ UNCHANGED <<ring, ticket, gpu>>
    BY <2>1 DEF Open
  <2>3. ~Carried(HandleOf(j)) /\ ~Submitted(HandleOf(j))
    BY <2>1 DEF Open, Disciplined
  <2>4. debug_state[j] = "CpuSealed" /\ gpu_timeline[j] = 0
    <3>1. debug_state[j] = "CpuSealed"
      BY <2>2, <2>3 DEF PublishedStates
    <3> QED
      BY <3>1 DEF TimelinesHold
  <2>5. HandleOf(j).slot = j /\ IsPublished(HandleOf(j))
    BY <1>2, <2>2, SequenceArithmetic DEF HandleOf, IsPublished
  <2>6. HandlesHold'
    BY <1>2, <2>2, <2>3, <2>4, <2>5 DEF HandlesHold, Carried, IsPublished, ring, gpu
  <2>7. WorkHolds'
    BY <1>2, <2>2 DEF WorkHolds, ring, gpu
  <2>8. GuardsHold' /\ PublishedStates' /\ TargetsHold' /\ TimelinesHold'
    BY <1>1, <2>2 DEF GuardsHold, Guarding, PublishedStates, TargetsHold, TimelinesHold,
                      IsPublished, HandleOf, Submitted, ring, gpu, producers, retirers
  <2> QED
    BY <2>6, <2>7, <2>8
<1>5. CASE GpuSubmit(e)
  <2>1. /\ epc[e] = "submit" /\ epc' = [epc EXCEPT ![e] = "check"]
        /\ ticket' = [ticket EXCEPT ![e] = Len(jobs) + 1]
        /\ UNCHANGED <<ring, view, completed>>
    BY <1>5 DEF GpuSubmit
  <2>2. /\ Len(jobs') = Len(jobs) + 1 /\ jobs'[Len(jobs) + 1] = h
        /\ \A t \in 1 .. Len(jobs) : jobs'[t] = jobs[t]
    BY <1>2, <1>5 DEF GpuSubmit, TypeOK
  <2>3. HandlesHold'
    BY <1>2, <2>1, <2>2 DEF HandlesHold, IsPublished, ring
  <2>4. PublishedStates' /\ TimelinesHold'
    <3>1. \A x \in Slots : HandleOf(x)' = HandleOf(x)
      BY <2>1 DEF HandleOf, ring
    <3>2. \A x \in Slots : Submitted(HandleOf(x)) => Submitted(HandleOf(x))'
      BY <1>2, <2>2, <3>1 DEF Submitted
    <3>3. PublishedStates'
      BY <2>1, <3>2 DEF PublishedStates, ring
    <3>4. TimelinesHold'
      BY <1>2, <2>1, <2>2, <3>1 DEF TimelinesHold, ring
    <3> QED
      BY <3>3, <3>4
  <2>5. WorkHolds'
    <3> SUFFICES ASSUME NEW t \in completed + 1 .. Len(jobs')
                 PROVE  \/ gpu_timeline[jobs'[t].slot] = t
                        \/ \E f \in Executors :
                             epc'[f] \in {"check", "cas", "stamp"} /\ ticket'[f] = t
      BY <2>1 DEF WorkHolds, ring
    <3>1. CASE t = Len(jobs) + 1
      BY <1>2, <2>1, <3>1
    <3>2. CASE t # Len(jobs) + 1
      <4>1. t \in completed + 1 .. Len(jobs) /\ jobs'[t] = jobs[t]
        BY <1>2, <2>2, <3>2
      <4> QED
        BY <1>2, <2>1, <4>1 DEF WorkHolds
    <3> QED
      BY <3>1, <3>2
  <2>6. GuardsHold' /\ TargetsHold'
    BY <1>1, <2>1 DEF GuardsHold, Guarding, TargetsHold, IsPublished, ring, producers, retirers
  <2> QED
    BY <2>3, <2>4, <2>5, <2>6
<1>6. CASE MarkChecks(e)
  <2>1. /\ epc[e] = "check" /\ epc' = [epc EXCEPT ![e] = "cas"]
        /\ UNCHANGED <<view, ticket, ring, gpu>>
    <3>1. epc[e] = "check" /\ IsPublished(h)
      BY <1>6 DEF MarkChecks, HandlesHold
    <3> QED
      BY <1>6, <3>1 DEF MarkChecks
  <2>2. HandlesHold'
    BY <1>2, <2>1 DEF HandlesHold, IsPublished, ring, gpu
  <2>3. WorkHolds'
    BY <1>2, <2>1 DEF WorkHolds, ring, gpu
  <2>4. GuardsHold' /\ PublishedStates' /\ TargetsHold' /\ TimelinesHold'
    BY <1>1, <2>1 DEF GuardsHold, Guarding, PublishedStates, TargetsHold, TimelinesHold,
                      IsPublished, HandleOf, Submitted, ring, gpu, producers, retirers
  <2> QED
    BY <2>2, <2>3, <2>4
<1>7. CASE MarkClaims(e)
  <2>1. /\ epc[e] = "cas" /\ debug_state[i] = "CpuSealed"
    BY <1>7 DEF MarkClaims, HandlesHold
  <2>2. /\ epc' = [epc EXCEPT ![e] = "stamp"]
        /\ debug_state' = [debug_state EXCEPT ![i] = "GpuInFlight"]
        /\ UNCHANGED <<view, ticket, sequence, gpu_timeline, metadata, payload, gpu>>
    BY <1>7, <2>1 DEF MarkClaims
  <2>3. GuardsHold'
    BY <1>1, <1>2, <1>3, <2>1, <2>2, GuardsFrame DEF GuardsHold
  <2>4. PublishedStates'
    <3>1. Submitted(h)
      BY <2>1 DEF HandlesHold, Submitted
    <3> QED
      BY <1>2, <1>3, <2>1, <2>2, <3>1 DEF PublishedStates, Submitted, HandleOf, gpu
  <2>5. HandlesHold'
    BY <1>2, <1>3, <2>1, <2>2 DEF HandlesHold, IsPublished, gpu
  <2>6. TargetsHold'
    BY <1>1, <1>2, <1>3, <2>1, <2>2 DEF TargetsHold, IsPublished, gpu, retirers
  <2>7. TimelinesHold' /\ WorkHolds'
    BY <1>2, <1>3, <2>1, <2>2 DEF TimelinesHold, WorkHolds, HandleOf, gpu
  <2> QED
    BY <2>3, <2>4, <2>5, <2>6, <2>7
<1>8. CASE MarkStamps(e)
  <2>1. /\ epc[e] = "stamp" /\ debug_state[i] = "GpuInFlight"
        /\ ticket[e] \in 1 .. Len(jobs) /\ jobs[ticket[e]] = h
    BY <1>8 DEF MarkStamps, HandlesHold
  <2>2. /\ gpu_timeline' = [gpu_timeline EXCEPT ![i] = ticket[e]]
        /\ epc' = [epc EXCEPT ![e] = "idle"]
        /\ view' = [view EXCEPT ![e] = NoHandle] /\ ticket' = [ticket EXCEPT ![e] = 0]
        /\ UNCHANGED <<sequence, debug_state, metadata, payload, gpu>>
    BY <1>8 DEF MarkStamps, ExecutorIdle
  <2>3. GuardsHold' /\ PublishedStates'
    BY <1>1, <2>2 DEF GuardsHold, Guarding, PublishedStates, HandleOf, Submitted, gpu, producers
  <2>4. HandlesHold'
    BY <1>2, <1>3, <2>1, <2>2 DEF HandlesHold, IsPublished, gpu
  <2>5. TargetsHold'
    BY <1>1, <1>2, <1>3, <2>1, <2>2 DEF TargetsHold, IsPublished, gpu, retirers
  <2>6. TimelinesHold'
    BY <1>2, <1>3, <2>1, <2>2 DEF TimelinesHold, HandleOf, gpu
  <2>7. WorkHolds'
    <3> SUFFICES ASSUME NEW t \in completed + 1 .. Len(jobs)
                 PROVE  \/ gpu_timeline'[jobs[t].slot] = t
                        \/ \E f \in Executors :
                             epc'[f] \in {"check", "cas", "stamp"} /\ ticket'[f] = t
      BY <2>2 DEF WorkHolds, gpu
    <3>1. jobs[t].slot \in Slots /\ t # 0
      BY JobsTyped
    <3>2. CASE t = ticket[e]
      BY <1>2, <2>1, <2>2, <3>2
    <3>3. CASE t # ticket[e]
      BY <1>2, <1>3, <2>1, <2>2, <3>1, <3>3 DEF WorkHolds
    <3> QED
      BY <3>2, <3>3
  <2> QED
    BY <2>3, <2>4, <2>5, <2>6, <2>7
<1> QED
  BY <1>4, <1>5, <1>6, <1>7, <1>8 DEF ExecutorStep

LEMMA GpuInductive ==
  ASSUME RingInvariant, TypeOK', GpuStep
  PROVE  RingInvariant'
<1> USE DEF RingInvariant, GpuStep, GpuComplete
<1>1. completed \in Nat /\ completed' = completed + 1 /\ Len(jobs) \in Nat
  BY DEF TypeOK
<1>2. TargetsHold'
  BY <1>1 DEF TypeOK, TargetsHold, IsPublished, ring, retirers
<1>3. WorkHolds'
  BY <1>1 DEF WorkHolds, ring, executors
<1>4. GuardsHold' /\ PublishedStates' /\ HandlesHold' /\ TimelinesHold'
  BY DEF GuardsHold, Guarding, PublishedStates, HandlesHold, TimelinesHold, IsPublished,
         HandleOf, Submitted, ring, producers, executors
<1> QED
  BY <1>2, <1>3, <1>4

LEMMA RetirerInductive ==
  ASSUME RingInvariant, TypeOK', Disciplined, NEW r \in Retirers, RetirerStep(r)
  PROVE  RingInvariant'
<1> DEFINE i == target[r].slot
           g == target[r].generation
           Rest == GuardsHold /\ PublishedStates /\ HandlesHold /\ TimelinesHold /\ WorkHolds
<1> USE DEF RingInvariant
<1>1. UNCHANGED <<producers, executors, gpu>> /\ \A s \in Retirers : s = r
  BY DEF RetirerStep, Disciplined
<1>2. /\ target[r] \in Handles /\ i \in Slots /\ g \in Generations
      /\ rpc \in [Retirers -> RetirerPcs] /\ target \in [Retirers -> Handles]
      /\ done \in [Retirers -> Nat] /\ completed \in Nat
      /\ debug_state \in [Slots -> DebugStates] /\ sequence \in [Slots -> Sequences]
      /\ gpu_timeline \in [Slots -> Nat] /\ metadata \in [Slots -> Producers \cup {Nobody}]
  <2>1. \A x \in Handles : x.slot \in Slots /\ x.generation \in Generations
    BY DEF Handles
  <2> QED
    BY <2>1 DEF TypeOK
<1>3. /\ \A p \in Producers : cpu[p].slot \in Slots
      /\ \A e \in Executors : view[e].slot \in Slots
  <2>1. /\ \A p \in Producers : cpu[p] \in Handles
        /\ \A e \in Executors : view[e] \in Handles
    BY DEF TypeOK
  <2> QED
    BY <2>1 DEF Handles
<1>4. UNCHANGED ring => Rest'
  BY <1>1 DEF GuardsHold, Guarding, PublishedStates, HandlesHold, TimelinesHold, WorkHolds,
              IsPublished, HandleOf, Submitted, ring, producers, executors, gpu
<1>5. rpc[r] \in {"timeline", "clear", "next"} => ~IsFree(sequence[i])
  BY <1>2, SequenceArithmetic DEF TargetsHold, IsPublished
<1>6. rpc[r] \in {"clear", "next"} \/ rpc[r] = "free" =>
        \A p \in Producers : Guarding(p) => cpu[p].slot # i
  BY <1>2, <1>5 DEF GuardsHold, TargetsHold
<1>7. CASE \E j \in Slots : RetireChecks(r, j)
  <2>1. PICK j \in Slots : RetireChecks(r, j)
    BY <1>7
  <2>2. IsPublished(HandleOf(j))
    BY <1>2, <2>1, SequenceArithmetic DEF RetireChecks, HandleOf, IsPublished
  <2>3. TargetsHold'
    BY <1>1, <1>2, <2>1, <2>2 DEF RetireChecks, TargetsHold, IsPublished, ring, gpu
  <2>4. Rest'
    BY <1>4, <2>1 DEF RetireChecks
  <2> QED
    BY <2>3, <2>4
<1>8. CASE RetireRefused(r)
  <2>1. TargetsHold'
    BY <1>1, <1>2, <1>8 DEF RetireRefused, RetirerIdle, TargetsHold, gpu
  <2> QED
    BY <1>4, <1>8, <2>1 DEF RetireRefused
<1>9. CASE RetireAccepted(r)
  <2>1. gpu_timeline[i] \in 1 .. completed /\ debug_state[i] = "GpuInFlight"
    BY <1>2, <1>9 DEF RetireAccepted, TimelineComplete, TimelinesHold, TargetsHold
  <2>2. TargetsHold'
    BY <1>1, <1>2, <1>9, <2>1 DEF RetireAccepted, TargetsHold, IsPublished, ring, gpu
  <2> QED
    BY <1>4, <1>9, <2>2 DEF RetireAccepted
<1>10. CASE RetireClears(r)
  <2>1. /\ gpu_timeline[i] \in 1 .. completed /\ debug_state[i] = "GpuInFlight"
        /\ IsPublished(target[r])
    BY <1>10 DEF RetireClears, TargetsHold
  <2>2. /\ debug_state' = [debug_state EXCEPT ![i] = "GpuComplete"]
        /\ metadata' = [metadata EXCEPT ![i] = Nobody]
        /\ gpu_timeline' = [gpu_timeline EXCEPT ![i] = 0]
        /\ rpc[r] = "clear" /\ rpc' = [rpc EXCEPT ![r] = "next"]
        /\ UNCHANGED <<sequence, payload, target, done>>
    BY <1>10 DEF RetireClears
  <2>3. GuardsHold'
    BY <1>1, <1>2, <1>3, <1>6, <2>2, GuardsFrame
  <2>4. PublishedStates'
    BY <1>1, <1>2, <2>1, <2>2 DEF PublishedStates, Submitted, HandleOf, gpu
  <2>5. HandlesHold'
    BY <1>1, <1>2, <1>3, <2>1, <2>2 DEF HandlesHold, IsPublished, executors, gpu
  <2>6. TargetsHold'
    BY <1>1, <1>2, <2>1, <2>2 DEF TargetsHold, IsPublished, gpu
  <2>7. TimelinesHold'
    BY <1>1, <1>2, <2>2 DEF TimelinesHold, HandleOf, gpu
  <2>8. WorkHolds'
    <3> SUFFICES ASSUME NEW t \in completed + 1 .. Len(jobs), gpu_timeline[jobs[t].slot] = t
                 PROVE  gpu_timeline'[jobs[t].slot] = t
      BY <1>1 DEF WorkHolds, executors, gpu
    <3>1. jobs[t].slot \in Slots
      BY JobsTyped
    <3> QED
      BY <1>2, <2>1, <2>2, <3>1
  <2> QED
    BY <2>3, <2>4, <2>5, <2>6, <2>7, <2>8
<1>11. CASE RetireStores(r)
  <2>1. rpc[r] = "next" /\ debug_state[i] = "GpuComplete"
    BY <1>11 DEF RetireStores, TargetsHold
  <2>2. /\ sequence' = [sequence EXCEPT ![i] = NextSequence(g)]
        /\ rpc' = [rpc EXCEPT ![r] = "free"]
        /\ UNCHANGED <<debug_state, gpu_timeline, metadata, payload, target, done>>
    BY <1>11 DEF RetireStores
  <2>3. IsFree(NextSequence(g))
    BY <1>2, <1>11, SequenceArithmetic DEF RetireStores, NextSequence
  <2>4. GuardsHold'
    BY <1>1, <1>2, <1>3, <1>6, <2>1, <2>2, GuardsFrame
  <2>5. PublishedStates'
    BY <1>1, <1>2, <2>2, <2>3 DEF PublishedStates, Submitted, HandleOf, gpu
  <2>6. HandlesHold'
    BY <1>1, <1>2, <1>3, <2>1, <2>2 DEF HandlesHold, IsPublished, executors, gpu
  <2>7. TargetsHold'
    BY <1>1, <1>2, <2>1, <2>2, <2>3 DEF TargetsHold, IsPublished, gpu
  <2>8. TimelinesHold'
    BY <1>1, <1>2, <2>1, <2>2 DEF TimelinesHold, HandleOf, gpu
  <2>9. WorkHolds'
    BY <1>1, <2>2 DEF WorkHolds, executors, gpu
  <2> QED
    BY <2>4, <2>5, <2>6, <2>7, <2>8, <2>9
<1>12. CASE RetireOverflows(r)
  <2>1. TargetsHold'
    BY <1>1, <1>2, <1>12 DEF RetireOverflows, RetirerIdle, TargetsHold, gpu
  <2> QED
    BY <1>4, <1>12, <2>1 DEF RetireOverflows
<1>13. CASE RetireFrees(r)
  <2>1. rpc[r] = "free" /\ debug_state[i] = "GpuComplete" /\ IsFree(sequence[i])
    BY <1>13 DEF RetireFrees, TargetsHold
  <2>2. /\ debug_state' = [debug_state EXCEPT ![i] = "Free"]
        /\ rpc' = [rpc EXCEPT ![r] = "idle"]
        /\ target' = [target EXCEPT ![r] = NoHandle] /\ done' = [done EXCEPT ![r] = 0]
        /\ UNCHANGED <<sequence, gpu_timeline, metadata, payload>>
    BY <1>13 DEF RetireFrees, RetirerIdle
  <2>3. GuardsHold'
    BY <1>1, <1>2, <1>3, <1>6, <2>1, <2>2, GuardsFrame
  <2>4. PublishedStates'
    BY <1>1, <1>2, <2>1, <2>2 DEF PublishedStates, Submitted, HandleOf, gpu
  <2>5. HandlesHold'
    BY <1>1, <1>2, <1>3, <2>1, <2>2 DEF HandlesHold, IsPublished, executors, gpu
  <2>6. TargetsHold'
    BY <1>1, <1>2, <2>1, <2>2 DEF TargetsHold, gpu
  <2>7. TimelinesHold' /\ WorkHolds'
    BY <1>1, <1>2, <2>1, <2>2 DEF TimelinesHold, WorkHolds, HandleOf, executors, gpu
  <2> QED
    BY <2>3, <2>4, <2>5, <2>6, <2>7
<1> QED
  BY <1>7, <1>8, <1>9, <1>10, <1>11, <1>12, <1>13 DEF RetirerStep, RetirerBusy

LEMMA NextInductive == Disciplined /\ RingInvariant /\ [Next]_vars => RingInvariant'
<1>1. RingInvariant /\ UNCHANGED vars => RingInvariant'
  BY NextTyped
  DEF RingInvariant, GuardsHold, Guarding, PublishedStates, HandlesHold, TargetsHold,
      TimelinesHold, WorkHolds, IsPublished, HandleOf, Submitted,
      vars, ring, producers, executors, retirers, gpu
<1>2. RingInvariant /\ [Next]_vars => TypeOK'
  BY NextTyped DEF RingInvariant
<1> QED
  BY <1>1, <1>2, ProducerInductive, ExecutorInductive, GpuInductive, RetirerInductive
  DEF Next

\* A disciplined ring keeps its inductive invariant, through every interleaving of
\* try_acquire, publish, mark_in_flight, retire, and the GPU.
THEOREM RingIsInductive == Disciplined => (Spec => []RingInvariant)
<1> SUFFICES ASSUME Disciplined PROVE Spec => []RingInvariant
  OBVIOUS
<1>1. RingInvariant /\ [Next]_vars => RingInvariant'
  BY NextInductive
<1> QED
  BY <1>1, InitInductive, PTL DEF Spec

(* --- what follows from it ---------------------------------------------- *)

LEMMA InvariantImpliesSafety ==
  RingInvariant =>
    SingleWriter /\ GpuOwnsRunningSlots /\ TimelineBelongsToGeneration /\ MarkNeverRefused
<1> SUFFICES ASSUME RingInvariant
             PROVE  /\ SingleWriter /\ GpuOwnsRunningSlots
                    /\ TimelineBelongsToGeneration /\ MarkNeverRefused
  OBVIOUS
<1> USE DEF RingInvariant
<1>1. SingleWriter
  BY DEF SingleWriter, GuardsHold, Guarding, Holds
<1>2. GpuOwnsRunningSlots
  <2> SUFFICES ASSUME NEW t \in completed + 1 .. Len(jobs)
               PROVE  IsPublished(jobs[t]) /\ metadata[jobs[t].slot] # Nobody
    BY DEF GpuOwnsRunningSlots
  <2>1. t # 0 /\ jobs[t] \in Handles /\ jobs[t].slot \in Slots
    BY JobsTyped
  <2>2. /\ IsPublished(jobs[t])
        /\ debug_state[jobs[t].slot] \in {"CpuSealed", "GpuInFlight"}
    <3>1. CASE gpu_timeline[jobs[t].slot] = t
      <4>1. /\ jobs[t] = HandleOf(jobs[t].slot) /\ ~IsFree(sequence[jobs[t].slot])
            /\ debug_state[jobs[t].slot] = "GpuInFlight"
        BY <2>1, <3>1 DEF TimelinesHold
      <4>2. jobs[t].generation = Generation(sequence[jobs[t].slot])
        BY <4>1 DEF HandleOf
      <4> QED
        BY <2>1, <4>1, <4>2, SequenceArithmetic DEF IsPublished, TypeOK
    <3>2. CASE gpu_timeline[jobs[t].slot] # t
      BY <3>2 DEF WorkHolds, HandlesHold
    <3> QED
      BY <3>1, <3>2
  <2>3. ~IsFree(sequence[jobs[t].slot])
    BY <2>1, <2>2, SequenceArithmetic DEF IsPublished, Handles
  <2> QED
    BY <2>1, <2>2, <2>3 DEF PublishedStates
<1>3. TimelineBelongsToGeneration
  BY DEF TimelineBelongsToGeneration, TimelinesHold
<1>4. MarkNeverRefused
  BY DEF MarkNeverRefused, HandlesHold
<1> QED
  BY <1>1, <1>2, <1>3, <1>4

\* retire never frees a slot whose GPU work is queued or running.
THEOREM GpuKeepsRunningSlots == Disciplined => (Spec => []GpuOwnsRunningSlots)
BY RingIsInductive, InvariantImpliesSafety, PTL

\* The timeline point retire reads is the one of this generation's submission.
THEOREM TimelinesAreTrue == Disciplined => (Spec => []TimelineBelongsToGeneration)
BY RingIsInductive, InvariantImpliesSafety, PTL

\* mark_in_flight succeeds for every submitted handle.
THEOREM MarkSucceeds == Disciplined => (Spec => []MarkNeverRefused)
BY RingIsInductive, InvariantImpliesSafety, PTL

(* --- taking turns, however often handles are submitted ----------------- *)

LEMMA WriterInitial == Init => WriterInvariant
<1> SUFFICES ASSUME Init PROVE WriterInvariant
  OBVIOUS
<1>1. TypeOK
  BY InitTyped
<1>2. \A i \in Slots : IsFree(sequence[i])
  BY DEF Init, IsFree
<1>3. /\ \A p \in Producers : ~Guarding(p)
      /\ \A r \in Retirers : rpc[r] = "idle"
  BY DEF Init, Guarding, HoldPcs
<1> QED
  BY <1>1, <1>2, <1>3 DEF WriterInvariant

LEMMA ProducersTakeTurns ==
  ASSUME WriterInvariant, TypeOK', Serial, NEW p \in Producers, ProducerStep(p)
  PROVE  WriterInvariant'
<1> DEFINE i == cpu[p].slot
<1> USE DEF ScanPcs, HoldPcs
<1>1. UNCHANGED retirers
  BY DEF ProducerStep
<1>2. /\ cpu[p] \in Handles /\ i \in Slots
      /\ \A q \in Producers : cpu[q].slot \in Slots
      /\ \A r \in Retirers : target[r].slot \in Slots /\ target[r].generation \in Generations
      /\ ppc \in [Producers -> ProducerPcs] /\ cpu \in [Producers -> Handles]
      /\ debug_state \in [Slots -> DebugStates] /\ sequence \in [Slots -> Sequences]
  <2>1. \A x \in Handles : x.slot \in Slots /\ x.generation \in Generations
    BY DEF Handles
  <2> QED
    BY <2>1 DEF WriterInvariant, TypeOK
<1>3. /\ \A q \in Producers : Guarding(q) =>
           /\ IsFree(sequence[cpu[q].slot])
           /\ debug_state[cpu[q].slot] \in {"CpuWriting", "CpuSealed", "GpuInFlight"}
           /\ \A s \in Producers \ {q} : Guarding(s) => cpu[s].slot # cpu[q].slot
      /\ \A r \in Retirers : rpc[r] \in {"timeline", "clear", "next"} =>
           ~IsFree(sequence[target[r].slot])
  BY <1>2, SequenceArithmetic DEF WriterInvariant, IsPublished
<1>4. CASE UNCHANGED <<sequence, debug_state>> /\ (Guarding(p)' => Guarding(p))
              /\ (Guarding(p)' => cpu'[p] = cpu[p])
              /\ (ppc'[p] \in HoldPcs => sequence[i] = FreeSequence(cpu[p].generation))
              /\ (ppc'[p] # ppc[p] => ppc[p] # "store" /\ ppc'[p] # "store")
              /\ (\A q \in Producers \ {p} : ppc'[q] = ppc[q] /\ cpu'[q] = cpu[q])
  <2>1. \A q \in Producers : Guarding(q)' =>
          /\ \A s \in Producers \ {q} : Guarding(s)' => cpu'[s].slot # cpu'[q].slot
          /\ IsFree(sequence'[cpu'[q].slot])
          /\ debug_state'[cpu'[q].slot] \in
               IF ppc'[q] = "store" THEN {"CpuSealed", "GpuInFlight"} ELSE {"CpuWriting"}
          /\ ppc'[q] \in HoldPcs => sequence'[cpu'[q].slot] = FreeSequence(cpu'[q].generation)
    BY <1>2, <1>4 DEF WriterInvariant, Guarding
  <2> QED
    BY <1>1, <1>4, <2>1 DEF WriterInvariant, IsPublished, retirers
<1>5. CASE StartScan(p) \/ SkipPublished(p) \/ LoadSequence(p) \/ ClaimFails(p)
           \/ Recheck(p) \/ RecheckFails(p) \/ RingFull(p) \/ WritePayload(p)
           \/ Abandon(p) \/ FlushData(p) \/ FlushControl(p) \/ DropClears(p)
  <2>1. UNCHANGED <<sequence, debug_state>>
    BY <1>5 DEF ring, StartScan, SkipPublished, LoadSequence, ClaimFails, Recheck,
                RecheckFails, RingFull, WritePayload, Abandon, FlushData, FlushControl,
                DropClears
  <2>2. /\ Guarding(p)' => Guarding(p) /\ cpu'[p] = cpu[p]
        /\ ppc'[p] # ppc[p] => ppc[p] # "store" /\ ppc'[p] # "store"
        /\ ppc'[p] \in HoldPcs =>
             ppc[p] \in HoldPcs \/ sequence[i] = FreeSequence(cpu[p].generation)
        /\ \A q \in Producers \ {p} : ppc'[q] = ppc[q] /\ cpu'[q] = cpu[q]
    BY <1>2, <1>5
    DEF Guarding, Goto, Scanned, NextProbe, producers, StartScan, SkipPublished,
        LoadSequence, ClaimFails, Recheck, RecheckFails, RingFull, WritePayload, Abandon,
        FlushData, FlushControl, DropClears
  <2>3. ppc'[p] \in HoldPcs => sequence[i] = FreeSequence(cpu[p].generation)
    BY <2>2 DEF WriterInvariant, Guarding
  <2> QED
    BY <1>4, <2>1, <2>2, <2>3
<1>6. ASSUME NEW s \in DebugStates, UNCHANGED sequence, IsFree(sequence[i]),
             debug_state[i] # "GpuComplete",
             debug_state' = [debug_state EXCEPT ![i] = s],
             \A q \in Producers \ {p} :
               ppc'[q] = ppc[q] /\ cpu'[q] = cpu[q] /\ (Guarding(q) => cpu[q].slot # i),
             Guarding(p)' =>
               /\ cpu'[p] = cpu[p]
               /\ s \in IF ppc'[p] = "store" THEN {"CpuSealed", "GpuInFlight"}
                        ELSE {"CpuWriting"}
               /\ ppc'[p] \in HoldPcs => sequence[i] = FreeSequence(cpu[p].generation)
      PROVE  WriterInvariant'
  <2>1. \A q \in Producers : Guarding(q)' =>
          /\ \A x \in Producers \ {q} : Guarding(x)' => cpu'[x].slot # cpu'[q].slot
          /\ IsFree(sequence'[cpu'[q].slot])
          /\ debug_state'[cpu'[q].slot] \in
               IF ppc'[q] = "store" THEN {"CpuSealed", "GpuInFlight"} ELSE {"CpuWriting"}
          /\ ppc'[q] \in HoldPcs => sequence'[cpu'[q].slot] = FreeSequence(cpu'[q].generation)
    <3> SUFFICES ASSUME NEW q \in Producers, Guarding(q)'
                 PROVE  /\ \A x \in Producers \ {q} : Guarding(x)' => cpu'[x].slot # cpu'[q].slot
                        /\ IsFree(sequence'[cpu'[q].slot])
                        /\ debug_state'[cpu'[q].slot] \in
                             IF ppc'[q] = "store" THEN {"CpuSealed", "GpuInFlight"}
                             ELSE {"CpuWriting"}
                        /\ ppc'[q] \in HoldPcs =>
                             sequence'[cpu'[q].slot] = FreeSequence(cpu'[q].generation)
      OBVIOUS
    <3>1. CASE q = p
      BY <1>2, <1>6, <3>1 DEF Guarding
    <3>2. CASE q # p
      BY <1>2, <1>3, <1>6, <3>2 DEF Guarding, WriterInvariant
    <3> QED
      BY <3>1, <3>2
  <2>2. \A j \in Slots : ~IsFree(sequence'[j]) =>
          debug_state'[j] \in {"CpuSealed", "GpuInFlight", "GpuComplete"}
    BY <1>2, <1>6 DEF WriterInvariant
  <2>3. \A r \in Retirers :
          /\ rpc'[r] \in {"timeline", "clear", "next"} => IsPublished(target[r])'
          /\ rpc'[r] \in {"next", "free"} => debug_state'[target'[r].slot] = "GpuComplete"
          /\ rpc'[r] = "free" => IsFree(sequence'[target'[r].slot])
    BY <1>1, <1>2, <1>6 DEF WriterInvariant, IsPublished, retirers
  <2> QED
    BY <2>1, <2>2, <2>3 DEF WriterInvariant
<1>7. CASE Claim(p)
  <2>1. /\ IsFree(sequence[i]) /\ debug_state[i] = "Free"
        /\ \A q \in Producers : Guarding(q) => cpu[q].slot # i
    BY <1>2, <1>3, <1>7 DEF Claim, WriterInvariant
  <2> QED
    BY <1>2, <1>6, <1>7, <2>1 DEF Claim, Goto, Guarding, DebugStates
<1>8. CASE Unclaim(p)
  BY <1>2, <1>3, <1>6, <1>8 DEF Unclaim, Goto, NextProbe, Guarding, DebugStates
<1>9. CASE Seal(p)
  <2>1. sequence[i] = FreeSequence(cpu[p].generation)
    BY <1>9 DEF Seal, WriterInvariant, Guarding
  <2> QED
    BY <1>2, <1>3, <1>6, <1>9, <2>1 DEF Seal, Goto, Guarding, DebugStates
<1>10. CASE DropReleases(p)
  BY <1>2, <1>3, <1>6, <1>10 DEF DropReleases, Goto, Guarding, DebugStates
<1>11. CASE StoreSequence(p)
  <2>1. /\ Guarding(p) /\ debug_state[i] \in {"CpuSealed", "GpuInFlight"}
        /\ sequence' = [sequence EXCEPT ![i] = PublishedSequence(cpu[p].generation)]
        /\ UNCHANGED <<debug_state, cpu>> /\ ppc' = [ppc EXCEPT ![p] = "control"]
    BY <1>11 DEF StoreSequence, Goto, Guarding, WriterInvariant
  <2>2. \A q \in Producers : Guarding(q)' => q # p /\ Guarding(q) /\ cpu[q].slot # i
    BY <1>2, <1>3, <2>1 DEF Guarding
  <2>3. \A r \in Retirers : rpc[r] # "idle" => target[r].slot # i
    BY <1>2, <1>3, <2>1 DEF WriterInvariant, RetirerPcs, TypeOK
  <2>4. \A q \in Producers : Guarding(q)' =>
          /\ \A x \in Producers \ {q} : Guarding(x)' => cpu'[x].slot # cpu'[q].slot
          /\ IsFree(sequence'[cpu'[q].slot])
          /\ debug_state'[cpu'[q].slot] \in
               IF ppc'[q] = "store" THEN {"CpuSealed", "GpuInFlight"} ELSE {"CpuWriting"}
          /\ ppc'[q] \in HoldPcs => sequence'[cpu'[q].slot] = FreeSequence(cpu'[q].generation)
    BY <1>2, <2>1, <2>2 DEF WriterInvariant, Guarding
  <2>5. \A j \in Slots : ~IsFree(sequence'[j]) =>
          debug_state'[j] \in {"CpuSealed", "GpuInFlight", "GpuComplete"}
    BY <1>2, <2>1 DEF WriterInvariant
  <2>6. \A r \in Retirers :
          /\ rpc'[r] \in {"timeline", "clear", "next"} => IsPublished(target[r])'
          /\ rpc'[r] \in {"next", "free"} => debug_state'[target'[r].slot] = "GpuComplete"
          /\ rpc'[r] = "free" => IsFree(sequence'[target'[r].slot])
    BY <1>1, <1>2, <2>1, <2>3 DEF WriterInvariant, IsPublished, retirers
  <2> QED
    BY <2>4, <2>5, <2>6 DEF WriterInvariant
<1>12. ~FlushControlFails(p)
  BY DEF FlushControlFails, Serial
<1> QED
  BY <1>5, <1>7, <1>8, <1>9, <1>10, <1>11, <1>12 DEF ProducerStep, ProducerBusy

\* An executor changes nothing here but the guard of a sealed slot.
LEMMA ExecutorsTakeTurns ==
  ASSUME WriterInvariant, TypeOK', NEW e \in Executors, ExecutorStep(e)
  PROVE  WriterInvariant'
<1>1. UNCHANGED <<producers, retirers>>
  BY DEF ExecutorStep
<1>2. UNCHANGED sequence
  BY DEF ExecutorStep, Open, GpuSubmit, MarkChecks, MarkClaims, MarkStamps, ring
<1>3. \A j \in Slots :
        \/ debug_state'[j] = debug_state[j]
        \/ debug_state[j] = "CpuSealed" /\ debug_state'[j] = "GpuInFlight"
  <2>1. CASE UNCHANGED debug_state
    BY <2>1
  <2>2. CASE /\ debug_state[view[e].slot] = "CpuSealed"
             /\ debug_state' = [debug_state EXCEPT ![view[e].slot] = "GpuInFlight"]
    <3>1. debug_state \in [Slots -> DebugStates]
      BY DEF WriterInvariant, TypeOK
    <3> QED
      BY <2>2, <3>1
  <2> QED
    BY <2>1, <2>2 DEF ExecutorStep, Open, GpuSubmit, MarkChecks, MarkClaims, MarkStamps, ring
<1>4. /\ \A q \in Producers : cpu[q].slot \in Slots
      /\ \A r \in Retirers : rpc[r] \in {"next", "free"} => target[r].slot \in Slots
  <2>1. /\ \A q \in Producers : cpu[q] \in Handles
        /\ \A r \in Retirers : target[r] \in Handles
    BY DEF WriterInvariant, TypeOK
  <2> QED
    BY <2>1 DEF Handles
<1>5. \A q \in Producers : Guarding(q)' =>
        /\ \A x \in Producers \ {q} : Guarding(x)' => cpu'[x].slot # cpu'[q].slot
        /\ IsFree(sequence'[cpu'[q].slot])
        /\ debug_state'[cpu'[q].slot] \in
             IF ppc'[q] = "store" THEN {"CpuSealed", "GpuInFlight"} ELSE {"CpuWriting"}
        /\ ppc'[q] \in HoldPcs => sequence'[cpu'[q].slot] = FreeSequence(cpu'[q].generation)
  BY <1>1, <1>2, <1>3, <1>4 DEF WriterInvariant, Guarding, producers
<1>6. \A j \in Slots : ~IsFree(sequence'[j]) =>
        debug_state'[j] \in {"CpuSealed", "GpuInFlight", "GpuComplete"}
  BY <1>2, <1>3 DEF WriterInvariant
<1>7. \A r \in Retirers :
        /\ rpc'[r] \in {"timeline", "clear", "next"} => IsPublished(target[r])'
        /\ rpc'[r] \in {"next", "free"} => debug_state'[target'[r].slot] = "GpuComplete"
        /\ rpc'[r] = "free" => IsFree(sequence'[target'[r].slot])
  BY <1>1, <1>2, <1>3, <1>4 DEF WriterInvariant, IsPublished, retirers
<1> QED
  BY <1>5, <1>6, <1>7 DEF WriterInvariant

\* The one retirer moves a published slot, and no producer is past its guard.
LEMMA RetirersTakeTurns ==
  ASSUME WriterInvariant, TypeOK', Serial, NEW r \in Retirers, RetirerStep(r)
  PROVE  WriterInvariant'
<1> DEFINE i == target[r].slot
           g == target[r].generation
<1>1. UNCHANGED producers /\ \A s \in Retirers : s = r
  BY DEF RetirerStep, Serial
<1>2. /\ i \in Slots /\ g \in Generations
      /\ \A q \in Producers : cpu[q].slot \in Slots
      /\ rpc \in [Retirers -> RetirerPcs] /\ target \in [Retirers -> Handles]
      /\ debug_state \in [Slots -> DebugStates] /\ sequence \in [Slots -> Sequences]
  <2>1. \A x \in Handles : x.slot \in Slots /\ x.generation \in Generations
    BY DEF Handles
  <2> QED
    BY <2>1 DEF WriterInvariant, TypeOK
<1>3. rpc[r] \in {"timeline", "clear", "next"} => ~IsFree(sequence[i])
  BY <1>2, SequenceArithmetic DEF WriterInvariant, IsPublished
<1>4. rpc[r] \in {"clear", "next", "free"} =>
        \A q \in Producers : Guarding(q) => cpu[q].slot # i
  BY <1>2, <1>3 DEF WriterInvariant
<1>5. ASSUME \A q \in Producers : Guarding(q) =>
               /\ sequence'[cpu[q].slot] = sequence[cpu[q].slot]
               /\ debug_state'[cpu[q].slot] = debug_state[cpu[q].slot],
             \A j \in Slots : ~IsFree(sequence'[j]) =>
               debug_state'[j] \in {"CpuSealed", "GpuInFlight", "GpuComplete"},
             rpc'[r] \in {"timeline", "clear", "next"} => IsPublished(target[r])',
             rpc'[r] \in {"next", "free"} => debug_state'[target'[r].slot] = "GpuComplete",
             rpc'[r] = "free" => IsFree(sequence'[target'[r].slot])
      PROVE  WriterInvariant'
  <2>1. \A q \in Producers : Guarding(q)' =>
          /\ \A x \in Producers \ {q} : Guarding(x)' => cpu'[x].slot # cpu'[q].slot
          /\ IsFree(sequence'[cpu'[q].slot])
          /\ debug_state'[cpu'[q].slot] \in
               IF ppc'[q] = "store" THEN {"CpuSealed", "GpuInFlight"} ELSE {"CpuWriting"}
          /\ ppc'[q] \in HoldPcs => sequence'[cpu'[q].slot] = FreeSequence(cpu'[q].generation)
    BY <1>1, <1>5 DEF WriterInvariant, Guarding, producers
  <2> QED
    BY <1>1, <1>5, <2>1 DEF WriterInvariant
<1>6. CASE \E j \in Slots : RetireChecks(r, j)
  <2>1. PICK j \in Slots : RetireChecks(r, j)
    BY <1>6
  <2>2. IsPublished(HandleOf(j))
    BY <1>2, <2>1, SequenceArithmetic DEF RetireChecks, HandleOf, IsPublished
  <2> QED
    BY <1>2, <1>5, <2>1, <2>2 DEF RetireChecks, WriterInvariant, IsPublished, ring
<1>7. CASE RetireRefused(r) \/ RetireOverflows(r)
  BY <1>2, <1>5, <1>7
  DEF RetireRefused, RetireOverflows, RetirerIdle, WriterInvariant, ring
<1>8. CASE RetireAccepted(r)
  BY <1>2, <1>5, <1>8 DEF RetireAccepted, WriterInvariant, IsPublished, ring
<1>9. CASE RetireClears(r)
  <2>1. /\ debug_state' = [debug_state EXCEPT ![i] = "GpuComplete"]
        /\ rpc[r] = "clear" /\ rpc' = [rpc EXCEPT ![r] = "next"]
        /\ UNCHANGED <<sequence, target>> /\ IsPublished(target[r])
    BY <1>9 DEF RetireClears, WriterInvariant
  <2> QED
    BY <1>2, <1>4, <1>5, <2>1 DEF WriterInvariant, IsPublished
<1>10. CASE RetireStores(r)
  <2>1. /\ sequence' = [sequence EXCEPT ![i] = NextSequence(g)]
        /\ rpc[r] = "next" /\ rpc' = [rpc EXCEPT ![r] = "free"]
        /\ UNCHANGED <<debug_state, target>> /\ debug_state[i] = "GpuComplete"
    BY <1>10 DEF RetireStores, WriterInvariant
  <2>2. IsFree(NextSequence(g))
    BY <1>2, <1>10, SequenceArithmetic DEF RetireStores, NextSequence
  <2> QED
    BY <1>2, <1>4, <1>5, <2>1, <2>2 DEF WriterInvariant
<1>11. CASE RetireFrees(r)
  <2>1. /\ debug_state' = [debug_state EXCEPT ![i] = "Free"]
        /\ rpc[r] = "free" /\ rpc' = [rpc EXCEPT ![r] = "idle"]
        /\ UNCHANGED sequence /\ IsFree(sequence[i])
    BY <1>11 DEF RetireFrees, RetirerIdle, WriterInvariant
  <2> QED
    BY <1>2, <1>4, <1>5, <2>1 DEF WriterInvariant
<1> QED
  BY <1>6, <1>7, <1>8, <1>9, <1>10, <1>11 DEF RetirerStep, RetirerBusy

LEMMA WriterInductive == Serial /\ WriterInvariant /\ [Next]_vars => WriterInvariant'
<1>1. WriterInvariant /\ UNCHANGED vars => WriterInvariant'
  BY NextTyped
  DEF WriterInvariant, Guarding, IsPublished, vars, ring, producers, retirers
<1>2. WriterInvariant /\ [Next]_vars => TypeOK'
  BY NextTyped DEF WriterInvariant
<1>3. WriterInvariant /\ TypeOK' /\ GpuStep => WriterInvariant'
  BY DEF GpuStep, WriterInvariant, Guarding, IsPublished, ring, producers, retirers
<1> QED
  BY <1>1, <1>2, <1>3, ProducersTakeTurns, ExecutorsTakeTurns, RetirersTakeTurns DEF Next

\* With one retirer and control flushes that do not fail, producers and retirer take
\* turns on every slot, however often its handle is submitted and marked.
THEOREM TurnsAreKept == Serial => (Spec => []WriterInvariant)
<1> SUFFICES ASSUME Serial PROVE Spec => []WriterInvariant
  OBVIOUS
<1>1. WriterInvariant /\ [Next]_vars => WriterInvariant'
  BY WriterInductive
<1> QED
  BY <1>1, WriterInitial, PTL DEF Spec

\* No two producers ever hold a slot at once, and none holds a published one: the
\* claim guard and the recheck of the sequence give payload_mut its exclusivity, and no
\* stale mark_in_flight takes it away.
THEOREM OneWriterPerSlot == Serial => (Spec => []SingleWriter)
<1>1. WriterInvariant => SingleWriter
  BY DEF WriterInvariant, SingleWriter, Guarding, Holds
<1> QED
  BY <1>1, TurnsAreKept, PTL

\* "Abandoned before publication: no generation change" is true of every slot drop
\* cleans up, as long as control flushes do not fail.
THEOREM AbandonedStaysUnpublished == Serial => (Spec => []AbandonedUnpublished)
<1>1. WriterInvariant => AbandonedUnpublished
  BY DEF WriterInvariant, AbandonedUnpublished, Guarding, HoldPcs
<1> QED
  BY <1>1, TurnsAreKept, PTL

LEMMA DisciplineImpliesTurns ==
  /\ Disciplined => Serial
  /\ RingInvariant => WriterInvariant
BY DEF Disciplined, Serial, RingInvariant, WriterInvariant, GuardsHold, PublishedStates,
       TargetsHold

LEMMA StepsMoveSequences ==
  ASSUME WriterInvariant, Serial, [Next]_vars, NEW i \in Slots
  PROVE  sequence'[i] \in {sequence[i], sequence[i] + 1}
<1> USE DEF WriterInvariant
<1>1. ASSUME NEW p \in Producers, ProducerStep(p)
      PROVE  sequence'[i] \in {sequence[i], sequence[i] + 1}
  <2>1. CASE StoreSequence(p)
    <3>1. /\ sequence[cpu[p].slot] = FreeSequence(cpu[p].generation)
          /\ sequence' = [sequence EXCEPT ![cpu[p].slot] =
                            PublishedSequence(cpu[p].generation)]
          /\ sequence \in [Slots -> Sequences]
      BY <2>1 DEF StoreSequence, Guarding, HoldPcs, TypeOK
    <3>2. PublishedSequence(cpu[p].generation) = FreeSequence(cpu[p].generation) + 1
      BY DEF PublishedSequence, FreeSequence
    <3> QED
      BY <3>1, <3>2
  <2>2. CASE ~StoreSequence(p)
    <3>1. UNCHANGED sequence
      BY <1>1, <2>2
      DEF ProducerStep, ProducerBusy, ring, producers, StartScan, SkipPublished, LoadSequence,
          ClaimFails, Claim, Recheck, RecheckFails, Unclaim, RingFull, WritePayload, Abandon,
          FlushData, Seal, FlushControl, FlushControlFails, DropClears, DropReleases
    <3> QED
      BY <3>1
  <2> QED
    BY <2>1, <2>2
<1>2. ASSUME NEW e \in Executors, ExecutorStep(e)
      PROVE  UNCHANGED sequence
  BY <1>2 DEF ExecutorStep, ring, Open, GpuSubmit, MarkChecks, MarkClaims, MarkStamps
<1>3. GpuStep => UNCHANGED sequence
  BY DEF GpuStep, ring
<1>4. ASSUME NEW r \in Retirers, RetirerStep(r)
      PROVE  sequence'[i] \in {sequence[i], sequence[i] + 1}
  <2>1. CASE RetireStores(r)
    <3>1. /\ IsPublished(target[r]) /\ target[r].generation \in Generations
          /\ sequence' = [sequence EXCEPT ![target[r].slot] =
                            NextSequence(target[r].generation)]
          /\ sequence \in [Slots -> Sequences]
      BY <2>1 DEF RetireStores, TypeOK, Handles
    <3>2. NextSequence(target[r].generation) = PublishedSequence(target[r].generation) + 1
      BY <2>1, <3>1, SequenceArithmetic DEF RetireStores
    <3> QED
      BY <3>1, <3>2 DEF IsPublished
  <2>2. CASE ~RetireStores(r)
    <3>1. UNCHANGED sequence
      BY <1>4, <2>2
      DEF RetirerStep, RetirerBusy, ring, RetireChecks, RetireRefused, RetireAccepted,
          RetireClears, RetireOverflows, RetireFrees
    <3> QED
      BY <3>1
  <2> QED
    BY <2>1, <2>2
<1>5. UNCHANGED vars => UNCHANGED sequence
  BY DEF vars, ring
<1> QED
  BY <1>1, <1>2, <1>3, <1>4, <1>5 DEF Next

\* publish and retire each move a sequence by one, and nothing else moves it: no
\* generation is skipped, repeated or rolled back, whatever stale handles are marked.
THEOREM SequencesOnlyStep == Serial => (Spec => SequenceSteps)
<1> SUFFICES ASSUME Serial PROVE Spec => SequenceSteps
  OBVIOUS
<1>1. WriterInvariant /\ [Next]_vars =>
        [\A i \in Slots : sequence'[i] \in {sequence[i], sequence[i] + 1}]_vars
  BY StepsMoveSequences
<1>2. Spec => []WriterInvariant
  BY TurnsAreKept
<1> QED
  BY <1>1, <1>2, PTL DEF Spec, SequenceSteps

LEMMA StepsKeepPublished ==
  ASSUME RingInvariant, Disciplined, [Next]_vars, NEW i \in Slots,
         ~IsFree(sequence[i]), \A t \in 1 .. completed : jobs[t] # HandleOf(i)
  PROVE  payload'[i] = payload[i] /\ metadata'[i] = metadata[i]
<1> USE DEF RingInvariant
<1>1. ASSUME NEW p \in Producers, ProducerStep(p)
      PROVE  payload'[i] = payload[i] /\ metadata'[i] = metadata[i]
  <2>1. ppc[p] \in HoldPcs => cpu[p].slot # i
    BY DEF GuardsHold, Guarding
  <2>2. CASE WritePayload(p) \/ FlushData(p) \/ DropClears(p)
    BY <2>1, <2>2 DEF WritePayload, FlushData, DropClears, HoldPcs, TypeOK
  <2>3. CASE ~(WritePayload(p) \/ FlushData(p) \/ DropClears(p))
    <3>1. UNCHANGED <<payload, metadata>>
      BY <1>1, <2>3
      DEF ProducerStep, ProducerBusy, ring, StartScan, SkipPublished, LoadSequence,
          ClaimFails, Claim, Recheck, RecheckFails, Unclaim, RingFull, Abandon,
          Seal, StoreSequence, FlushControl, FlushControlFails, DropReleases
    <3> QED
      BY <3>1
  <2> QED
    BY <2>2, <2>3
<1>2. ASSUME NEW e \in Executors, ExecutorStep(e)
      PROVE  UNCHANGED <<payload, metadata>>
  BY <1>2 DEF ExecutorStep, ring, Open, GpuSubmit, MarkChecks, MarkClaims, MarkStamps
<1>3. GpuStep => UNCHANGED <<payload, metadata>>
  BY DEF GpuStep, ring
<1>4. ASSUME NEW r \in Retirers, RetirerStep(r)
      PROVE  payload'[i] = payload[i] /\ metadata'[i] = metadata[i]
  <2>1. CASE RetireClears(r)
    <3>1. gpu_timeline[target[r].slot] \in 1 .. completed /\ target[r].slot \in Slots
      BY <2>1 DEF RetireClears, TargetsHold, TypeOK, Handles
    <3>2. jobs[gpu_timeline[target[r].slot]] = HandleOf(target[r].slot)
      BY <3>1 DEF TimelinesHold
    <3>3. target[r].slot # i
      BY <3>1, <3>2
    <3> QED
      BY <2>1, <3>3 DEF RetireClears, TypeOK
  <2>2. CASE ~RetireClears(r)
    <3>1. UNCHANGED <<payload, metadata>>
      BY <1>4, <2>2
      DEF RetirerStep, RetirerBusy, ring, RetireChecks, RetireRefused, RetireAccepted,
          RetireStores, RetireOverflows, RetireFrees
    <3> QED
      BY <3>1
  <2> QED
    BY <2>1, <2>2
<1>5. UNCHANGED vars => UNCHANGED <<payload, metadata>>
  BY DEF vars, ring
<1> QED
  BY <1>1, <1>2, <1>3, <1>4, <1>5 DEF Next

\* What a producer published reaches the GPU unchanged: neither another producer
\* nor an early retire touches payload or header before the work is complete.
THEOREM PublishedStays == Disciplined => (Spec => PublishedImmutable)
<1> SUFFICES ASSUME Disciplined PROVE Spec => PublishedImmutable
  OBVIOUS
<1>1. RingInvariant /\ [Next]_vars =>
        [\A i \in Slots :
           ~IsFree(sequence[i]) /\ (\A t \in 1 .. completed : jobs[t] # HandleOf(i))
             => payload'[i] = payload[i] /\ metadata'[i] = metadata[i]]_vars
  BY StepsKeepPublished
<1>2. Spec => []RingInvariant
  BY RingIsInductive
<1> QED
  BY <1>1, <1>2, PTL DEF Spec, PublishedImmutable

(* --- nothing is lost --------------------------------------------------- *)

LEMMA JobsStayBehind ==
  ASSUME RingInvariant, Disciplined, JobsBehind, [Next]_vars
  PROVE  JobsBehind'
<1>1. jobs \in Seq(Handles) /\ Len(jobs) \in Nat /\ sequence \in [Slots -> Sequences]
  BY DEF RingInvariant, TypeOK
<1>2. \A i \in Slots : sequence[i] \in Nat /\ sequence'[i] \in Nat /\ sequence[i] <= sequence'[i]
  BY <1>1, StepsMoveSequences, DisciplineImpliesTurns DEF Sequences
<1>3. ASSUME NEW t \in 1 .. Len(jobs)
      PROVE  PublishedSequence(jobs[t].generation) <= sequence'[jobs[t].slot]
  <2>1. jobs[t] \in Handles /\ jobs[t].slot \in Slots /\ jobs[t].generation \in Generations
    <3>1. jobs[t] \in Handles
      BY <1>1
    <3> QED
      BY <3>1 DEF Handles
  <2>2. PublishedSequence(jobs[t].generation) <= sequence[jobs[t].slot]
    BY DEF JobsBehind
  <2>3. PublishedSequence(jobs[t].generation) \in Nat
    BY <2>1, SequenceArithmetic DEF Sequences
  <2> QED
    BY <1>2, <2>1, <2>2, <2>3
<1>4. CASE \E e \in Executors : GpuSubmit(e)
  <2>1. PICK e \in Executors : GpuSubmit(e)
    BY <1>4
  <2>2. /\ jobs' = Append(jobs, view[e]) /\ view[e] \in Handles
        /\ IsPublished(view[e]) /\ UNCHANGED sequence
    BY <2>1 DEF GpuSubmit, ring, RingInvariant, HandlesHold, TypeOK
  <2>3. ASSUME NEW t \in 1 .. Len(jobs')
        PROVE  PublishedSequence(jobs'[t].generation) <= sequence'[jobs'[t].slot]
    <3>1. CASE t \in 1 .. Len(jobs)
      BY <1>1, <1>3, <2>2, <3>1
    <3>2. CASE t = Len(jobs) + 1
      <4>1. jobs'[t] = view[e] /\ view[e].slot \in Slots
        BY <1>1, <2>2, <3>2 DEF Handles
      <4> QED
        BY <1>1, <1>2, <2>2, <4>1 DEF IsPublished
    <3> QED
      BY <1>1, <2>2, <3>1, <3>2
  <2> QED
    BY <2>3 DEF JobsBehind
<1>5. CASE ~\E e \in Executors : GpuSubmit(e)
  <2>1. jobs' = jobs
    BY <1>5 DEF Next, ProducerStep, ExecutorStep, GpuStep, GpuComplete, RetirerStep, Open,
                MarkChecks, MarkClaims, MarkStamps, gpu, vars
  <2> QED
    BY <1>3, <2>1 DEF JobsBehind
<1> QED
  BY <1>4, <1>5

\* A slot whose header does not change stays kept as long as those who keep it do.
LEMMA KeptFrame ==
  ASSUME NEW i \in Slots, Kept(i),
         sequence'[i] = sequence[i], debug_state'[i] = debug_state[i],
         gpu_timeline'[i] # 0 \/ gpu_timeline'[i] = gpu_timeline[i],
         \A p \in Producers : Guarding(p) /\ cpu[p].slot = i =>
           Guarding(p)' /\ cpu'[p].slot = i,
         Carried(HandleOf(i)) => Carried(HandleOf(i))',
         Submitted(HandleOf(i))' => Submitted(HandleOf(i)) \/ Carried(HandleOf(i))',
         Clearing(i, "next") => Clearing(i, "next")',
         Clearing(i, "free") => Clearing(i, "free")'
  PROVE  Kept(i)'
<1>1. HandleOf(i)' = HandleOf(i)
  BY DEF HandleOf
<1>2. (\E p \in Producers : Guarding(p) /\ cpu[p].slot = i) =>
        (\E p \in Producers : Guarding(p) /\ cpu[p].slot = i)'
  OBVIOUS
<1>3. MovesOn(i) => MovesOn(i)'
  BY DEF MovesOn
<1> QED
  BY <1>1, <1>2, <1>3 DEF Kept

LEMMA ProducersLoseNothing ==
  ASSUME RingInvariant, Disciplined, JobsBehind, NEW i \in Slots, Kept(i),
         NEW p \in Producers, ProducerStep(p)
  PROVE  Kept(i)'
<1> USE DEF RingInvariant
<1>1. /\ UNCHANGED <<executors, retirers, gpu>> /\ cpu[p] \in Handles
      /\ ppc \in [Producers -> ProducerPcs] /\ cpu \in [Producers -> Handles]
      /\ debug_state \in [Slots -> DebugStates] /\ sequence \in [Slots -> Sequences]
      /\ gpu_timeline \in [Slots -> Nat]
  BY DEF ProducerStep, TypeOK
<1>2. CASE Guarding(p) /\ cpu[p].slot = i
  <2>1. /\ IsFree(sequence[i])
        /\ debug_state[i] = IF ppc[p] = "store" THEN "CpuSealed" ELSE "CpuWriting"
        /\ ppc[p] \in HoldPcs => sequence[i] = FreeSequence(cpu[p].generation)
    BY <1>2 DEF GuardsHold
  <2>2. CASE Recheck(p) \/ RecheckFails(p) \/ WritePayload(p) \/ Abandon(p) \/ FlushData(p)
             \/ Seal(p) \/ DropClears(p)
    <3>1. Guarding(p)' /\ cpu' = cpu
      BY <1>1, <2>2
      DEF Recheck, RecheckFails, WritePayload, Abandon, FlushData, Seal, DropClears, Goto,
          Guarding, HoldPcs, producers
    <3> QED
      BY <1>2, <3>1 DEF Kept
  <2>3. CASE Unclaim(p) \/ DropReleases(p)
    <3>1. debug_state'[i] = "Free" /\ sequence' = sequence
      BY <1>1, <1>2, <2>3 DEF Unclaim, DropReleases
    <3> QED
      BY <2>1, <3>1 DEF Kept, IsFree
  <2>4. CASE StoreSequence(p)
    <3>1. /\ sequence'[i] = PublishedSequence(cpu[p].generation)
          /\ debug_state'[i] = "CpuSealed" /\ jobs' = jobs
      BY <1>1, <1>2, <2>1, <2>4 DEF StoreSequence, gpu
    <3>2. /\ cpu[p].generation \in Generations /\ HandleOf(i)' = cpu[p]
          /\ ~IsFree(PublishedSequence(cpu[p].generation))
      BY <1>1, <1>2, <3>1, SequenceArithmetic DEF Handles, HandleOf
    <3>3. sequence[i] = FreeSequence(cpu[p].generation)
      BY <2>1, <2>4 DEF StoreSequence, HoldPcs
    <3>4. ~Submitted(HandleOf(i))'
      <4> SUFFICES ASSUME NEW t \in 1 .. Len(jobs), jobs[t] = cpu[p] PROVE FALSE
        BY <3>1, <3>2 DEF Submitted
      <4>1. PublishedSequence(cpu[p].generation) <= sequence[i]
        BY <1>2 DEF JobsBehind
      <4>2. cpu[p].generation \in Nat
        BY <3>2, RingAssumption DEF Generations, RingAssumption
      <4> QED
        BY <3>3, <4>1, <4>2 DEF PublishedSequence, FreeSequence
    <3>5. ~IsFree(sequence'[i])
      BY <3>1, <3>2
    <3> QED
      BY <3>1, <3>4, <3>5 DEF Kept, MovesOn, IsFree
  <2> QED
    BY <1>2, <2>2, <2>3, <2>4
    DEF ProducerStep, ProducerBusy, Guarding, HoldPcs, StartScan, SkipPublished, LoadSequence,
        ClaimFails, Claim, RingFull, FlushControl, FlushControlFails, Disciplined
<1>3. CASE ~(Guarding(p) /\ cpu[p].slot = i)
  <2>1. CASE Claim(p) /\ cpu[p].slot = i
    <3>1. Guarding(p)' /\ cpu' = cpu
      BY <1>1, <2>1 DEF Claim, Goto, Guarding
    <3> QED
      BY <2>1, <3>1 DEF Kept
  <2>2. CASE ~(Claim(p) /\ cpu[p].slot = i)
    <3>1. /\ sequence'[i] = sequence[i] /\ debug_state'[i] = debug_state[i]
          /\ gpu_timeline'[i] = gpu_timeline[i]
      BY <1>1, <1>3, <2>2
      DEF ProducerStep, ProducerBusy, ring, StartScan, SkipPublished, LoadSequence, ClaimFails,
          Claim, Recheck, RecheckFails, Unclaim, RingFull, WritePayload, Abandon, FlushData,
          Seal, StoreSequence, FlushControl, FlushControlFails, DropClears, DropReleases,
          Guarding, HoldPcs, Disciplined
    <3>2. \A q \in Producers \ {p} : ppc'[q] = ppc[q] /\ cpu'[q] = cpu[q]
      BY <1>1
      DEF ProducerStep, ProducerBusy, producers, Goto, NextProbe, StartScan, SkipPublished,
          LoadSequence, ClaimFails, Claim, Recheck, RecheckFails, Unclaim, RingFull,
          WritePayload, Abandon, FlushData, Seal, StoreSequence, FlushControl,
          FlushControlFails, DropClears, DropReleases
    <3>3. \A q \in Producers : Guarding(q) /\ cpu[q].slot = i => Guarding(q)' /\ cpu'[q].slot = i
      BY <1>3, <3>2 DEF Guarding
    <3>4. /\ HandleOf(i)' = HandleOf(i) /\ epc' = epc /\ view' = view /\ jobs' = jobs
          /\ rpc' = rpc /\ target' = target
      BY <1>1, <3>1 DEF HandleOf, executors, gpu, retirers
    <3> QED
      BY <3>1, <3>3, <3>4, KeptFrame DEF Carried, Submitted, Clearing
  <2> QED
    BY <2>1, <2>2
<1> QED
  BY <1>2, <1>3

LEMMA ExecutorsLoseNothing ==
  ASSUME RingInvariant, NEW i \in Slots, Kept(i), NEW e \in Executors, ExecutorStep(e)
  PROVE  Kept(i)'
<1> USE DEF RingInvariant
<1>1. /\ UNCHANGED <<producers, retirers>> /\ UNCHANGED sequence /\ HandleOf(i)' = HandleOf(i)
      /\ HandleOf(i) \in Handles /\ view[e] \in Handles
      /\ epc \in [Executors -> ExecutorPcs] /\ view \in [Executors -> Handles]
      /\ ticket \in [Executors -> Nat] /\ jobs \in Seq(Handles) /\ Len(jobs) \in Nat
      /\ debug_state \in [Slots -> DebugStates] /\ gpu_timeline \in [Slots -> Nat]
  <2>1. UNCHANGED <<producers, retirers>> /\ UNCHANGED sequence
    BY DEF ExecutorStep, Open, GpuSubmit, MarkChecks, MarkClaims, MarkStamps, ring
  <2>2. HandleOf(i) \in Handles
    BY HandlesAreTyped
  <2>3. jobs \in Seq(Handles) /\ Len(jobs) \in Nat
    BY DEF TypeOK
  <2> QED
    BY <2>1, <2>2, <2>3 DEF HandleOf, TypeOK
<1>2. /\ \A q \in Producers : Guarding(q) /\ cpu[q].slot = i => Guarding(q)' /\ cpu'[q].slot = i
      /\ \A pc : Clearing(i, pc) => Clearing(i, pc)'
  BY <1>1 DEF Guarding, Clearing, producers, retirers
<1>3. CASE \E j \in Slots : Open(e, j)
  <2>1. PICK j \in Slots : Open(e, j)
    BY <1>3
  <2>2. /\ UNCHANGED <<debug_state, gpu_timeline, jobs>>
        /\ \A f \in Executors : epc[f] # "idle" => epc'[f] = epc[f] /\ view'[f] = view[f]
    BY <1>1, <2>1 DEF Open, ring, gpu
  <2>3. Carried(HandleOf(i)) => Carried(HandleOf(i))'
    BY <1>1, <2>2 DEF Carried
  <2> QED
    BY <1>1, <1>2, <2>2, <2>3, KeptFrame DEF Submitted
<1>4. CASE GpuSubmit(e)
  <2>1. /\ UNCHANGED <<debug_state, gpu_timeline, view>> /\ jobs' = Append(jobs, view[e])
        /\ epc'[e] = "check" /\ \A f \in Executors \ {e} : epc'[f] = epc[f]
    BY <1>1, <1>4 DEF GpuSubmit, ring
  <2>2. Carried(HandleOf(i)) => Carried(HandleOf(i))'
    BY <1>1, <2>1 DEF Carried
  <2>3. Submitted(HandleOf(i))' => Submitted(HandleOf(i)) \/ Carried(HandleOf(i))'
    <3> SUFFICES ASSUME NEW t \in 1 .. Len(jobs'), jobs'[t] = HandleOf(i)
                 PROVE  Submitted(HandleOf(i)) \/ Carried(HandleOf(i))'
      BY <1>1 DEF Submitted
    <3>1. CASE t \in 1 .. Len(jobs)
      BY <1>1, <2>1, <3>1 DEF Submitted
    <3>2. CASE t = Len(jobs) + 1
      BY <1>1, <2>1, <3>2 DEF Carried
    <3> QED
      BY <1>1, <2>1, <3>1, <3>2
  <2> QED
    BY <1>1, <1>2, <2>1, <2>2, <2>3, KeptFrame
<1>5. CASE MarkChecks(e) \/ MarkClaims(e)
  <2>1. IsPublished(view[e]) /\ (epc[e] = "cas" => debug_state[view[e].slot] = "CpuSealed")
    BY <1>5 DEF HandlesHold, MarkChecks, MarkClaims
  <2>2. /\ UNCHANGED <<gpu_timeline, view, jobs>> /\ epc'[e] \in {"cas", "stamp"}
        /\ \A f \in Executors \ {e} : epc'[f] = epc[f]
    BY <1>1, <1>5, <2>1 DEF MarkChecks, MarkClaims, ring, gpu
  <2>3. Carried(HandleOf(i)) => Carried(HandleOf(i))'
    BY <1>1, <2>2 DEF Carried
  <2>4. CASE debug_state'[i] = debug_state[i]
    BY <1>1, <1>2, <2>2, <2>3, <2>4, KeptFrame DEF Submitted
  <2>5. CASE debug_state'[i] # debug_state[i]
    <3>1. MarkClaims(e) /\ view[e].slot = i /\ debug_state'[i] = "GpuInFlight"
      BY <1>1, <1>5, <2>1, <2>5 DEF MarkChecks, MarkClaims, ring
    <3>2. view[e] = HandleOf(i) /\ ~IsFree(sequence[i])
      BY <1>1, <2>1, <3>1, SequenceArithmetic DEF IsPublished, Handles, HandleOf
    <3>3. Carried(HandleOf(i))'
      BY <1>1, <2>2, <3>2 DEF Carried
    <3> QED
      BY <1>1, <3>1, <3>2, <3>3 DEF Kept, MovesOn, IsFree
  <2> QED
    BY <2>4, <2>5
<1>6. CASE MarkStamps(e)
  <2>1. /\ UNCHANGED <<debug_state, jobs>> /\ IsPublished(view[e]) /\ ticket[e] # 0
        /\ debug_state[view[e].slot] = "GpuInFlight"
        /\ gpu_timeline' = [gpu_timeline EXCEPT ![view[e].slot] = ticket[e]]
        /\ \A f \in Executors \ {e} : epc'[f] = epc[f] /\ view'[f] = view[f]
    <3>1. epc[e] = "stamp"
      BY <1>6 DEF MarkStamps
    <3>2. /\ IsPublished(view[e]) /\ debug_state[view[e].slot] = "GpuInFlight"
          /\ ticket[e] # 0
      <4>1. /\ IsPublished(view[e]) /\ debug_state[view[e].slot] = "GpuInFlight"
            /\ ticket[e] \in 1 .. Len(jobs)
        BY <3>1 DEF HandlesHold
      <4> QED
        BY <1>1, <4>1
    <3>3. /\ epc' = [epc EXCEPT ![e] = "idle"] /\ view' = [view EXCEPT ![e] = NoHandle]
          /\ gpu_timeline' = [gpu_timeline EXCEPT ![view[e].slot] = ticket[e]]
          /\ UNCHANGED <<debug_state, jobs>>
      BY <1>6 DEF MarkStamps, ExecutorIdle, gpu
    <3>4. \A f \in Executors \ {e} : epc'[f] = epc[f] /\ view'[f] = view[f]
      BY <1>1, <3>3
    <3> QED
      BY <3>2, <3>3, <3>4
  <2>2. CASE view[e] = HandleOf(i)
    <3>1. /\ view[e].slot = i /\ ~IsFree(sequence[i]) /\ gpu_timeline'[i] # 0
          /\ debug_state'[i] = "GpuInFlight"
      BY <1>1, <2>1, <2>2, SequenceArithmetic DEF IsPublished, Handles, HandleOf
    <3> QED
      BY <1>1, <3>1 DEF Kept, MovesOn, IsFree
  <2>3. CASE view[e] # HandleOf(i)
    <3>1. Carried(HandleOf(i)) => Carried(HandleOf(i))'
      BY <1>1, <2>1, <2>3 DEF Carried
    <3>2. gpu_timeline'[i] # 0 \/ gpu_timeline'[i] = gpu_timeline[i]
      BY <1>1, <2>1
    <3> QED
      BY <1>1, <1>2, <2>1, <3>1, <3>2, KeptFrame DEF Submitted
  <2> QED
    BY <2>2, <2>3
<1> QED
  BY <1>3, <1>4, <1>5, <1>6 DEF ExecutorStep

LEMMA RetirersLoseNothing ==
  ASSUME RingInvariant, Disciplined, NEW i \in Slots, Kept(i),
         NEW r \in Retirers, RetirerStep(r)
  PROVE  Kept(i)'
<1> USE DEF RingInvariant
<1>1. /\ UNCHANGED <<producers, executors, gpu>>
      /\ target[r] \in Handles /\ target[r].slot \in Slots /\ target[r].generation \in Generations
      /\ rpc \in [Retirers -> RetirerPcs] /\ target \in [Retirers -> Handles]
      /\ debug_state \in [Slots -> DebugStates] /\ sequence \in [Slots -> Sequences]
      /\ gpu_timeline \in [Slots -> Nat]
  BY DEF RetirerStep, TypeOK, Handles
<1>2. \A s \in Retirers : s = r
  BY DEF Disciplined
<1>3. \A q \in Producers : Guarding(q) /\ cpu[q].slot = i => Guarding(q)' /\ cpu'[q].slot = i
  BY <1>1 DEF Guarding, producers
<1>4. ASSUME UNCHANGED ring, Clearing(i, "next") => Clearing(i, "next")',
             Clearing(i, "free") => Clearing(i, "free")'
      PROVE  Kept(i)'
  <2>1. HandleOf(i)' = HandleOf(i) /\ epc' = epc /\ view' = view /\ jobs' = jobs
    BY <1>1, <1>4 DEF HandleOf, ring, executors, gpu
  <2> QED
    BY <1>3, <1>4, <2>1, KeptFrame DEF ring, Carried, Submitted
<1>5. CASE (\E j \in Slots : RetireChecks(r, j)) \/ RetireRefused(r) \/ RetireAccepted(r)
  <2>1. UNCHANGED ring /\ rpc[r] \notin {"next", "free"}
    BY <1>5 DEF RetireChecks, RetireRefused, RetireAccepted
  <2> QED
    BY <1>2, <1>4, <2>1 DEF Clearing
<1>6. CASE target[r].slot # i /\ RetirerBusy(r)
  <2>1. /\ sequence'[i] = sequence[i] /\ debug_state'[i] = debug_state[i]
        /\ gpu_timeline'[i] = gpu_timeline[i]
    BY <1>1, <1>6
    DEF RetirerBusy, RetireRefused, RetireAccepted, RetireClears, RetireStores,
        RetireOverflows, RetireFrees, ring
  <2>2. HandleOf(i)' = HandleOf(i) /\ epc' = epc /\ view' = view /\ jobs' = jobs
    BY <1>1, <2>1 DEF HandleOf, executors, gpu
  <2>3. ~Clearing(i, "next") /\ ~Clearing(i, "free")
    BY <1>2, <1>6 DEF Clearing
  <2> QED
    BY <1>3, <2>1, <2>2, <2>3, KeptFrame DEF Carried, Submitted
<1>7. CASE target[r].slot = i /\ RetireClears(r)
  <2>1. /\ IsPublished(target[r]) /\ debug_state'[i] = "GpuComplete" /\ sequence' = sequence
        /\ rpc'[r] = "next" /\ target' = target
    BY <1>1, <1>7 DEF RetireClears, TargetsHold
  <2>2. ~IsFree(sequence'[i]) /\ Clearing(i, "next")'
    BY <1>1, <1>7, <2>1, SequenceArithmetic DEF IsPublished, Clearing
  <2> QED
    BY <2>1, <2>2 DEF Kept, MovesOn, IsFree
<1>8. CASE target[r].slot = i /\ RetireStores(r)
  <2>1. /\ debug_state[i] = "GpuComplete" /\ debug_state' = debug_state
        /\ rpc'[r] = "free" /\ target' = target
    BY <1>1, <1>8 DEF RetireStores, TargetsHold
  <2>2. Clearing(i, "free")'
    BY <1>8, <2>1 DEF Clearing
  <2> QED
    BY <2>1, <2>2 DEF Kept
<1>9. CASE target[r].slot = i /\ RetireOverflows(r)
  <2>1. /\ IsPublished(target[r]) /\ debug_state[i] = "GpuComplete"
        /\ NextSequence(target[r].generation) > MaxU64
        /\ sequence' = sequence /\ debug_state' = debug_state
    BY <1>9 DEF RetireOverflows, TargetsHold, ring
  <2>2. /\ sequence[i] = PublishedSequence(target[r].generation)
        /\ sequence[i] \in Sequences /\ ~IsFree(sequence[i])
    BY <1>1, <1>9, <2>1, SequenceArithmetic DEF IsPublished
  <2>3. sequence[i] = MaxU64
    <3>1. target[r].generation \in Nat /\ MaxU64 \in Nat
      BY <1>1, RingAssumption DEF Generations, RingAssumption
    <3> QED
      BY <2>1, <2>2, <3>1 DEF Sequences, NextSequence, FreeSequence, PublishedSequence
  <2> QED
    BY <2>1, <2>2, <2>3 DEF Kept, MovesOn, IsFree
<1>10. CASE target[r].slot = i /\ RetireFrees(r)
  <2>1. debug_state'[i] = "Free" /\ sequence' = sequence /\ IsFree(sequence[i])
    BY <1>1, <1>10 DEF RetireFrees, TargetsHold
  <2> QED
    BY <2>1 DEF Kept, IsFree
<1> QED
  BY <1>5, <1>6, <1>7, <1>8, <1>9, <1>10 DEF RetirerStep, RetirerBusy

LEMMA StepsLoseNothing ==
  RingInvariant /\ Disciplined /\ JobsBehind /\ NoSlotLost /\ [Next]_vars =>
    JobsBehind' /\ NoSlotLost'
<1> SUFFICES ASSUME RingInvariant, Disciplined, JobsBehind, NoSlotLost, [Next]_vars
             PROVE  JobsBehind' /\ NoSlotLost'
  OBVIOUS
<1>1. ASSUME NEW i \in Slots PROVE Kept(i)'
  <2>1. Kept(i)
    BY DEF NoSlotLost
  <2>2. CASE \E p \in Producers : ProducerStep(p)
    BY <2>1, <2>2, ProducersLoseNothing
  <2>3. CASE \E e \in Executors : ExecutorStep(e)
    BY <2>1, <2>3, ExecutorsLoseNothing
  <2>4. CASE \E r \in Retirers : RetirerStep(r)
    BY <2>1, <2>4, RetirersLoseNothing
  <2>5. CASE GpuStep \/ UNCHANGED vars
    <3>1. UNCHANGED <<ring, producers, executors, retirers, jobs>>
      BY <2>5 DEF GpuStep, GpuComplete, vars, gpu
    <3>2. Kept(i)' = Kept(i)
      BY <3>1 DEF Kept, MovesOn, Guarding, Clearing, Carried, Submitted, HandleOf,
                  ring, producers, executors, retirers
    <3> QED
      BY <2>1, <3>2
  <2> QED
    BY <2>2, <2>3, <2>4, <2>5 DEF Next
<1> QED
  BY <1>1, JobsStayBehind DEF NoSlotLost

\* Every slot is free, or some call, executor or retire still moves it on: no
\* interleaving of lost rechecks, failed data flushes, early marks and retires leaves
\* a slot behind, before its last generation.
THEOREM NothingIsLost == Disciplined => (Spec => []NoSlotLost)
<1> SUFFICES ASSUME Disciplined PROVE Spec => []NoSlotLost
  OBVIOUS
<1>1. Init => JobsBehind /\ NoSlotLost
  BY DEF Init, JobsBehind, NoSlotLost, Kept, IsFree
<1>2. Spec => []RingInvariant
  BY RingIsInductive
<1>3. RingInvariant /\ JobsBehind /\ NoSlotLost /\ [Next]_vars => JobsBehind' /\ NoSlotLost'
  BY StepsLoseNothing
<1> QED
  BY <1>1, <1>2, <1>3, PTL DEF Spec

(* --- the refinement ---------------------------------------------------- *)

LEMMA JobsStayDistinct ==
  ASSUME RingInvariant, Disciplined, JobsOnce, [Next]_vars
  PROVE  JobsOnce'
<1> USE DEF RingInvariant
<1>1. /\ jobs \in Seq(Handles) /\ Len(jobs) \in Nat
      /\ epc \in [Executors -> ExecutorPcs] /\ view \in [Executors -> Handles]
  BY DEF TypeOK
<1>2. CASE \E e \in Executors : GpuSubmit(e)
  <2>1. PICK e \in Executors : GpuSubmit(e)
    BY <1>2
  <2>2. /\ jobs' = Append(jobs, view[e]) /\ view' = view /\ epc[e] = "submit"
        /\ epc' = [epc EXCEPT ![e] = "check"]
    BY <2>1 DEF GpuSubmit
  <2>3. /\ Len(jobs') = Len(jobs) + 1 /\ jobs'[Len(jobs) + 1] = view[e]
        /\ \A t \in 1 .. Len(jobs) : jobs'[t] = jobs[t] /\ jobs[t] # view[e]
    BY <1>1, <2>2 DEF JobsOnce, Submitted
  <2>4. ASSUME NEW s \in 1 .. Len(jobs'), NEW t \in 1 .. Len(jobs'), jobs'[s] = jobs'[t]
        PROVE  s = t
    <3>1. CASE s \in 1 .. Len(jobs) /\ t \in 1 .. Len(jobs)
      BY <2>3, <2>4, <3>1 DEF JobsOnce
    <3>2. CASE ~(s \in 1 .. Len(jobs) /\ t \in 1 .. Len(jobs))
      BY <1>1, <2>3, <2>4, <3>2
    <3> QED
      BY <3>1, <3>2
  <2>5. ASSUME NEW f \in Executors, epc'[f] = "submit" PROVE ~Submitted(view[f])'
    <3>1. f # e /\ epc[f] = "submit" /\ view[f] # view[e]
      BY <1>1, <2>2, <2>5 DEF HandlesHold
    <3>2. \A t \in 1 .. Len(jobs) : jobs[t] # view[f]
      BY <3>1 DEF JobsOnce, Submitted
    <3> QED
      BY <1>1, <2>2, <2>3, <3>1, <3>2 DEF Submitted
  <2> QED
    BY <2>4, <2>5 DEF JobsOnce
<1>3. CASE ~\E e \in Executors : GpuSubmit(e)
  <2>1. jobs' = jobs
    BY <1>3 DEF Next, ProducerStep, ExecutorStep, GpuStep, GpuComplete, RetirerStep, Open,
                MarkChecks, MarkClaims, MarkStamps, gpu, vars
  <2>2. ASSUME NEW f \in Executors, epc'[f] = "submit" PROVE ~Submitted(view'[f])
    <3>1. CASE \E i \in Slots : Open(f, i)
      <4>1. PICK i \in Slots : Open(f, i)
        BY <3>1
      <4> QED
        BY <1>1, <4>1 DEF Open, Disciplined
    <3>2. CASE ~\E i \in Slots : Open(f, i)
      <4>1. epc[f] = "submit" /\ view'[f] = view[f]
        BY <1>1, <1>3, <2>2, <3>2
        DEF Next, ProducerStep, ExecutorStep, GpuStep, RetirerStep, Open, MarkChecks, MarkClaims,
            MarkStamps, ExecutorIdle, executors, vars
      <4> QED
        BY <4>1 DEF JobsOnce
    <3> QED
      BY <3>1, <3>2
  <2> QED
    BY <2>1, <2>2 DEF JobsOnce, Submitted
<1> QED
  BY <1>2, <1>3

\* What a slot looks like from outside depends on these alone.
LEMMA HolderFrame ==
  ASSUME NEW i \in Slots, sequence'[i] = sequence[i], UNCHANGED gpu,
         (\E p \in Producers : Holds(p, i))' <=> (\E p \in Producers : Holds(p, i))
  PROVE  Holder(i)' = Holder(i) /\ Generation(sequence[i])' = Generation(sequence[i])
BY DEF Holder, HandleOf, gpu, IsFree

\* A step that changes one slot, seen from outside.
LEMMA OneSlotMoves ==
  ASSUME NEW i \in Slots, NEW from, NEW to, Holder(i) = from, Holder(i)' = to,
         \A j \in Slots \ {i} : Holder(j)' = Holder(j)
  PROVE  Ownership!Move(i, from, to)
<1> DEFINE H == [j \in Slots |-> Holder(j)]
<1>1. H[i] = from /\ H' = [H EXCEPT ![i] = to]
  OBVIOUS
<1> QED
  BY <1>1 DEF Ownership!Move

LEMMA GenerationsStay ==
  ASSUME \A j \in Slots : Generation(sequence[j])' = Generation(sequence[j])
  PROVE  UNCHANGED [j \in Slots |-> Generation(sequence[j])]
OBVIOUS

\* The slot's own generation, in an inductive state.
LEMMA PublishedHandle ==
  ASSUME TypeOK, NEW h \in Handles, IsPublished(h)
  PROVE  /\ h.slot \in Slots /\ h = HandleOf(h.slot) /\ ~IsFree(sequence[h.slot])
         /\ Generation(sequence[h.slot]) = h.generation
<1>1. h.slot \in Slots /\ h.generation \in Generations
  BY DEF Handles
<1>2. h = [slot |-> h.slot, generation |-> h.generation]
  BY DEF Handles
<1> QED
  BY <1>1, <1>2, SequenceArithmetic DEF IsPublished, HandleOf

LEMMA ProducersElsewhere ==
  ASSUME RingInvariant, NEW p \in Producers, ProducerStep(p),
         NEW j \in Slots, j # cpu[p].slot
  PROVE  Holder(j)' = Holder(j) /\ Generation(sequence[j])' = Generation(sequence[j])
<1>1. /\ UNCHANGED gpu /\ sequence \in [Slots -> Sequences]
      /\ ppc \in [Producers -> ProducerPcs] /\ cpu \in [Producers -> Handles]
  BY DEF ProducerStep, RingInvariant, TypeOK
<1>2. sequence'[j] = sequence[j]
  BY <1>1
  DEF ProducerStep, ProducerBusy, ring, StartScan, SkipPublished, LoadSequence, ClaimFails,
      Claim, Recheck, RecheckFails, Unclaim, RingFull, WritePayload, Abandon, FlushData,
      Seal, StoreSequence, FlushControl, FlushControlFails, DropClears, DropReleases
<1>3. \A q \in Producers \ {p} : ppc'[q] = ppc[q] /\ cpu'[q] = cpu[q]
  BY <1>1
  DEF ProducerStep, ProducerBusy, producers, Goto, NextProbe, StartScan, SkipPublished,
      LoadSequence, ClaimFails, Claim, Recheck, RecheckFails, Unclaim, RingFull,
      WritePayload, Abandon, FlushData, Seal, StoreSequence, FlushControl,
      FlushControlFails, DropClears, DropReleases
<1>4. ppc'[p] \in HoldPcs => cpu'[p] = cpu[p]
  BY <1>1
  DEF ProducerStep, ProducerBusy, producers, Goto, NextProbe, StartScan, SkipPublished,
      LoadSequence, ClaimFails, Claim, Recheck, RecheckFails, Unclaim, RingFull,
      WritePayload, Abandon, FlushData, Seal, StoreSequence, FlushControl,
      FlushControlFails, DropClears, DropReleases, HoldPcs
<1>5. \A q \in Producers : Holds(q, j)' <=> Holds(q, j)
  BY <1>3, <1>4 DEF Holds
<1> QED
  BY <1>1, <1>2, <1>5, HolderFrame

LEMMA ProducersRefine ==
  ASSUME RingInvariant, Disciplined, JobsBehind, NEW p \in Producers, ProducerStep(p),
         NEW i \in Slots, i = cpu[p].slot
  PROVE  [Ownership!Next]_(Ownership!vars)
<1> USE DEF RingInvariant
<1>1. /\ UNCHANGED gpu /\ sequence \in [Slots -> Sequences]
      /\ ppc \in [Producers -> ProducerPcs] /\ cpu \in [Producers -> Handles]
      /\ cpu[p] \in Handles /\ cpu[p].generation \in Generations
  BY DEF ProducerStep, TypeOK, Handles
<1>2. \A j \in Slots \ {i} :
        Holder(j)' = Holder(j) /\ Generation(sequence[j])' = Generation(sequence[j])
  BY ProducersElsewhere
<1>3. \A q \in Producers \ {p} : ppc'[q] = ppc[q] /\ cpu'[q] = cpu[q]
  BY <1>1
  DEF ProducerStep, ProducerBusy, producers, Goto, NextProbe, StartScan, SkipPublished,
      LoadSequence, ClaimFails, Claim, Recheck, RecheckFails, Unclaim, RingFull,
      WritePayload, Abandon, FlushData, Seal, StoreSequence, FlushControl,
      FlushControlFails, DropClears, DropReleases
<1>4. Guarding(p) => /\ IsFree(sequence[i])
                     /\ \A q \in Producers \ {p} : ~Holds(q, i)
                     /\ ppc[p] \in HoldPcs => sequence[i] = FreeSequence(cpu[p].generation)
  BY DEF GuardsHold, Guarding, Holds
<1>5. CASE Recheck(p)
  <2>1. /\ ppc[p] = "recheck" /\ ppc'[p] = "own" /\ cpu' = cpu /\ sequence' = sequence
    BY <1>1, <1>5 DEF Recheck, Goto, ring
  <2>2. Holder(i) = "free" /\ Holder(i)' = "cpu"
    <3>1. IsFree(sequence[i]) /\ \A q \in Producers : ~Holds(q, i)
      BY <1>4, <2>1 DEF Holds, Guarding, HoldPcs
    <3>2. ppc'[p] \in HoldPcs /\ cpu'[p].slot = i
      BY <2>1 DEF HoldPcs
    <3> QED
      BY <2>1, <3>1, <3>2 DEF Holder, Holds, IsFree
  <2>3. Ownership!Take(i)
    <3>1. Generation(sequence[i])' = Generation(sequence[i])
      BY <2>1
    <3>2. UNCHANGED [j \in Slots |-> Generation(sequence[j])]
      BY <1>2, <3>1, GenerationsStay
    <3>3. Ownership!Move(i, "free", "cpu")
      BY <1>1, <1>2, <2>2, OneSlotMoves
    <3> QED
      BY <3>2, <3>3 DEF Ownership!Take
  <2> QED
    BY <1>1, <2>3 DEF Ownership!Next
<1>6. CASE DropReleases(p)
  <2>1. /\ ppc[p] = "release" /\ ppc'[p] = "idle" /\ sequence' = sequence
    BY <1>1, <1>6 DEF DropReleases, Goto
  <2>2. /\ IsFree(sequence[i]) /\ Holds(p, i)
        /\ \A q \in Producers : ~(ppc'[q] \in HoldPcs /\ cpu'[q].slot = i)
    BY <1>3, <1>4, <2>1 DEF Holds, Guarding, HoldPcs
  <2>3. Holder(i) = "cpu" /\ Holder(i)' = "free"
    BY <2>1, <2>2 DEF Holder, Holds, IsFree
  <2>4. Ownership!GiveBack(i)
    <3>1. Generation(sequence[i])' = Generation(sequence[i])
      BY <2>1
    <3>2. UNCHANGED [j \in Slots |-> Generation(sequence[j])]
      BY <1>2, <3>1, GenerationsStay
    <3>3. Ownership!Move(i, "cpu", "free")
      BY <1>1, <1>2, <2>3, OneSlotMoves
    <3> QED
      BY <3>2, <3>3 DEF Ownership!GiveBack
  <2> QED
    BY <1>1, <2>4 DEF Ownership!Next
<1>7. CASE StoreSequence(p)
  <2>1. /\ ppc[p] = "store" /\ sequence[i] = FreeSequence(cpu[p].generation)
        /\ sequence'[i] = PublishedSequence(cpu[p].generation)
    BY <1>1, <1>4, <1>7 DEF StoreSequence, Guarding, HoldPcs
  <2>2. /\ ~IsFree(sequence'[i]) /\ IsFree(sequence[i]) /\ HandleOf(i)' = cpu[p]
        /\ Generation(sequence[i])' = Generation(sequence[i])
    BY <1>1, <2>1, SequenceArithmetic DEF HandleOf, Handles
  <2>3. ASSUME NEW t \in 1 .. Len(jobs) PROVE jobs[t] # cpu[p]
    <3>1. jobs[t] = cpu[p] => PublishedSequence(cpu[p].generation) <= sequence[i]
      BY DEF JobsBehind
    <3>2. cpu[p].generation \in Nat
      BY <1>1, RingAssumption DEF Generations, RingAssumption
    <3> QED
      BY <2>1, <3>1, <3>2 DEF PublishedSequence, FreeSequence
  <2>4. Holder(i) = "cpu"
    BY <2>1, <2>2 DEF Holder, Holds, HoldPcs
  <2>5. Holder(i)' = "published"
    BY <1>1, <2>2, <2>3 DEF Holder, gpu, IsFree
  <2>6. Ownership!HandOver(i)
    <3>1. UNCHANGED [j \in Slots |-> Generation(sequence[j])]
      BY <1>2, <2>2, GenerationsStay
    <3>2. Ownership!Move(i, "cpu", "published")
      BY <1>1, <1>2, <2>4, <2>5, OneSlotMoves
    <3> QED
      BY <3>1, <3>2 DEF Ownership!HandOver
  <2> QED
    BY <1>1, <2>6 DEF Ownership!Next
<1>8. CASE ~(Recheck(p) \/ DropReleases(p) \/ StoreSequence(p))
  <2>1. sequence' = sequence /\ (Holds(p, i)' <=> Holds(p, i))
    BY <1>1, <1>8
    DEF ProducerStep, ProducerBusy, producers, ring, Goto, NextProbe, StartScan, SkipPublished,
        LoadSequence, ClaimFails, Claim, RecheckFails, Unclaim, RingFull,
        WritePayload, Abandon, FlushData, Seal, FlushControl, FlushControlFails, DropClears,
        Holds, HoldPcs, Disciplined
  <2>2. \A q \in Producers : Holds(q, i)' <=> Holds(q, i)
    BY <1>3, <2>1 DEF Holds
  <2>3. Holder(i)' = Holder(i) /\ Generation(sequence[i])' = Generation(sequence[i])
    BY <1>1, <2>1, <2>2, HolderFrame
  <2> QED
    BY <1>2, <2>3 DEF Ownership!vars
<1> QED
  BY <1>5, <1>6, <1>7, <1>8

LEMMA ExecutorsRefine ==
  ASSUME RingInvariant, JobsOnce, NEW e \in Executors, ExecutorStep(e)
  PROVE  [Ownership!Next]_(Ownership!vars)
<1> USE DEF RingInvariant
<1>1. /\ UNCHANGED producers /\ sequence' = sequence /\ completed' = completed
      /\ jobs \in Seq(Handles) /\ Len(jobs) \in Nat /\ completed \in 0 .. Len(jobs)
  <2>1. UNCHANGED producers /\ sequence' = sequence /\ completed' = completed
    BY DEF ExecutorStep, Open, GpuSubmit, MarkChecks, MarkClaims, MarkStamps, ring, gpu
  <2> QED
    BY <2>1 DEF TypeOK
<1>2. \A i \in Slots : Generation(sequence[i])' = Generation(sequence[i])
  BY <1>1
<1>3. \A i \in Slots, q \in Producers : Holds(q, i)' <=> Holds(q, i)
  BY <1>1 DEF Holds, producers
<1>4. CASE GpuSubmit(e)
  <2>1. /\ view[e] \in Handles /\ IsPublished(view[e])
        /\ jobs' = Append(jobs, view[e]) /\ ~Submitted(view[e])
    BY <1>4 DEF GpuSubmit, HandlesHold, TypeOK, JobsOnce
  <2>2. PICK i \in Slots : i = view[e].slot /\ HandleOf(i) = view[e] /\ ~IsFree(sequence[i])
    BY <2>1, PublishedHandle
  <2>3. /\ Len(jobs') = Len(jobs) + 1 /\ jobs'[Len(jobs) + 1] = view[e]
        /\ \A t \in 1 .. Len(jobs) : jobs'[t] = jobs[t]
    BY <1>1, <2>1
  <2>4. Holder(i) = "published"
    BY <2>1, <2>2 DEF Holder, Submitted
  <2>5. Holder(i)' = "running"
    <3>1. HandleOf(i)' = view[e] /\ ~IsFree(sequence'[i])
      BY <1>1, <2>2 DEF HandleOf
    <3>2. /\ Len(jobs) + 1 \in {t \in 1 .. Len(jobs') : jobs'[t] = view[e]}
          /\ Len(jobs) + 1 > completed'
      BY <1>1, <2>3
    <3> QED
      BY <3>1, <3>2 DEF Holder, IsFree
  <2>6. ASSUME NEW j \in Slots \ {i} PROVE Holder(j)' = Holder(j)
    <3>1. HandleOf(j)' = HandleOf(j) /\ HandleOf(j) # view[e]
      BY <1>1, <2>2 DEF HandleOf
    <3>2. {t \in 1 .. Len(jobs') : jobs'[t] = HandleOf(j)}
            = {t \in 1 .. Len(jobs) : jobs[t] = HandleOf(j)}
      BY <1>1, <2>3, <3>1
    <3> QED
      BY <1>1, <1>3, <3>1, <3>2 DEF Holder, IsFree
  <2>7. Ownership!Start(i)
    <3>1. UNCHANGED [j \in Slots |-> Generation(sequence[j])]
      BY <1>2, GenerationsStay
    <3>2. Ownership!Move(i, "published", "running")
      BY <2>4, <2>5, <2>6, OneSlotMoves
    <3> QED
      BY <3>1, <3>2 DEF Ownership!Start
  <2> QED
    BY <2>7 DEF Ownership!Next
<1>5. CASE ~GpuSubmit(e)
  <2>1. UNCHANGED gpu
    BY <1>5 DEF ExecutorStep, Open, MarkChecks, MarkClaims, MarkStamps, gpu
  <2>2. \A i \in Slots : Holder(i)' = Holder(i)
    BY <1>1, <1>3, <2>1, HolderFrame
  <2> QED
    BY <1>2, <2>2 DEF Ownership!vars
<1> QED
  BY <1>4, <1>5

LEMMA GpuRefines ==
  ASSUME RingInvariant, JobsOnce, GpuStep
  PROVE  [Ownership!Next]_(Ownership!vars)
<1> USE DEF RingInvariant
<1>1. /\ UNCHANGED producers /\ sequence' = sequence /\ jobs' = jobs
      /\ completed' = completed + 1 /\ completed \in Nat /\ completed < Len(jobs)
      /\ Len(jobs) \in Nat
  BY DEF GpuStep, GpuComplete, ring, TypeOK
<1>2. \A i \in Slots : /\ Generation(sequence[i])' = Generation(sequence[i])
                       /\ HandleOf(i)' = HandleOf(i)
  BY <1>1 DEF HandleOf
<1>3. \A i \in Slots, q \in Producers : Holds(q, i)' <=> Holds(q, i)
  BY <1>1 DEF Holds, producers
<1> DEFINE now == completed + 1
<1>4. now \in 1 .. Len(jobs) /\ jobs[now] \in Handles /\ IsPublished(jobs[now])
  <2>1. now \in completed + 1 .. Len(jobs)
    BY <1>1
  <2> QED
    BY <1>1, <2>1, JobsTyped, InvariantImpliesSafety DEF GpuOwnsRunningSlots
<1>5. PICK i \in Slots : i = jobs[now].slot /\ HandleOf(i) = jobs[now] /\ ~IsFree(sequence[i])
  BY <1>4, PublishedHandle
<1>6. \A t \in 1 .. Len(jobs) : jobs[t] = HandleOf(i) => t = now
  BY <1>4, <1>5 DEF JobsOnce
<1>7. Holder(i) = "running" /\ Holder(i)' = "done"
  <2>1. {t \in 1 .. Len(jobs) : jobs[t] = HandleOf(i)} = {now}
    BY <1>4, <1>5, <1>6
  <2>2. now > completed /\ ~(now > completed')
    BY <1>1
  <2> HIDE DEF now
  <2>3. Holder(i) = "running"
    BY <1>5, <2>1, <2>2 DEF Holder
  <2>4. Holder(i)' = "done"
    BY <1>1, <1>2, <1>5, <2>1, <2>2 DEF Holder, IsFree
  <2> QED
    BY <2>3, <2>4
<1>8. ASSUME NEW j \in Slots \ {i} PROVE Holder(j)' = Holder(j)
  <2>1. \A t \in 1 .. Len(jobs) : jobs[t] = HandleOf(j) => t # now
    BY <1>5 DEF HandleOf
  <2>2. \A t \in 1 .. Len(jobs) : jobs[t] = HandleOf(j) => (t > completed' <=> t > completed)
    BY <1>1, <2>1
  <2> QED
    BY <1>1, <1>2, <1>3, <2>2 DEF Holder, IsFree
<1>9. Ownership!Finish(i)
  <2>1. UNCHANGED [j \in Slots |-> Generation(sequence[j])]
    BY <1>2, GenerationsStay
  <2>2. Ownership!Move(i, "running", "done")
    BY <1>7, <1>8, OneSlotMoves
  <2> QED
    BY <2>1, <2>2 DEF Ownership!Finish
<1> QED
  BY <1>9 DEF Ownership!Next

LEMMA RetirersRefine ==
  ASSUME RingInvariant, Disciplined, NEW r \in Retirers, RetirerStep(r)
  PROVE  [Ownership!Next]_(Ownership!vars)
<1> USE DEF RingInvariant
<1>1. /\ UNCHANGED producers /\ UNCHANGED gpu /\ sequence \in [Slots -> Sequences]
      /\ Len(jobs) \in Nat /\ completed \in Nat
  BY DEF RetirerStep, TypeOK
<1>2. \A i \in Slots, q \in Producers : Holds(q, i)' <=> Holds(q, i)
  BY <1>1 DEF Holds, producers
<1>3. CASE RetireStores(r)
  <2>1. /\ target[r] \in Handles /\ IsPublished(target[r])
        /\ debug_state[target[r].slot] = "GpuComplete"
        /\ NextSequence(target[r].generation) <= MaxU64
        /\ sequence' = [sequence EXCEPT ![target[r].slot] = NextSequence(target[r].generation)]
    BY <1>3 DEF RetireStores, TargetsHold, TypeOK
  <2>2. PICK i \in Slots : /\ i = target[r].slot /\ HandleOf(i) = target[r]
                           /\ ~IsFree(sequence[i])
                           /\ Generation(sequence[i]) = target[r].generation
    BY <2>1, PublishedHandle
  <2>3. target[r].generation \in Generations /\ target[r].generation + 1 \in Generations
    BY <2>1, SequenceArithmetic DEF Handles
  <2>4. /\ sequence'[i] = FreeSequence(target[r].generation + 1)
        /\ IsFree(sequence'[i]) /\ Generation(sequence'[i]) = Generation(sequence[i]) + 1
    <3>1. sequence'[i] = FreeSequence(target[r].generation + 1)
      BY <1>1, <2>1, <2>2 DEF NextSequence
    <3> QED
      BY <2>2, <2>3, <3>1, SequenceArithmetic
  <2>5. Holder(i) = "done"
    <3>1. Submitted(HandleOf(i))
      BY <2>1, <2>2 DEF PublishedStates
    <3>2. ASSUME NEW t \in 1 .. Len(jobs), jobs[t] = HandleOf(i), t > completed PROVE FALSE
      <4>1. t \in completed + 1 .. Len(jobs) /\ t # 0
        BY <1>1, <3>2
      <4>2. gpu_timeline[i] # t
        BY <2>1, <2>2, <4>1 DEF TimelinesHold
      <4>3. PICK e \in Executors : epc[e] \in {"check", "cas", "stamp"} /\ ticket[e] = t
        BY <2>2, <3>2, <4>1, <4>2 DEF WorkHolds
      <4>4. view[e] = HandleOf(i) /\ debug_state[view[e].slot] \in {"GpuInFlight", "CpuSealed"}
        BY <3>2, <4>3 DEF HandlesHold
      <4> QED
        BY <2>1, <2>2, <4>4
    <3> QED
      BY <2>2, <3>1, <3>2 DEF Holder, Submitted
  <2>6. Holder(i)' = "free"
    <3>1. \A q \in Producers : ~Holds(q, i)
      BY <2>2 DEF GuardsHold, Guarding, Holds
    <3>2. \A q \in Producers : ~Holds(q, i)'
      BY <1>2, <3>1
    <3> QED
      BY <2>4, <3>2 DEF Holder, IsFree
  <2>7. ASSUME NEW j \in Slots \ {i}
        PROVE  Holder(j)' = Holder(j) /\ Generation(sequence[j])' = Generation(sequence[j])
    <3>1. sequence'[j] = sequence[j]
      BY <1>1, <2>1, <2>2
    <3> QED
      BY <1>1, <1>2, <3>1, HolderFrame
  <2>8. Ownership!Reclaim(i)
    <3> DEFINE G == [j \in Slots |-> Generation(sequence[j])]
    <3>1. G' = [G EXCEPT ![i] = G[i] + 1]
      BY <2>4, <2>7
    <3>2. Ownership!Move(i, "done", "free")
      BY <2>5, <2>6, <2>7, OneSlotMoves
    <3> QED
      BY <3>1, <3>2 DEF Ownership!Reclaim
  <2> QED
    BY <2>8 DEF Ownership!Next
<1>4. CASE ~RetireStores(r)
  <2>1. sequence' = sequence
    BY <1>4
    DEF RetirerStep, RetirerBusy, ring, RetireChecks, RetireRefused, RetireAccepted,
        RetireClears, RetireOverflows, RetireFrees
  <2>2. \A i \in Slots :
          Holder(i)' = Holder(i) /\ Generation(sequence[i])' = Generation(sequence[i])
    BY <1>1, <1>2, <2>1, HolderFrame
  <2> QED
    BY <2>2 DEF Ownership!vars
<1> QED
  BY <1>3, <1>4

\* The ring is a set of slots that CPU and GPU pass back and forth: the rechecked
\* claim takes a slot, the store of the odd sequence hands it over, the submission
\* starts it, the GPU's completion finishes it, the store of the even sequence in
\* retire reclaims it; no other step of any thread shows.
THEOREM RingRefines == Disciplined => (Spec => RefinesOwnership)
<1> SUFFICES ASSUME Disciplined PROVE Spec => RefinesOwnership
  OBVIOUS
<1>1. Init => Ownership!Init /\ JobsBehind /\ JobsOnce
  <2> SUFFICES ASSUME Init PROVE Ownership!Init /\ JobsBehind /\ JobsOnce
    OBVIOUS
  <2>1. JobsBehind /\ JobsOnce
    BY DEF Init, JobsBehind, JobsOnce
  <2>2. \A i \in Slots : Holder(i) = "free" /\ Generation(sequence[i]) = 0
    BY DEF Init, Holder, Holds, HoldPcs, IsFree, Generation
  <2> QED
    BY <2>1, <2>2 DEF Ownership!Init
<1>2. RingInvariant /\ JobsBehind /\ JobsOnce /\ [Next]_vars =>
        JobsBehind' /\ JobsOnce' /\ [Ownership!Next]_(Ownership!vars)
  <2> SUFFICES ASSUME RingInvariant, JobsBehind, JobsOnce, [Next]_vars
               PROVE  JobsBehind' /\ JobsOnce' /\ [Ownership!Next]_(Ownership!vars)
    OBVIOUS
  <2>1. CASE \E p \in Producers : ProducerStep(p)
    <3>1. PICK p \in Producers : ProducerStep(p)
      BY <2>1
    <3>2. cpu[p].slot \in Slots
      BY DEF RingInvariant, TypeOK, Handles
    <3>3. [Ownership!Next]_(Ownership!vars)
      BY <3>1, <3>2, ProducersRefine
    <3> QED
      BY <3>3, JobsStayBehind, JobsStayDistinct
  <2>2. CASE \E e \in Executors : ExecutorStep(e)
    BY <2>2, ExecutorsRefine, JobsStayBehind, JobsStayDistinct
  <2>3. CASE GpuStep
    BY <2>3, GpuRefines, JobsStayBehind, JobsStayDistinct
  <2>4. CASE \E r \in Retirers : RetirerStep(r)
    BY <2>4, RetirersRefine, JobsStayBehind, JobsStayDistinct
  <2>5. CASE UNCHANGED vars
    <3>1. \A i \in Slots :
            Holder(i)' = Holder(i) /\ Generation(sequence[i])' = Generation(sequence[i])
      BY <2>5 DEF vars, ring, producers, gpu, Holder, HandleOf, Holds
    <3>2. UNCHANGED Ownership!vars
      BY <3>1 DEF Ownership!vars
    <3> QED
      BY <3>2, JobsStayBehind, JobsStayDistinct
  <2> QED
    BY <2>1, <2>2, <2>3, <2>4, <2>5 DEF Next
<1>3. Spec => []RingInvariant
  BY RingIsInductive
<1> QED
  BY <1>1, <1>2, <1>3, PTL DEF Spec, RefinesOwnership, Ownership!Spec

(* --- full only when full ----------------------------------------------- *)

LEMMA MultiplesAreApart ==
  ASSUME NEW m \in Nat, NEW a \in Nat, NEW b \in Nat, a < b
  PROVE  m * a \in Nat /\ m * b \in Nat /\ m * b >= m * a + m
<1> DEFINE k == b - a
<1>1. k \in Nat /\ k >= 1 /\ m * b = m * a + m * k
  OBVIOUS
<1>2. m * a \in Nat /\ m * b \in Nat
  OBVIOUS
<1> HIDE DEF k
<1>3. m * k \in Nat /\ m * k >= m
  BY <1>1
<1> QED
  BY <1>1, <1>2, <1>3

\* The remainder is the one number below m that leaves a multiple of m.
LEMMA RemainderIsUnique ==
  ASSUME NEW m \in Nat \ {0}, NEW q \in Nat, NEW r \in 0 .. m - 1
  PROVE  (m * q + r) % m = r
<1> DEFINE x == m * q + r
           d == x \div m
           e == x % m
<1>1. m * q \in Nat /\ x \in Nat
  OBVIOUS
<1>2. d \in Nat /\ e \in 0 .. m - 1 /\ x = m * d + e
  BY <1>1
<1> HIDE DEF d, e
<1>3. CASE d < q
  <2>1. m * d \in Nat /\ m * q >= m * d + m
    BY <1>2, <1>3, MultiplesAreApart
  <2> QED
    BY <1>1, <1>2, <2>1
<1>4. CASE q < d
  <2>1. m * d \in Nat /\ m * d >= m * q + m
    BY <1>2, <1>4, MultiplesAreApart
  <2> QED
    BY <1>1, <1>2, <2>1
<1>5. CASE d = q
  BY <1>1, <1>2, <1>5
<1> QED
  BY <1>2, <1>3, <1>4, <1>5 DEF e

\* A scan that starts anywhere meets every slot.
LEMMA EverySlotIsMet ==
  ASSUME HintWrapsEvenly, NEW first \in 0 .. HintRange - 1, NEW i \in Slots
  PROVE  \E n \in 0 .. SlotCount - 1 : i = Probed(first, n)
<1> DEFINE a == first % SlotCount
           d == first \div SlotCount
           k == HintRange \div SlotCount
           n == IF i >= a THEN i - a ELSE i - a + SlotCount
           e == IF i >= a THEN d ELSE d + 1
<1>0. SlotCount \in Nat \ {0} /\ HintRange \in Nat \ {0}
      /\ HintRange % SlotCount = 0 /\ i \in 0 .. SlotCount - 1
  BY RingAssumption DEF RingAssumption, HintWrapsEvenly, Slots
<1> USE <1>0
<1>1. /\ a \in 0 .. SlotCount - 1 /\ d \in Nat /\ first = SlotCount * d + a
      /\ k \in Nat /\ HintRange = SlotCount * k
  OBVIOUS
<1> HIDE DEF a, d, k
<1>2. n \in 0 .. SlotCount - 1 /\ e \in Nat
  BY <1>1
<1>3. /\ SlotCount * (d + 1) = SlotCount * d + SlotCount
      /\ SlotCount * d \in Nat /\ SlotCount * k \in Nat
  BY <1>1
<1>4. first + n = SlotCount * e + i /\ first + n \in Nat /\ SlotCount * e \in Nat
  BY <1>1, <1>3
<1>5. e <= k
  <2>1. ASSUME d >= k PROVE FALSE
    <3>1. SlotCount * d >= SlotCount * k
      BY <1>1, <2>1
    <3> QED
      BY <1>1, <1>3, <3>1
  <2> QED
    BY <1>1, <2>1
<1> HIDE DEF n, e
<1>6. CASE e < k
  <2>1. SlotCount * (e + 1) <= SlotCount * k /\ SlotCount * (e + 1) = SlotCount * e + SlotCount
    BY <1>1, <1>2, <1>6
  <2>2. first + n < HintRange
    BY <1>1, <1>3, <1>4, <2>1
  <2>3. (first + n) % HintRange = first + n
    <3> DEFINE x == first + n
    <3>1. x \in Nat /\ x < HintRange
      BY <1>4, <2>2
    <3> HIDE DEF x
    <3>2. x % HintRange = x
      BY <3>1
    <3> QED
      BY <3>2 DEF x
  <2>4. (SlotCount * e + i) % SlotCount = i
    BY <1>2, RemainderIsUnique
  <2> QED
    BY <1>2, <1>4, <2>3, <2>4 DEF Probed
<1>7. CASE e = k
  <2>1. first + n = HintRange * 1 + i /\ i \in 0 .. HintRange - 1
    <3>1. first + n = HintRange + i
      BY <1>1, <1>4, <1>7
    <3>2. SlotCount <= HintRange
      <4>1. k >= 1
        BY <1>1
      <4>2. SlotCount * k >= SlotCount
        BY <1>1, <4>1
      <4> QED
        BY <1>1, <4>2
    <3> QED
      BY <3>1, <3>2
  <2>2. (first + n) % HintRange = i
    BY <2>1, RemainderIsUnique
  <2>3. (SlotCount * 0 + i) % SlotCount = i
    BY RemainderIsUnique
  <2>4. i % SlotCount = i
    BY <2>3
  <2> QED
    BY <1>2, <2>2, <2>4 DEF Probed
<1> QED
  BY <1>1, <1>2, <1>5, <1>6, <1>7

\* Where the hint wraps around off a multiple of the slots, the scan that begins just
\* before the wrap probes one slot twice and misses the last one.
LEMMA LastSlotIsMissed ==
  ASSUME ~HintWrapsEvenly, NEW n \in 0 .. SlotCount - 1
  PROVE  Probed(HintRange - 1, n) # SlotCount - 1
<1> USE RingAssumption DEF RingAssumption
<1>1. CASE n = 0
  <2> DEFINE x == HintRange - 1
             d == x \div SlotCount
  <2>1. x \in Nat /\ x < HintRange
    OBVIOUS
  <2>2. x % HintRange = x
    <3> HIDE DEF x
    <3> QED
      BY <2>1
  <2>3. ASSUME x % SlotCount = SlotCount - 1
        PROVE  FALSE
    <3>1. d \in Nat /\ x = SlotCount * d + (SlotCount - 1)
      BY <2>1, <2>3
    <3> HIDE DEF d
    <3>2. HintRange = SlotCount * d + SlotCount /\ SlotCount * d \in Nat
      BY <3>1
    <3>3. SlotCount * (d + 1) = SlotCount * d + SlotCount
      BY <3>1
    <3>4. (SlotCount * (d + 1) + 0) % SlotCount = 0
      BY <3>1, RemainderIsUnique
    <3> QED
      BY <3>2, <3>3, <3>4 DEF HintWrapsEvenly
  <2>4. HintRange - 1 + n = x
    BY <1>1
  <2> QED
    BY <2>2, <2>3, <2>4 DEF Probed
<1>2. CASE n > 0
  <2> DEFINE m == n - 1
             d == m \div HintRange
             c == m % HintRange
  <2>1. m \in Nat /\ m <= SlotCount - 2 /\ HintRange - 1 + n = HintRange + m
    BY <1>2
  <2>2. d \in Nat /\ c \in 0 .. HintRange - 1 /\ m = HintRange * d + c /\ HintRange * d \in Nat
    BY <2>1
  <2> HIDE DEF m, d, c
  <2>3. c \in Nat /\ c <= SlotCount - 2
    BY <2>1, <2>2
  <2>4. HintRange * (d + 1) = HintRange * d + HintRange
    BY <2>2
  <2>5. (HintRange * (d + 1) + c) % HintRange = c
    BY <2>2, RemainderIsUnique
  <2>6. (HintRange - 1 + n) % HintRange = c
    <3>1. HintRange - 1 + n = HintRange * (d + 1) + c
      BY <2>1, <2>2, <2>4
    <3> QED
      BY <2>5, <3>1
  <2>7. c % SlotCount = c
    BY <2>3
  <2> QED
    BY <2>3, <2>6, <2>7 DEF Probed
<1> QED
  BY <1>1, <1>2

\* The scan of try_acquire meets every slot, whatever hint it starts from, just when the
\* hint wraps around at a multiple of the slots: for a u64 hint, when their number is a
\* power of two.
THEOREM ScansMeetEverySlot ==
  HintWrapsEvenly
    <=> \A first \in 0 .. HintRange - 1, i \in Slots :
          \E n \in 0 .. SlotCount - 1 : i = Probed(first, n)
<1>1. ASSUME ~HintWrapsEvenly
      PROVE  \E first \in 0 .. HintRange - 1, i \in Slots :
               \A n \in 0 .. SlotCount - 1 : i # Probed(first, n)
  <2>1. HintRange - 1 \in 0 .. HintRange - 1 /\ SlotCount - 1 \in Slots
    BY RingAssumption DEF RingAssumption, Slots
  <2>2. \A n \in 0 .. SlotCount - 1 : SlotCount - 1 # Probed(HintRange - 1, n)
    BY <1>1, LastSlotIsMissed
  <2> QED
    BY <2>1, <2>2
<1> QED
  BY <1>1, EverySlotIsMet

\* A probe that is over leaves the slots of the later ones.
LEMMA ProbeMovesOn ==
  ASSUME TypeOK, NEW p \in Producers, probe[p] < SlotCount, NEW rest,
         \A i \in rest : /\ i # Index(p)
                         /\ \E n \in probe[p] .. SlotCount - 1 : i = Probed(start[p], n)
  PROVE  \A i \in rest : \E n \in probe[p] + 1 .. SlotCount - 1 : i = Probed(start[p], n)
<1>1. probe[p] \in Nat /\ SlotCount \in Nat
  BY RingAssumption DEF TypeOK, RingAssumption
<1> SUFFICES ASSUME NEW i \in rest
             PROVE  \E n \in probe[p] + 1 .. SlotCount - 1 : i = Probed(start[p], n)
  OBVIOUS
<1>2. PICK n \in probe[p] .. SlotCount - 1 : i = Probed(start[p], n)
  OBVIOUS
<1>3. n # probe[p]
  BY <1>2 DEF Index
<1>4. n \in probe[p] + 1 .. SlotCount - 1
  BY <1>1, <1>3
<1> QED
  BY <1>2, <1>4

LEMMA ScanKept ==
  ASSUME TypeOK, HintWrapsEvenly, ScanHolds, [Next]_vars, NEW p \in Producers
  PROVE  /\ ppc'[p] \notin ScanPcs => probe'[p] = 0
         /\ ppc'[p] \in {"claim", "recheck", "unclaim"} =>
              cpu'[p].slot = Probed(start'[p], probe'[p])
         /\ ppc'[p] \in {"recheck", "unclaim"} =>
              Probed(start'[p], probe'[p]) \notin free_since'[p]
         /\ ppc'[p] \in ScanPcs =>
              \A i \in free_since'[p] :
                \E n \in probe'[p] .. SlotCount - 1 : i = Probed(start'[p], n)
<1>1. /\ ppc \in [Producers -> ProducerPcs] /\ cpu \in [Producers -> Handles]
      /\ probe \in [Producers -> 0 .. SlotCount] /\ start \in [Producers -> 0 .. HintRange - 1]
      /\ debug_state \in [Slots -> DebugStates] /\ producer_hint \in 0 .. HintRange - 1
      /\ ppc[p] \in {"claim", "recheck", "unclaim"} => probe[p] < SlotCount
  BY DEF TypeOK
<1>2. /\ ppc[p] \notin ScanPcs => probe[p] = 0
      /\ ppc[p] \in {"claim", "recheck", "unclaim"} => cpu[p].slot = Index(p)
      /\ ppc[p] \in {"recheck", "unclaim"} => Index(p) \notin free_since[p]
      /\ ppc[p] \in ScanPcs =>
           \A i \in free_since[p] :
             \E n \in probe[p] .. SlotCount - 1 : i = Probed(start[p], n)
  BY DEF ScanHolds
<1>3. CASE UNCHANGED vars
  BY <1>2, <1>3 DEF vars, producers, Index
<1>4. ASSUME ObserveFree, ppc'[p] \in ScanPcs
      PROVE  /\ ppc[p] = "idle" => free_since'[p] = FreeSlots'
             /\ ppc[p] # "idle" => /\ free_since'[p] \subseteq free_since[p]
                                   /\ free_since'[p] \subseteq FreeSlots'
  BY <1>4 DEF ObserveFree
<1>5. ASSUME ObserveFree, ppc'[p] = ppc[p], cpu'[p] = cpu[p], probe'[p] = probe[p],
             start'[p] = start[p]
      PROVE  /\ ppc'[p] \notin ScanPcs => probe'[p] = 0
             /\ ppc'[p] \in {"claim", "recheck", "unclaim"} =>
                  cpu'[p].slot = Probed(start'[p], probe'[p])
             /\ ppc'[p] \in {"recheck", "unclaim"} =>
                  Probed(start'[p], probe'[p]) \notin free_since'[p]
             /\ ppc'[p] \in ScanPcs =>
                  \A i \in free_since'[p] :
                    \E n \in probe'[p] .. SlotCount - 1 : i = Probed(start'[p], n)
  BY <1>2, <1>4, <1>5 DEF Index, ScanPcs
<1>6. CASE ProducerStep(p) /\ ObserveFree
  <2>1. CASE StartScan(p)
    <3>1. /\ ppc[p] = "idle" /\ ppc'[p] = "scan" /\ start'[p] = producer_hint
          /\ probe'[p] = 0
      BY <1>1, <1>2, <2>1 DEF StartScan, Goto, ScanPcs
    <3>2. free_since'[p] \subseteq Slots
      BY <1>4, <1>6, <3>1 DEF ScanPcs, FreeSlots
    <3>3. \A i \in free_since'[p] : \E n \in 0 .. SlotCount - 1 : i = Probed(producer_hint, n)
      BY <1>1, <3>2, EverySlotIsMet
    <3> QED
      BY <3>1, <3>3 DEF ScanPcs
  <2>2. CASE SkipPublished(p) \/ ClaimFails(p) \/ Unclaim(p)
    <3>1. /\ ppc[p] \in ScanPcs /\ ppc[p] # "idle" /\ ppc'[p] = "scan" /\ probe[p] < SlotCount
          /\ probe'[p] = probe[p] + 1 /\ start'[p] = start[p]
      BY <1>1, <2>2 DEF SkipPublished, ClaimFails, Unclaim, NextProbe, Goto, ScanPcs
    <3>2. Index(p) \notin free_since'[p]
      <4>1. CASE SkipPublished(p)
        <5>1. Index(p) \notin FreeSlots'
          BY <4>1 DEF SkipPublished, FreeSlots, ring, IsFree
        <5> QED
          BY <1>4, <1>6, <3>1, <5>1 DEF ScanPcs
      <4>2. CASE ClaimFails(p)
        <5>1. Index(p) \notin FreeSlots'
          BY <1>2, <4>2 DEF ClaimFails, FreeSlots, ring
        <5> QED
          BY <1>4, <1>6, <3>1, <5>1 DEF ScanPcs
      <4>3. CASE Unclaim(p)
        BY <1>2, <1>4, <1>6, <3>1, <4>3 DEF Unclaim, ScanPcs
      <4> QED
        BY <2>2, <4>1, <4>2, <4>3
    <3>3. \A i \in free_since'[p] :
            /\ i # Index(p)
            /\ \E n \in probe[p] .. SlotCount - 1 : i = Probed(start[p], n)
      BY <1>2, <1>4, <1>6, <3>1, <3>2 DEF ScanPcs
    <3>4. \A i \in free_since'[p] :
            \E n \in probe[p] + 1 .. SlotCount - 1 : i = Probed(start[p], n)
      BY <3>1, <3>3, ProbeMovesOn
    <3> QED
      BY <3>1, <3>4 DEF ScanPcs
  <2>3. CASE LoadSequence(p)
    <3>1. /\ ppc[p] = "scan" /\ ppc'[p] = "claim" /\ probe'[p] = probe[p] /\ start'[p] = start[p]
          /\ cpu'[p].slot = Index(p)
      BY <1>1, <2>3 DEF LoadSequence, Goto, HandleOf
    <3> QED
      BY <1>2, <1>4, <1>6, <3>1 DEF ScanPcs, Index
  <2>4. CASE Claim(p)
    <3>1. /\ ppc[p] = "claim" /\ ppc'[p] = "recheck" /\ probe'[p] = probe[p]
          /\ start'[p] = start[p] /\ cpu'[p] = cpu[p] /\ cpu[p].slot = Index(p)
      BY <1>1, <1>2, <2>4 DEF Claim, Goto
    <3>2. Index(p) \notin FreeSlots'
      BY <1>1, <2>4, <3>1 DEF Claim, FreeSlots
    <3> QED
      BY <1>2, <1>4, <1>6, <3>1, <3>2 DEF ScanPcs, Index
  <2>5. CASE RecheckFails(p)
    <3>1. /\ ppc[p] = "recheck" /\ ppc'[p] = "unclaim" /\ probe'[p] = probe[p]
          /\ start'[p] = start[p] /\ cpu'[p] = cpu[p]
      BY <1>1, <2>5 DEF RecheckFails, Goto
    <3> QED
      BY <1>2, <1>4, <1>6, <3>1 DEF ScanPcs, Index
  <2>6. CASE Recheck(p) \/ RingFull(p)
    <3>1. ppc'[p] \in {"own", "idle"} /\ probe'[p] = 0
      BY <1>1, <2>6 DEF Recheck, RingFull, Goto, Scanned
    <3> QED
      BY <3>1 DEF ScanPcs
  <2>7. CASE WritePayload(p) \/ Abandon(p) \/ FlushData(p) \/ Seal(p) \/ StoreSequence(p)
             \/ FlushControl(p) \/ FlushControlFails(p) \/ DropClears(p) \/ DropReleases(p)
    <3>1. ppc[p] \notin ScanPcs /\ ppc'[p] \notin ScanPcs /\ probe'[p] = probe[p]
      BY <1>1, <2>7
      DEF WritePayload, Abandon, FlushData, Seal, StoreSequence, FlushControl,
          FlushControlFails, DropClears, DropReleases, Goto, producers, ScanPcs
    <3> QED
      BY <1>2, <3>1 DEF ScanPcs
  <2> QED
    BY <1>6, <2>1, <2>2, <2>3, <2>4, <2>5, <2>6, <2>7 DEF ProducerStep, ProducerBusy
<1>7. CASE (\E q \in Producers \ {p} : ProducerStep(q)) /\ ObserveFree
  <2>1. PICK q \in Producers \ {p} : ProducerStep(q)
    BY <1>7
  <2>2. ppc'[p] = ppc[p] /\ cpu'[p] = cpu[p] /\ probe'[p] = probe[p] /\ start'[p] = start[p]
    BY <1>1, <2>1
    DEF ProducerStep, ProducerBusy, producers, Goto, Scanned, NextProbe, StartScan,
        SkipPublished, LoadSequence, ClaimFails, Claim, Recheck, RecheckFails, Unclaim,
        RingFull, WritePayload, Abandon, FlushData, Seal, StoreSequence, FlushControl,
        FlushControlFails, DropClears, DropReleases
  <2> QED
    BY <1>5, <1>7, <2>2
<1>8. CASE UNCHANGED producers /\ ObserveFree
  BY <1>5, <1>8 DEF producers
<1> QED
  BY <1>3, <1>6, <1>7, <1>8 DEF Next, ExecutorStep, GpuStep, RetirerStep

\* RingFull is never answered while a slot stayed free all through the scan, whoever
\* else claims, loses, abandons or retires slots meanwhile: not only in a disciplined
\* ring, but in any whose hint wraps around at a multiple of its slots.
THEOREM FullMeansFull == HintWrapsEvenly => (Spec => []NoFalseRingFull)
<1> SUFFICES ASSUME HintWrapsEvenly PROVE Spec => []NoFalseRingFull
  OBVIOUS
<1>1. Init => ScanHolds
  <2> SUFFICES ASSUME Init PROVE ScanHolds
    OBVIOUS
  <2>1. \A p \in Producers : ppc[p] = "idle" /\ probe[p] = 0
    BY DEF Init
  <2> QED
    BY <2>1 DEF ScanHolds, ScanPcs
<1>2. TypeOK /\ ScanHolds /\ [Next]_vars => ScanHolds'
  <2> SUFFICES ASSUME TypeOK, ScanHolds, [Next]_vars, NEW p \in Producers
               PROVE  /\ ppc'[p] \notin ScanPcs => probe'[p] = 0
                      /\ ppc'[p] \in {"claim", "recheck", "unclaim"} =>
                           cpu'[p].slot = Probed(start'[p], probe'[p])
                      /\ ppc'[p] \in {"recheck", "unclaim"} =>
                           Probed(start'[p], probe'[p]) \notin free_since'[p]
                      /\ ppc'[p] \in ScanPcs =>
                           \A i \in free_since'[p] :
                             \E n \in probe'[p] .. SlotCount - 1 : i = Probed(start'[p], n)
    BY DEF ScanHolds, Index
  <2> QED
    BY ScanKept
<1>3. TypeOK /\ ScanHolds => NoFalseRingFull
  <2> SUFFICES ASSUME TypeOK, ScanHolds, NEW p \in Producers,
                      ppc[p] = "scan", probe[p] = SlotCount
               PROVE  free_since[p] = {}
    BY DEF NoFalseRingFull
  <2>1. \A n \in probe[p] .. SlotCount - 1 : FALSE
    BY RingAssumption DEF RingAssumption
  <2> QED
    BY <2>1 DEF ScanHolds, ScanPcs
<1> QED
  BY <1>1, <1>2, <1>3, Typed, PTL DEF Spec
=============================================================================
