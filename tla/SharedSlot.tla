----------------------------- MODULE SharedSlot -----------------------------
(***************************************************************************)
(* What a slot of an execution ring is meant to be: memory without caches  *)
(* that the CPU and the GPU pass back and forth.  RingVisibility, with a   *)
(* cache on the CPU's side and a GPU that does not see it, implements this *)
(* specification.                                                          *)
(***************************************************************************)
EXTENDS Naturals

CONSTANTS Lines, Values

VARIABLES owner,        \* "cpu" or "gpu"
          handed,       \* the lines of the payload handed to the GPU
          content       \* what its owner reads in each line

vars == <<owner, handed, content>>

TypeOK ==
  /\ owner \in {"cpu", "gpu"}
  /\ handed \in SUBSET Lines
  /\ content \in [Lines -> Values]

Init == TypeOK /\ owner = "cpu" /\ handed = {}

Write(l) == \E v \in Values : content' = [content EXCEPT ![l] = v]

CpuWrites == owner = "cpu" /\ (\E l \in Lines : Write(l)) /\ UNCHANGED <<owner, handed>>

\* The GPU finds what the CPU left.
HandOver ==
  /\ owner = "cpu" /\ owner' = "gpu"
  /\ handed' \in SUBSET Lines
  /\ UNCHANGED content

GpuWrites == owner = "gpu" /\ (\E l \in handed : Write(l)) /\ UNCHANGED <<owner, handed>>

\* The CPU finds what the GPU left.
TakeBack ==
  /\ owner = "gpu" /\ owner' = "cpu"
  /\ handed' = {}
  /\ UNCHANGED content

Next == CpuWrites \/ HandOver \/ GpuWrites \/ TakeBack

Spec == Init /\ [][Next]_vars
=============================================================================
