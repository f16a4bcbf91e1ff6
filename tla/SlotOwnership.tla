--------------------------- MODULE SlotOwnership ---------------------------
(***************************************************************************)
(* What an execution ring promises its users, one slot at a time: a slot   *)
(* is the CPU's or the GPU's, never both; it is handed over once for each  *)
(* generation, and it comes back to the CPU only when the GPU has finished *)
(* with it.  ExecRing implements this specification.                       *)
(***************************************************************************)
EXTENDS Naturals

CONSTANT Slots

VARIABLES holder,      \* who may touch the slot, and how far the GPU is
          generation   \* how often the slot has come back to the CPU

vars == <<holder, generation>>

Holders == {"free", "cpu", "published", "running", "done"}

TypeOK ==
  /\ holder \in [Slots -> Holders]
  /\ generation \in [Slots -> Nat]

Init ==
  /\ holder = [i \in Slots |-> "free"]
  /\ generation = [i \in Slots |-> 0]

Move(i, from, to) ==
  /\ holder[i] = from
  /\ holder' = [holder EXCEPT ![i] = to]

\* A producer takes a free slot, gives it back unused, or hands it over.
Take(i)     == Move(i, "free", "cpu")       /\ UNCHANGED generation
GiveBack(i) == Move(i, "cpu", "free")       /\ UNCHANGED generation
HandOver(i) == Move(i, "cpu", "published")  /\ UNCHANGED generation

\* The GPU starts on a published slot and finishes with it.  The timeline is
\* one counter for all slots: no other slot moves when one of them finishes.
Start(i)    == Move(i, "published", "running") /\ UNCHANGED generation
Finish(i)   == Move(i, "running", "done")      /\ UNCHANGED generation

\* The finished slot is free again, one generation later.
Reclaim(i) ==
  /\ Move(i, "done", "free")
  /\ generation' = [generation EXCEPT ![i] = @ + 1]

Next ==
  \E i \in Slots :
    Take(i) \/ GiveBack(i) \/ HandOver(i) \/ Start(i) \/ Finish(i) \/ Reclaim(i)

Spec == Init /\ [][Next]_vars
=============================================================================
