--------------------------- MODULE ImmutableStore ---------------------------
(***************************************************************************)
(* What a store of immutable objects promises: an object appears as a      *)
(* whole, at once, under an ID that had none, and then stays as it is.     *)
(* MassStore, crashes included, and GltfStore implement this specification.*)
(***************************************************************************)
EXTENDS Naturals

CONSTANTS Ids, Objects, NoObject

VARIABLE store

Init == store = [id \in Ids |-> NoObject]

Publish(id, object) ==
  /\ store[id] = NoObject
  /\ store' = [store EXCEPT ![id] = object]

Next == \E id \in Ids, object \in Objects : Publish(id, object)

Spec == Init /\ [][Next]_store
=============================================================================
