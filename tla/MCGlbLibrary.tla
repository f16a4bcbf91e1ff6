---------------------------- MODULE MCGlbLibrary ----------------------------
(***************************************************************************)
(* Instances of the GLB library for TLC.                                   *)
(***************************************************************************)
EXTENDS GlbLibrary, TLC

CONSTANTS w1, w2, r1, a, j1, j2, b1

TwoWriters == {w1, w2}
OneReader == {r1}
OneLetter == {a}

\* One ID spelt three ways, one that keeps a blank, and two that are refused.
SixSpellings ==
  {<<a>>, <<Slash, a, Slash>>, <<Blank, a>>, <<Slash, Blank, a>>, <<Blank, Slash>>, <<a, Nul>>}

\* With a BIN chunk, with another JSON chunk, and without a BIN chunk.
ThreeGlbs ==
  {[json |-> j1, bin |-> b1], [json |-> j2, bin |-> b1], [json |-> j1, bin |-> NoRow]}

\* The inspection of a header, before and after each of its bounds.
Metadata == INSTANCE GlbMetadata
ASSUME InspectionsAreCheap ==
  \A glTF2, tagged, version2 \in BOOLEAN, size \in {0, 19, 20, 24, 28},
     length \in {0, 24, 28}, json_bytes \in {0, 3, 4, 8, 12}, present \in {0, 19, 20, 22, 24, 28} :
    Metadata!InspectionIsCheap(
      [glTF2 |-> glTF2, length |-> length, json_bytes |-> json_bytes, tagged |-> tagged,
       present |-> present, version2 |-> version2], size)

Symmetric == Permutations(Writers)
=============================================================================
