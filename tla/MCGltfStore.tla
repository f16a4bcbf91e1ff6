---------------------------- MODULE MCGltfStore -----------------------------
(***************************************************************************)
(* Instances of the glTF document store for TLC.                           *)
(***************************************************************************)
EXTENDS GltfStore, TLC

CONSTANTS a1, a2, t1, t2, x, y, mesh

TwoAssets == {a1, a2}
TwoDerivers == {t1, t2}
OneName == {mesh}
TwoBytes == {x, y}

\* A node with a camera; the source is one short chunk.
Pose ==
  LET node == <<"node", 0>>  camera == <<"camera", 0>>
  IN  [parts |-> {node, camera},
       uses |-> node :> {camera} @@ camera :> {},
       bytes |-> RevisionPart :> <<x>>]

\* Vertices down to their buffer, which is empty, and an image, which no record is
\* made of; the source is two chunks.
Vertices ==
  LET accessor == <<"accessor", 0>>  view == <<"buffer_view", 0>>
      buffer == <<"buffer", 0>>      image == <<"image", 0>>
  IN  [parts |-> {accessor, view, buffer, image},
       uses |-> accessor :> {view} @@ view :> {buffer} @@ buffer :> {} @@ image :> {view},
       bytes |-> RevisionPart :> <<x, y, y>> @@ buffer :> <<>>]

PoseAndVertices == {Pose, Vertices}

\* One verdict on an asset, one on a camera, and one set_tracking refuses.
ThreeVerdicts ==
  {<<AssetPart, {"included", "fully_respected"}>>, <<<<"camera", 0>>, {"included"}>>,
   <<<<"camera", 0>>, {"tested"}>>}

TwoProvenances == {"p", "q"}

\* The same but for the second chunk, and the same but for the provenance.
ThreeArtefacts ==
  {[provenance |-> "p", bytes |-> <<x, y, x>>],
   [provenance |-> "p", bytes |-> <<x, y, y>>],
   [provenance |-> "q", bytes |-> <<x, y, x>>]}

Symmetric == Permutations(Assets) \cup Permutations(Derivers)
=============================================================================
