------------------------------ MODULE AssetMap ------------------------------
(***************************************************************************)
(* What the runtime asset owners promise: each owner is a map from names   *)
(* to exact contents.  A put or remove changes one name of one writable    *)
(* owner; forks and images are copies that go their own way.               *)
(***************************************************************************)
CONSTANTS Owners, Names, Contents, NoContent

VARIABLES state, assets, image, taken

vars == <<state, assets, image, taken>>

Fresh == [n \in Names |-> NoContent]

Init ==
  /\ state = [o \in Owners |-> "closed"]
  /\ assets = [o \in Owners |-> Fresh]
  /\ image = Fresh
  /\ taken = FALSE

Open(o, how, map) ==
  /\ state[o] = "closed"
  /\ state' = [state EXCEPT ![o] = how]
  /\ assets' = [assets EXCEPT ![o] = map]
  /\ UNCHANGED <<image, taken>>

New(o) == Open(o, "writable", Fresh)
Fork(o, p) == state[p] # "closed" /\ Open(o, "writable", assets[p])
OpenImage(o) == taken /\ Open(o, "readonly", image)

Assign(o, n, c) ==
  /\ state[o] = "writable"
  /\ assets' = [assets EXCEPT ![o][n] = c]
  /\ UNCHANGED <<state, image, taken>>

Close(o) ==
  /\ state[o] # "closed"
  /\ state' = [state EXCEPT ![o] = "closed"]
  /\ assets' = [assets EXCEPT ![o] = Fresh]
  /\ \/ UNCHANGED <<image, taken>>
     \/ state[o] = "writable" /\ image' = assets[o] /\ taken' = TRUE

Next ==
  \E o \in Owners :
    \/ New(o) \/ OpenImage(o) \/ Close(o)
    \/ \E p \in Owners : Fork(o, p)
    \/ \E n \in Names, c \in Contents \cup {NoContent} : Assign(o, n, c)

Spec == Init /\ [][Next]_vars
=============================================================================
