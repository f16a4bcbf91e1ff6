---------------------------- MODULE InputRouting ----------------------------
(***************************************************************************)
(* The UI4 side of the fly camera in cam.rs: step_ui4 follows one of the   *)
(* pointers that UI4 routes to the window and moves the camera with the    *)
(* keyboard of its route; handle_ui4_pointer_event turns the camera with   *)
(* that pointer.  UI4 is not part of the repository: its routes, its       *)
(* focused keyboard and its pointer events change whenever they like.      *)
(***************************************************************************)
EXTENDS Integers, Sequences

CONSTANTS
  Routes,       \* routes of pointers, each to the window or not
  Tables,       \* what input_routes may answer: sequences of routes
  Devices,      \* keyboards, each a piece of hardware in a combo
  NoDevice,     \* a route without a keyboard, or no focused keyboard
  NoRoute,      \* a camera that follows no pointer
  MaxEvents     \* bound: pointer events the application has not drained

\* Variant: pointers are told apart by their cursors only.
CursorOnly(source) == [cursor |-> source.cursor, combo |-> 0]

Identity(source) == [cursor |-> source.cursor, combo |-> source.combo]
Listed(table) == {table[i] : i \in DOMAIN table}
Identities == {Identity(r) : r \in Routes}

\* The keys of the default binding.
Bound == {"w", "a", "s", "d", "q", "e"}

\* UI4 lists a pointer once, and its route holds the keys of its keyboard.
ASSUME RoutingAssumption ==
  /\ \A r \in Routes :
       /\ r.focus \in BOOLEAN /\ r.selected \in BOOLEAN
       /\ r.keyboard \in Devices \cup {NoDevice}
       /\ r.keyboard = NoDevice => r.keys = {}
  /\ Tables \subseteq Seq(Routes) /\ <<>> \in Tables
  /\ \A table \in Tables : \A i, j \in DOMAIN table :
       table[i].cursor = table[j].cursor /\ table[i].combo = table[j].combo => i = j
  /\ NoDevice \notin Devices /\ NoRoute \notin Identities
  /\ MaxEvents \in Nat

VARIABLES
  routes, focused,     \* UI4: the routes of the window, the focused keyboard
  events,              \* pointer events on their way to the application
  pc, sampled,         \* step_ui4, and the routes it was answered
  route, last_keys,    \* the pointer followed, the keys of the last step
  moved, looked,       \* what the last call did to the camera
  seen                 \* history: the routes of the last step that succeeded

ui4 == <<routes, focused>>
camera == <<route, last_keys, moved, looked, seen>>
vars == <<ui4, events, pc, sampled, camera>>

Still == [roll |-> 0, x |-> 0, z |-> 0]
Motions == [roll : -1 .. 1, x : -1 .. 1, z : -1 .. 1]
Events == [source : Identities, middle : BOOLEAN, moves : BOOLEAN]

TypeOK ==
  /\ routes \in Tables /\ sampled \in Tables /\ seen \in Tables
  /\ focused \in Devices \cup {NoDevice}
  /\ events \in Seq(Events) /\ Len(events) <= MaxEvents
  /\ pc \in {"idle", "keyboard"}
  /\ route \in Identities \cup {NoRoute}
  /\ last_keys \in SUBSET Bound
  /\ moved \in Motions
  /\ looked \in Identities \cup {NoRoute}

Init ==
  /\ routes \in Tables /\ focused \in Devices \cup {NoDevice}
  /\ events = <<>>
  /\ pc = "idle" /\ sampled = <<>> /\ seen = <<>>
  /\ route = NoRoute /\ last_keys = {}
  /\ moved = Still /\ looked = NoRoute

(* --- choosing a route -------------------------------------------------- *)

Eligible(r) == r.focus /\ r.selected
\* Variant: the combo of a keyboard is not compared.
MatchesHardware(r, keyboard) ==
  keyboard # NoDevice /\ r.keyboard # NoDevice /\ r.keyboard.hw = keyboard.hw

Matches(r, keyboard) == keyboard # NoDevice /\ r.keyboard = keyboard

\* Of some positions the first, as `find` does.
First(positions) == CHOOSE i \in positions : \A j \in positions : i <= j

\* Variants: one keeps its route while UI4 lists it, one forgets its route.
KeepListed(table, keyboard) ==
  LET followed == {i \in DOMAIN table : Identity(table[i]) = route}
  IN IF followed # {} THEN followed ELSE {i \in DOMAIN table : Eligible(table[i])}
FirstEligible(table, keyboard) ==
  LET eligible == {i \in DOMAIN table : Eligible(table[i])}
      typed == {i \in eligible : Matches(table[i], keyboard)}
  IN IF typed # {} THEN typed ELSE eligible

\* The route of the focused keyboard, else the one followed so far, else any; of
\* eligible ones only.
Candidates(table, keyboard) ==
  LET eligible == {i \in DOMAIN table : Eligible(table[i])}
      typed == {i \in eligible : Matches(table[i], keyboard)}
      followed == {i \in eligible : Identity(table[i]) = route}
  IN IF typed # {} THEN typed ELSE IF followed # {} THEN followed ELSE eligible

Chosen(table, keyboard) ==
  LET candidates == Candidates(table, keyboard)
  IN IF candidates = {} THEN NoRoute ELSE Identity(table[First(candidates)])

\* The keyboard is that of the first route with the identity chosen, eligible or not.
KeysOf(table, id) ==
  LET same == {i \in DOMAIN table : Identity(table[i]) = id}
  IN IF same = {} THEN {} ELSE table[First(same)].keys \cap Bound

(* --- moving the camera ------------------------------------------------- *)

Pressed(key, keys) == IF key \in keys THEN 1 ELSE 0

\* FlyCam::step: opposing keys cancel.
Motion(keys) ==
  [roll |-> Pressed("q", keys) - Pressed("e", keys),
   x |-> Pressed("d", keys) - Pressed("a", keys),
   z |-> Pressed("s", keys) - Pressed("w", keys)]

\* Variant: without a route, the keys stay as they were.
KeysStay(table, keyboard, time_passes) ==
  /\ route' = Chosen(table, keyboard)
  /\ last_keys' = IF route' = NoRoute THEN last_keys ELSE KeysOf(table, route')
  /\ moved' = IF time_passes THEN Motion(last_keys') ELSE Still
  /\ looked' = NoRoute
  /\ seen' = table
  /\ pc' = "idle" /\ sampled' = <<>>

Completed(table, keyboard, time_passes) ==
  /\ route' = Chosen(table, keyboard)
  /\ last_keys' = KeysOf(table, route')
  /\ moved' = IF time_passes THEN Motion(last_keys') ELSE Still
  /\ looked' = NoRoute
  /\ seen' = table
  /\ pc' = "idle" /\ sampled' = <<>>

\* step_ui4 asks for the routes, and for the focused keyboard only if one of them
\* has the focus.
StepCalled(time_passes) ==
  /\ pc = "idle"
  /\ IF \E r \in Listed(routes) : r.focus
     THEN pc' = "keyboard" /\ sampled' = routes /\ UNCHANGED camera
     ELSE Completed(routes, NoDevice, time_passes)
  /\ UNCHANGED <<ui4, events>>

KeyboardRead(time_passes) ==
  /\ pc = "keyboard"
  /\ Completed(sampled, focused, time_passes)
  /\ UNCHANGED <<ui4, events>>

\* Either question may fail; the first changes nothing.
StepFails ==
  /\ pc = "keyboard"
  /\ pc' = "idle" /\ sampled' = <<>>
  /\ UNCHANGED <<ui4, events, camera>>

\* handle_ui4_pointer_event, for the oldest event drained.
HandlePointerEvent(allow_look) ==
  /\ pc = "idle" /\ events # <<>>
  /\ LET event == Head(events)
         active == allow_look /\ event.source = route /\ event.middle /\ event.moves
     IN looked' = IF active THEN event.source ELSE NoRoute
  /\ events' = Tail(events)
  /\ moved' = Still
  /\ UNCHANGED <<ui4, pc, sampled, route, last_keys, seen>>

(* --- UI4 --------------------------------------------------------------- *)

Ui4Changes ==
  /\ routes' \in Tables /\ focused' \in Devices \cup {NoDevice}
  /\ UNCHANGED <<events, pc, sampled, camera>>

\* Events keep the identity their pointer has when it moves.
PointerMoves ==
  /\ Len(events) < MaxEvents
  /\ \E r \in Listed(routes), middle, moves \in BOOLEAN :
       events' = Append(events, [source |-> Identity(r), middle |-> middle, moves |-> moves])
  /\ UNCHANGED <<ui4, pc, sampled, camera>>

Next ==
  \/ \E time_passes \in BOOLEAN : StepCalled(time_passes) \/ KeyboardRead(time_passes)
  \/ StepFails
  \/ \E allow_look \in BOOLEAN : HandlePointerEvent(allow_look)
  \/ Ui4Changes
  \/ PointerMoves

\* The application steps its camera every frame, and UI4 answers again and again.
Fairness ==
  /\ WF_vars(\E time_passes \in BOOLEAN : StepCalled(time_passes))
  /\ SF_vars(\E time_passes \in BOOLEAN : KeyboardRead(time_passes))

Spec == Init /\ [][Next]_vars
FairSpec == Spec /\ Fairness

(* --- what must hold ---------------------------------------------------- *)

\* Routes of the window with the focus, and that of the focused keyboard among them.
InFocus(table) == {r \in Listed(table) : r.focus /\ r.selected}
Typing(table) == {r \in InFocus(table) : focused # NoDevice /\ r.keyboard = focused}
Follows(table, id) == \E r \in InFocus(table) : Identity(r) = id

\* "From UI4's focused route": keys and motions are those of one route that had
\* the focus of the window in the routes of the last step, the one followed; and
\* without such a route nothing moves, whatever other routes or devices go on doing.
KeysComeFromFocus ==
  /\ route = NoRoute => last_keys = {} /\ moved = Still
  /\ route # NoRoute =>
       \E r \in InFocus(seen) :
         /\ Identity(r) = route
         /\ last_keys = r.keys \cap Bound
         /\ moved \in {Still, Motion(last_keys)}

\* An event turns the camera only if its pointer had the focus in the last step,
\* however long the event was on its way and whatever became of the pointer.
LooksComeFromFocus == looked # NoRoute => looked = route /\ Follows(seen, looked)

\* A step leaves a pointer only if it lost the focus or for that of the focused
\* keyboard: other pointers listed earlier do not take the camera over.
RoutesAreSteady ==
  [][ route # NoRoute /\ route' # route =>
        \/ ~Follows(seen', route)
        \/ \E r \in Typing(seen') : Identity(r) = route' ]_vars

\* Once UI4 stops changing, the camera comes to follow the route of the focused
\* keyboard if there is one, else some focused route, else none, with the keys held
\* there: no key stays stuck when the focus has gone.
Agrees ==
  /\ seen = routes
  /\ IF InFocus(routes) = {} THEN route = NoRoute /\ last_keys = {}
     ELSE \E r \in (IF Typing(routes) # {} THEN Typing(routes) ELSE InFocus(routes)) :
            route = Identity(r) /\ last_keys = r.keys \cap Bound
InputSettles == <>[][FALSE]_ui4 => <>[]Agrees

RoutingInvariant == TypeOK /\ KeysComeFromFocus /\ LooksComeFromFocus
=============================================================================
