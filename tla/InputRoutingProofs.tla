------------------------- MODULE InputRoutingProofs -------------------------
(***************************************************************************)
(* Proofs about the input routing of the fly camera, for any routes and    *)
(* keyboards of UI4.                                                       *)
(***************************************************************************)
EXTENDS InputRouting, FiniteSetTheorems, WellFoundedInduction, TLAPS

\* Of the intervals 0 .. i with i in T, one includes no other.
LEMMA EarliestOfSome ==
  ASSUME NEW T \in SUBSET Nat, T # {}
  PROVE  \E i \in T : \A j \in T : i <= j
<1> DEFINE upto == {0 .. i : i \in T}
<1>1. upto \subseteq FiniteSubsetsOf(Nat)
  <2>1. ASSUME NEW i \in T PROVE 0 .. i \in FiniteSubsetsOf(Nat)
    <3>1. i \in Nat /\ 0 .. i \in SUBSET Nat
      OBVIOUS
    <3> QED
      BY <3>1, FS_Interval DEF FiniteSubsetsOf
  <2> QED
    BY <2>1
<1>2. PICK U \in upto : \A V \in upto : <<V, U>> \notin StrictSubsetOrdering(Nat)
  <2>1. upto # {}
    OBVIOUS
  <2> HIDE DEF upto
  <2> QED
    BY <1>1, <2>1, FS_StrictSubsetOrderingWellFounded, WFMin
<1>3. PICK i \in T : U = 0 .. i
  OBVIOUS
<1>4. ASSUME NEW j \in T PROVE i <= j
  <2>1. SUFFICES ASSUME j < i PROVE FALSE
    OBVIOUS
  <2>2. <<0 .. j, 0 .. i>> \in StrictSubsetOrdering(Nat)
    BY <2>1 DEF StrictSubsetOrdering
  <2> QED
    BY <1>2, <1>3, <2>2
<1> QED
  BY <1>4

\* `find` finds one of the positions it looks for.
LEMMA FirstIsOne ==
  ASSUME NEW table \in Tables, NEW P \in SUBSET DOMAIN table, P # {}
  PROVE  First(P) \in P
<1>1. P \in SUBSET Nat
  BY RoutingAssumption
<1> QED
  BY <1>1, EarliestOfSome DEF First

LEMMA ListedAreRoutes ==
  ASSUME NEW table \in Tables, NEW i \in DOMAIN table
  PROVE  /\ table[i] \in Routes /\ Identity(table[i]) \in Identities
         /\ Identity(table[i]) # NoRoute
<1>1. table[i] \in Routes
  BY RoutingAssumption
<1> QED
  BY <1>1, RoutingAssumption DEF Identities

\* The keys of an identity are those of the only route that has it.
LEMMA KeysOfTheRoute ==
  ASSUME NEW table \in Tables, NEW i \in DOMAIN table
  PROVE  KeysOf(table, Identity(table[i])) = table[i].keys \cap Bound
<1> DEFINE same == {j \in DOMAIN table : Identity(table[j]) = Identity(table[i])}
<1>1. \A j \in same : j = i
  BY RoutingAssumption DEF Identity
<1>2. same # {} /\ First(same) = i
  <2>1. same \in SUBSET DOMAIN table /\ same # {}
    OBVIOUS
  <2>2. First(same) \in same
    <3> HIDE DEF same
    <3> QED
      BY <2>1, FirstIsOne
  <2> QED
    BY <1>1, <2>1, <2>2
<1> QED
  BY <1>2 DEF KeysOf

\* What a step chooses: a route in focus if there is one.
LEMMA ChosenIsInFocus ==
  ASSUME NEW table \in Tables, NEW keyboard
  PROVE  \/ /\ Chosen(table, keyboard) = NoRoute /\ InFocus(table) = {}
            /\ KeysOf(table, NoRoute) = {}
         \/ \E r \in InFocus(table) :
              /\ Chosen(table, keyboard) = Identity(r)
              /\ KeysOf(table, Identity(r)) = r.keys \cap Bound
<1> DEFINE found == Candidates(table, keyboard)
<1>1. /\ found \in SUBSET DOMAIN table
      /\ \A i \in found : Eligible(table[i])
      /\ found = {} => \A i \in DOMAIN table : ~Eligible(table[i])
  BY DEF Candidates
<1>2. CASE found = {}
  <2>1. Chosen(table, keyboard) = NoRoute
    BY <1>2 DEF Chosen
  <2>2. InFocus(table) = {}
    BY <1>1, <1>2 DEF InFocus, Listed, Eligible
  <2>3. KeysOf(table, NoRoute) = {}
    BY ListedAreRoutes DEF KeysOf
  <2> QED
    BY <2>1, <2>2, <2>3
<1>3. CASE found # {}
  <2> DEFINE i == First(found)
  <2>1. i \in found
    <3> HIDE DEF found
    <3> QED
      BY <1>1, <1>3, FirstIsOne
  <2>2. Chosen(table, keyboard) = Identity(table[i])
    BY <1>3 DEF Chosen
  <2>3. table[i] \in InFocus(table)
    BY <1>1, <2>1 DEF InFocus, Listed, Eligible
  <2>4. KeysOf(table, Identity(table[i])) = table[i].keys \cap Bound
    BY <1>1, <2>1, KeysOfTheRoute
  <2> QED
    BY <2>2, <2>3, <2>4
<1> QED
  BY <1>2, <1>3

LEMMA MotionsOfKeys ==
  ASSUME NEW keys
  PROVE  Motion(keys) \in Motions /\ Still \in Motions
<1>1. \A key : Pressed(key, keys) \in {0, 1}
  BY DEF Pressed
<1> QED
  BY <1>1 DEF Motion, Motions, Still

LEMMA NothingPressed == Motion({}) = Still
BY DEF Motion, Pressed, Still

\* A step that completes leaves the camera with a route in focus, or at rest.
LEMMA CompletedKeeps ==
  ASSUME RoutingInvariant, NEW table \in Tables, NEW keyboard, NEW time_passes \in BOOLEAN,
         Completed(table, keyboard, time_passes), UNCHANGED <<ui4, events>>
  PROVE  RoutingInvariant'
<1>1. moved' \in Motions /\ moved' \in {Still, Motion(last_keys')}
  BY MotionsOfKeys DEF Completed
<1>2. CASE route' = NoRoute /\ InFocus(table) = {} /\ KeysOf(table, NoRoute) = {}
  <2>1. last_keys' = {} /\ moved' = Still
    BY <1>1, <1>2, NothingPressed DEF Completed
  <2>2. TypeOK'
    BY <1>1, <1>2, <2>1, RoutingAssumption
       DEF TypeOK, Completed, RoutingInvariant, ui4, Bound
  <2> QED
    BY <1>2, <2>1, <2>2 DEF RoutingInvariant, KeysComeFromFocus, LooksComeFromFocus, Completed
<1>3. CASE \E r \in InFocus(table) :
             route' = Identity(r) /\ KeysOf(table, Identity(r)) = r.keys \cap Bound
  <2>1. PICK r \in InFocus(table) :
          route' = Identity(r) /\ KeysOf(table, Identity(r)) = r.keys \cap Bound
    BY <1>3
  <2>2. Identity(r) \in Identities /\ Identity(r) # NoRoute
    BY ListedAreRoutes DEF InFocus, Listed
  <2>3. last_keys' = r.keys \cap Bound /\ seen' = table /\ looked' = NoRoute
    BY <2>1 DEF Completed
  <2>4. TypeOK'
    BY <1>1, <2>1, <2>2, <2>3, RoutingAssumption DEF TypeOK, Completed, RoutingInvariant, ui4
  <2>5. KeysComeFromFocus'
    BY <1>1, <2>1, <2>2, <2>3 DEF KeysComeFromFocus, InFocus, Listed, Identity
  <2> QED
    BY <2>3, <2>4, <2>5 DEF RoutingInvariant, LooksComeFromFocus
<1> QED
  BY <1>2, <1>3, ChosenIsInFocus DEF Completed

LEMMA LooksKeep ==
  ASSUME RoutingInvariant, NEW allow_look \in BOOLEAN, HandlePointerEvent(allow_look)
  PROVE  RoutingInvariant'
<1>1. looked' # NoRoute => looked' = route
  BY DEF HandlePointerEvent
<1>2. TypeOK'
  <2>1. events \in Seq(Events) /\ events # <<>> /\ Len(events) <= MaxEvents
    BY DEF HandlePointerEvent, RoutingInvariant, TypeOK
  <2>2. Tail(events) \in Seq(Events) /\ Len(Tail(events)) <= MaxEvents
    BY <2>1, RoutingAssumption
  <2> QED
    BY <1>1, <2>2, MotionsOfKeys DEF HandlePointerEvent, RoutingInvariant, TypeOK, ui4
<1>3. KeysComeFromFocus'
  BY DEF HandlePointerEvent, RoutingInvariant, KeysComeFromFocus, InFocus, Listed
<1>4. LooksComeFromFocus'
  BY <1>1 DEF HandlePointerEvent, RoutingInvariant, LooksComeFromFocus, KeysComeFromFocus,
              Follows, InFocus, Listed
<1> QED
  BY <1>2, <1>3, <1>4 DEF RoutingInvariant

\* Steps that leave the camera alone.
LEMMA CameraStays ==
  ASSUME RoutingInvariant, UNCHANGED camera, TypeOK'
  PROVE  RoutingInvariant'
BY DEF RoutingInvariant, camera, KeysComeFromFocus, LooksComeFromFocus, Follows, InFocus, Listed

\* Types, and the two invariants: what moves the camera had the focus of the window in
\* the last step, whatever UI4 does meanwhile.
THEOREM RoutingAlwaysHolds == Spec => []RoutingInvariant
<1>1. Init => RoutingInvariant
  BY RoutingAssumption, MotionsOfKeys
     DEF Init, RoutingInvariant, TypeOK, KeysComeFromFocus, LooksComeFromFocus
<1>2. RoutingInvariant /\ [Next]_vars => RoutingInvariant'
  <2> SUFFICES ASSUME RoutingInvariant, [Next]_vars PROVE RoutingInvariant'
    OBVIOUS
  <2> USE DEF RoutingInvariant
  <2>1. ASSUME NEW time_passes \in BOOLEAN, StepCalled(time_passes)
        PROVE  RoutingInvariant'
    <3>1. CASE \E r \in Listed(routes) : r.focus
      <4>1. UNCHANGED camera /\ TypeOK'
        BY <2>1, <3>1 DEF StepCalled, TypeOK, ui4, camera
      <4> QED
        BY <4>1, CameraStays
    <3>2. CASE ~\E r \in Listed(routes) : r.focus
      <4>1. Completed(routes, NoDevice, time_passes) /\ UNCHANGED <<ui4, events>>
        BY <2>1, <3>2 DEF StepCalled
      <4>2. routes \in Tables
        BY DEF TypeOK
      <4> HIDE DEF RoutingInvariant
      <4> QED
        BY <4>1, <4>2, CompletedKeeps
    <3> QED
      BY <3>1, <3>2
  <2>2. ASSUME NEW time_passes \in BOOLEAN, KeyboardRead(time_passes)
        PROVE  RoutingInvariant'
    <3>1. Completed(sampled, focused, time_passes) /\ UNCHANGED <<ui4, events>>
      BY <2>2 DEF KeyboardRead
    <3>2. sampled \in Tables
      BY DEF TypeOK
    <3> HIDE DEF RoutingInvariant
    <3> QED
      BY <3>1, <3>2, CompletedKeeps
  <2>3. CASE StepFails
    <3>1. UNCHANGED camera /\ TypeOK'
      BY <2>3, RoutingAssumption DEF StepFails, TypeOK, ui4, camera
    <3> QED
      BY <3>1, CameraStays
  <2>4. CASE Ui4Changes
    <3>1. UNCHANGED camera /\ TypeOK'
      BY <2>4 DEF Ui4Changes, TypeOK, camera
    <3> QED
      BY <3>1, CameraStays
  <2>5. CASE PointerMoves
    <3>1. PICK r \in Listed(routes), middle \in BOOLEAN, moves \in BOOLEAN :
            events' = Append(events, [source |-> Identity(r), middle |-> middle,
                                      moves |-> moves])
      BY <2>5 DEF PointerMoves
    <3>2. Identity(r) \in Identities
      BY ListedAreRoutes DEF Listed, TypeOK
    <3>3. [source |-> Identity(r), middle |-> middle, moves |-> moves] \in Events
      BY <3>2 DEF Events
    <3>4. events' \in Seq(Events) /\ Len(events') <= MaxEvents
      <4>1. events \in Seq(Events) /\ Len(events) < MaxEvents /\ MaxEvents \in Nat
        BY <2>5, RoutingAssumption DEF PointerMoves, TypeOK
      <4> QED
        BY <3>1, <3>3, <4>1
    <3>5. UNCHANGED camera /\ TypeOK'
      BY <2>5, <3>4 DEF PointerMoves, TypeOK, ui4, camera
    <3> QED
      BY <3>5, CameraStays
  <2>6. CASE UNCHANGED vars
    <3>1. UNCHANGED camera /\ TypeOK'
      BY <2>6 DEF vars, TypeOK, ui4, camera
    <3> QED
      BY <3>1, CameraStays
  <2> HIDE DEF RoutingInvariant
  <2> QED
    BY <2>1, <2>2, <2>3, <2>4, <2>5, <2>6, LooksKeep DEF Next
<1> QED
  BY <1>1, <1>2, PTL DEF Spec

\* A step that drops an identity still in focus turns to a route of the focused keyboard.
LEMMA ChosenIsSteady ==
  ASSUME NEW table \in Tables, NEW keyboard, route # NoRoute,
         Chosen(table, keyboard) # route, Follows(table, route)
  PROVE  \E r \in InFocus(table) : /\ Matches(r, keyboard)
                                   /\ Identity(r) = Chosen(table, keyboard)
<1> DEFINE eligible == {i \in DOMAIN table : Eligible(table[i])}
           typed == {i \in eligible : Matches(table[i], keyboard)}
           followed == {i \in eligible : Identity(table[i]) = route}
<1>1. followed # {}
  BY DEF Follows, InFocus, Listed, Eligible
<1>2. CASE typed # {}
  <2>1. Chosen(table, keyboard) = Identity(table[First(typed)])
    BY <1>2 DEF Chosen, Candidates
  <2>2. First(typed) \in typed
    <3>1. typed \in SUBSET DOMAIN table
      OBVIOUS
    <3> HIDE DEF typed
    <3> QED
      BY <1>2, <3>1, FirstIsOne
  <2> QED
    BY <2>1, <2>2 DEF InFocus, Listed, Eligible
<1>3. CASE typed = {}
  <2>1. Chosen(table, keyboard) = Identity(table[First(followed)])
    BY <1>1, <1>3 DEF Chosen, Candidates
  <2>2. First(followed) \in followed
    <3>1. followed \in SUBSET DOMAIN table
      OBVIOUS
    <3> HIDE DEF followed
    <3> QED
      BY <1>1, <3>1, FirstIsOne
  <2> QED
    BY <2>1, <2>2
<1> QED
  BY <1>2, <1>3

\* Keys move the camera only from a route that had the focus in the last step.
THEOREM KeysAlwaysFromFocus == Spec => []KeysComeFromFocus
<1>1. RoutingInvariant => KeysComeFromFocus
  BY DEF RoutingInvariant
<1> QED
  BY <1>1, RoutingAlwaysHolds, PTL

\* A pointer event turns the camera only if its pointer had the focus in the last step.
THEOREM LooksAlwaysFromFocus == Spec => []LooksComeFromFocus
<1>1. RoutingInvariant => LooksComeFromFocus
  BY DEF RoutingInvariant
<1> QED
  BY <1>1, RoutingAlwaysHolds, PTL

\* The camera leaves a route only when it lost the focus, or for that of the focused
\* keyboard: a step asks for the keyboard last, so it goes by what UI4 says then.
THEOREM RoutesAlwaysSteady == Spec => RoutesAreSteady
<1> DEFINE Steady ==
      route # NoRoute /\ route' # route =>
        \/ ~Follows(seen', route)
        \/ \E r \in Typing(seen') : Identity(r) = route'
<1>1. RoutingInvariant /\ [Next]_vars => [Steady]_vars
  <2> SUFFICES ASSUME RoutingInvariant, Next, route # NoRoute, route' # route,
                      Follows(seen', route)
               PROVE  \E r \in Typing(seen') : Identity(r) = route'
    OBVIOUS
  <2>1. PICK table \in Tables, keyboard \in {NoDevice, focused} :
          seen' = table /\ route' = Chosen(table, keyboard)
    <3>1. CASE \E time_passes \in BOOLEAN : StepCalled(time_passes)
      <4>1. PICK time_passes \in BOOLEAN : StepCalled(time_passes)
        BY <3>1
      <4>2. seen' = routes /\ route' = Chosen(routes, NoDevice)
        BY <4>1 DEF StepCalled, camera, Completed
      <4>3. routes \in Tables
        BY DEF RoutingInvariant, TypeOK
      <4> QED
        BY <4>2, <4>3
    <3>2. CASE \E time_passes \in BOOLEAN : KeyboardRead(time_passes)
      <4>1. PICK time_passes \in BOOLEAN : KeyboardRead(time_passes)
        BY <3>2
      <4>2. seen' = sampled /\ route' = Chosen(sampled, focused)
        BY <4>1 DEF KeyboardRead, Completed
      <4>3. sampled \in Tables
        BY DEF RoutingInvariant, TypeOK
      <4> QED
        BY <4>2, <4>3
    <3> QED
      BY <3>1, <3>2 DEF Next, StepFails, HandlePointerEvent, Ui4Changes, PointerMoves, camera
  <2>2. PICK r \in InFocus(table) : Matches(r, keyboard) /\ Identity(r) = route'
    <3>1. Follows(table, route)
      BY <2>1 DEF Follows, InFocus, Listed
    <3> QED
      BY <2>1, <3>1, ChosenIsSteady
  <2>3. r \in Typing(table)
    BY <2>1, <2>2 DEF Matches, Typing
  <2>4. focused' = focused
    BY DEF Next, StepCalled, KeyboardRead, StepFails, HandlePointerEvent, Ui4Changes,
           PointerMoves, camera, ui4
  <2> QED
    BY <2>1, <2>2, <2>3, <2>4 DEF Typing, InFocus, Listed
<1> QED
  BY <1>1, RoutingAlwaysHolds, PTL DEF Spec, RoutesAreSteady
=============================================================================
