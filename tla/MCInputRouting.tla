--------------------------- MODULE MCInputRouting ---------------------------
(***************************************************************************)
(* Instances of the input routing for TLC.                                 *)
(***************************************************************************)
EXTENDS InputRouting

CONSTANTS c1, c2, h1

\* One keyboard in two combos, and pointers that share a cursor or a combo.
FirstCombo == [hw |-> h1, combo |-> 1]
SecondCombo == [hw |-> h1, combo |-> 2]
TwoCombos == {FirstCombo, SecondCombo}

Listing(cursor, combo, focus, selected, keyboard, keys) ==
  [cursor |-> cursor, combo |-> combo, focus |-> focus, selected |-> selected,
   keyboard |-> keyboard, keys |-> keys]

\* No route; one; two with both focused, in either order; one that is not selected
\* before one of its cursor; one without a keyboard before one that lost the focus.
SixTables ==
  {<<>>,
   <<Listing(c1, 1, TRUE, TRUE, FirstCombo, {"w", "q"})>>,
   <<Listing(c1, 1, TRUE, TRUE, FirstCombo, {"w", "s"}),
     Listing(c1, 2, TRUE, TRUE, SecondCombo, {"d", "shift"})>>,
   <<Listing(c1, 2, TRUE, TRUE, SecondCombo, {"d"}),
     Listing(c1, 1, TRUE, TRUE, FirstCombo, {"a", "e"})>>,
   <<Listing(c1, 1, TRUE, FALSE, FirstCombo, {"w"}),
     Listing(c1, 2, TRUE, TRUE, SecondCombo, {"s"})>>,
   <<Listing(c2, 1, TRUE, TRUE, NoDevice, {}),
     Listing(c1, 1, FALSE, TRUE, FirstCombo, {"w"})>>}
AllRoutes == UNION {Listed(table) : table \in SixTables}
=============================================================================
