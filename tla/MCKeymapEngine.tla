-------------------------- MODULE MCKeymapEngine ---------------------------
EXTENDS KeymapEngine, TLC

\* A five-key keyboard: a two-level letter key, a one-level Return key, the
\* Shift_L key and two keycodes with no layout, which become the scratch
\* keycodes.  "x" and "y" are missing from the layout, so typing both
\* reuses the scratch keycodes round-robin.
MCKeycodes == 9..13
MCSyms == {"a", "A", "Return", "Linefeed", "Shift_L", "x", "y"}
MCRequests == {"a", "A", "Linefeed", "x", "y"}
MCMods == {"Shift"}
MCModMap == [m \in MCMods |-> {11}]
MCInitKeymap ==
    (9  :> [l \in Levels |-> IF l = 0 THEN "a" ELSE "A"]) @@
    (10 :> [l \in Levels |-> IF l = 0 THEN "Return" ELSE "NoSymbol"]) @@
    (11 :> [l \in Levels |-> IF l = 0 THEN "Shift_L" ELSE "NoSymbol"]) @@
    (12 :> [l \in Levels |-> "NoSymbol"]) @@
    (13 :> [l \in Levels |-> "NoSymbol"])
=============================================================================
