------------------------- MODULE ResolutionAbstract -------------------------
(***************************************************************************)
(* What the Resolution Controller promises (spec 4.7 and the scenario of   *)
(* spec 8): while a session exists, a requested surface size the server    *)
(* can show becomes the root window geometry, a size it cannot show leaves *)
(* the geometry as it was, and a new session applies the size last         *)
(* requested.  After a failed transition spec 4.7 allows any geometry.   *)
(* Each change is one atomic step: the server is grabbed for   *)
(* the whole transition.                                                   *)
(***************************************************************************)
EXTENDS Naturals

CONSTANTS
    Sizes,        \* the <<width, height>> pairs in play
    MaxScreen,    \* the largest screen size the server accepts
    DefaultSize   \* the size requested before any surface exists

VARIABLES conn, target, screen

Fits(a, b) == a[1] <= b[1] /\ a[2] <= b[2]

Showable(t) == Fits(t, MaxScreen)

Apply(t) == IF Showable(t) THEN {t} ELSE Sizes

AInit == conn = FALSE /\ target = DefaultSize /\ screen \in Sizes

ARequest(t) ==
    /\ target' = t
    /\ IF conn THEN screen' \in Apply(t) ELSE UNCHANGED screen
    /\ UNCHANGED conn

AConnect == ~conn /\ conn' = TRUE /\ screen' \in Apply(target) /\ UNCHANGED target

ADisconnect == conn /\ conn' = FALSE /\ UNCHANGED <<target, screen>>

ANext == (\E t \in Sizes : ARequest(t)) \/ AConnect \/ ADisconnect

ASpec == AInit /\ [][ANext]_<<conn, target, screen>>
=============================================================================
