------------------------ MODULE ResolutionController ------------------------
(***************************************************************************)
(* The `randr` member of xcb_connection (xcb-connection.hpp) and its two   *)
(* callers: lorie_client::surface_changed, which stores the requested size *)
(* in randr.width/height (screen.width/height are references to them) and  *)
(* calls update_resolution when it changed, and xcb_connection::init,      *)
(* whose randr.init applies the stored size to every new session.          *)
(*                                                                         *)
(* The X server outlives sessions, so a session may start with the modes   *)
(* an earlier one left behind.  Server state: the root geometry, the mode  *)
(* on the first CRTC (the server's own Native mode, one of the client's    *)
(* two named modes, or Off) and the size of each named mode, if it exists. *)
(* update_resolution runs with the server grabbed, so it is one atomic     *)
(* step; its seven RandR requests are a sequence of steps folded over the  *)
(* server state, the first failing request (handle_error throws) skipping  *)
(* the rest up to the catch.                                               *)
(***************************************************************************)
EXTENDS Naturals, Sequences, SequencesExt

CONSTANTS
    Sizes,        \* <<width, height>> pairs in play
    Widths,       \* widths surface_changed may be called with (0 included)
    Heights,      \* heights surface_changed may be called with (0 included)
    MaxScreen,    \* the largest screen size the server accepts
    DefaultSize,  \* randr.width/height before any surface: 1280x800
    ServerStarts, \* server states a session may find
    Temporary,    \* "Temporary Termux:X11 resolution"
    Persistent,   \* "Termux:X11 resolution"
    Native,       \* the server's own mode
    Off,          \* no mode on the CRTC
    NoMode        \* get_id_for_mode's `end` sentinel (name_len 0)

ModeNames == {Temporary, Persistent}

\* The server's own mode is never deleted; its size is part of `modes`.
AllModes == ModeNames \cup {Native}

ASSUME /\ ((Widths \ {0}) \X (Heights \ {0})) \cup {DefaultSize, MaxScreen}
             \subseteq Sizes
       /\ 0 \notin UNION {{s[1], s[2]} : s \in Sizes}
       /\ \A s \in ServerStarts :
            s \in [screen : Sizes, crtc : ModeNames \cup {Native, Off},
                   modes : [AllModes -> Sizes \cup {NoMode}]]

VARIABLES
    conn,     \* the session exists (self.conn non-null)
    target,   \* randr.width, randr.height
    screen,   \* server: root window geometry
    crtc,     \* server: mode of the first CRTC
    modes     \* server: size of each named mode, or NoMode

vars == <<conn, target, screen, crtc, modes>>

TypeOK ==
    /\ conn \in BOOLEAN
    /\ target \in Sizes
    /\ screen \in Sizes
    /\ crtc \in ModeNames \cup {Native, Off}
    /\ modes \in [AllModes -> Sizes \cup {NoMode}]

-----------------------------------------------------------------------------
(* The server, as the RandR requests see it.  `st` is the server state     *)
(* with `ok`, FALSE once a request has failed, and `cached`, the root      *)
(* geometry update_resolution read into the setup's screen struct.         *)

Fits(a, b) == a[1] <= b[1] /\ a[2] <= b[2]

Fail(st) == [st EXCEPT !.ok = FALSE]

\* RRSetScreenSize: Value error beyond the maximum size, Match error when
\* the active CRTC's mode would not fit.
SetScreenSize(st, sz) ==
    IF Fits(sz, MaxScreen) /\ (st.crtc = Off \/ Fits(st.modes[st.crtc], sz))
    THEN [st EXCEPT !.screen = sz]
    ELSE Fail(st)

\* RRSetCrtcConfig: a mode larger than the screen is a Match error.
SetCrtc(st, n) ==
    IF n = Off \/ Fits(st.modes[n], st.screen)
    THEN [st EXCEPT !.crtc = n]
    ELSE Fail(st)

\* delete_mode: nothing when get_id_for_mode finds no mode; deleting the
\* mode the CRTC shows is refused.
DeleteMode(st, n) ==
    CASE st.modes[n] = NoMode -> st
      [] st.crtc = n          -> Fail(st)
      [] OTHER                -> [st EXCEPT !.modes[n] = NoMode]

\* create_mode: the persistent mode is deleted first if it exists; an
\* existing temporary mode is kept as it is, whatever its size.
CreateMode(st, n, t) ==
    CASE n = Temporary /\ st.modes[n] # NoMode -> st
      [] n # Temporary /\ st.modes[n] # NoMode ->
            LET d == DeleteMode(st, n)
            IN IF d.ok THEN [d EXCEPT !.modes[n] = t] ELSE d
      [] OTHER -> [st EXCEPT !.modes[n] = t]

\* Mutation of SwitchTo: no early return on get_id_for_mode's sentinel, so
\* the CRTC is set to the sentinel's mode id.
SwitchToSentinel(st, n) ==
    CASE n = Off -> SetCrtc(st, Off)
      [] st.modes[n] = NoMode -> [st EXCEPT !.crtc = NoMode]
      [] OTHER ->
            LET r == IF st.cached # st.modes[n]
                     THEN SetScreenSize(st, st.modes[n]) ELSE st
            IN IF r.ok THEN SetCrtc(r, n) ELSE r

\* switch_to_mode: a named mode that does not exist is a silent return;
\* the screen is resized first when the cached geometry differs.
SwitchTo(st, n) ==
    CASE n = Off -> SetCrtc(st, Off)
      [] st.modes[n] = NoMode -> st
      [] OTHER ->
            LET r == IF st.cached # st.modes[n]
                     THEN SetScreenSize(st, st.modes[n]) ELSE st
            IN IF r.ok THEN SetCrtc(r, n) ELSE r

\* Mutation of UpdateSteps: the output is not first switched to no mode.
UpdateStepsDirect ==
    << [op |-> "create", mode |-> Temporary],
       [op |-> "switch", mode |-> Temporary],
       [op |-> "delete", mode |-> Persistent],
       [op |-> "create", mode |-> Persistent],
       [op |-> "switch", mode |-> Persistent],
       [op |-> "delete", mode |-> Temporary] >>

\* The body of update_resolution's try-block, in order.
UpdateSteps ==
    << [op |-> "create", mode |-> Temporary],
       [op |-> "switch", mode |-> Off],
       [op |-> "switch", mode |-> Temporary],
       [op |-> "delete", mode |-> Persistent],
       [op |-> "create", mode |-> Persistent],
       [op |-> "switch", mode |-> Persistent],
       [op |-> "delete", mode |-> Temporary] >>

Step(t, st, s) ==
    IF ~st.ok THEN st
    ELSE CASE s.op = "create" -> CreateMode(st, s.mode, t)
           [] s.op = "switch" -> SwitchTo(st, s.mode)
           [] s.op = "delete" -> DeleteMode(st, s.mode)

\* update_resolution(t): nothing when the geometry already matches;
\* otherwise grab, the steps, catch, ungrab.
UpdateResolution(t) ==
    IF screen = t THEN [screen |-> screen, crtc |-> crtc, modes |-> modes]
    ELSE LET r == FoldLeft(LAMBDA st, s : Step(t, st, s),
                           [screen |-> screen, crtc |-> crtc, modes |-> modes,
                            ok |-> TRUE, cached |-> screen],
                           UpdateSteps)
         IN [screen |-> r.screen, crtc |-> r.crtc, modes |-> r.modes]

ApplyServer(r) == screen' = r.screen /\ crtc' = r.crtc /\ modes' = r.modes

-----------------------------------------------------------------------------

Init ==
    /\ conn = FALSE
    /\ target = DefaultSize
    /\ \E s \in ServerStarts :
          screen = s.screen /\ crtc = s.crtc /\ modes = s.modes

\* Mutation of surface_changed: the size is stored without `?:`.
surface_changed_raw(w, h) ==
    /\ target' = <<w, h>>
    /\ IF target # <<w, h>> /\ conn
       THEN ApplyServer(UpdateResolution(<<w, h>>))
       ELSE UNCHANGED <<screen, crtc, modes>>
    /\ UNCHANGED conn

\* surface_changed on the dispatch thread: the size is compared as passed,
\* a zero width or height keeps the stored one (`?:`), and
\* update_resolution runs with the stored size when the comparison failed.
surface_changed(w, h) ==
    LET t == <<IF w = 0 THEN target[1] ELSE w, IF h = 0 THEN target[2] ELSE h>>
    IN /\ target' = t
       /\ IF target # <<w, h>> /\ conn
          THEN ApplyServer(UpdateResolution(t))
          ELSE UNCHANGED <<screen, crtc, modes>>
       /\ UNCHANGED conn

\* adopt_connection_fd -> xcb_connection::init -> randr.init.
randr_init ==
    /\ ~conn
    /\ conn' = TRUE
    /\ ApplyServer(UpdateResolution(target))
    /\ UNCHANGED target

\* The socket hangs up; the server and its modes stay.
hangup ==
    /\ conn
    /\ conn' = FALSE
    /\ UNCHANGED <<target, screen, crtc, modes>>

Next ==
    \/ \E w \in Widths, h \in Heights : surface_changed(w, h)
    \/ randr_init
    \/ hangup

Spec == Init /\ [][Next]_vars

-----------------------------------------------------------------------------
(* Properties                                                              *)

\* The refinement mapping: the session flag, the stored request and the root
\* geometry are the abstract state; the CRTC and the named modes are hidden.
Abstract == INSTANCE ResolutionAbstract
                WITH conn <- conn, target <- target, screen <- screen,
                     Sizes <- Sizes, MaxScreen <- MaxScreen,
                     DefaultSize <- DefaultSize

\* The seven-request transition implements the promise of spec 4.7: a
\* showable size requested while connected, or stored before the session
\* started, becomes the root geometry, from whatever modes earlier sessions
\* or failed transitions left on the server.
ImplementsAbstract == Abstract!ASpec
=============================================================================
