---------------------- MODULE MCResolutionController -----------------------
EXTENDS ResolutionController

\* Sizes in units of 400 pixels: 1280x800 rounds to <<2, 2>>.  The server
\* accepts screens up to <<3, 3>>.
MCMax == <<3, 3>>
MCDefault == <<2, 2>>
\* Every size the server can show ...
MCShowable == (1..3) \X (1..3)
\* ... and sizes wider than its maximum screen.
MCSizes == (1..4) \X (1..3)
\* Surface widths and heights, 0 for a surface narrower than 8 pixels.
MCWidths == 0..3
MCWidthsTooLarge == 0..4
MCHeights == 0..3

NoModes(native) == [n \in AllModes |-> IF n = Native THEN native ELSE NoMode]

\* The server states a session can find when no transition has failed: a
\* fresh server showing its own mode at any size, or one an earlier
\* session left on its persistent mode.  (A temporary mode is left only
\* by a failed transition; ResolutionTooLarge.cfg reaches one.)
MCServerStarts ==
    {[screen |-> z, crtc |-> Native, modes |-> NoModes(z)] : z \in MCShowable}
    \cup
    {[screen |-> p, crtc |-> Persistent,
      modes |-> [NoModes(MCDefault) EXCEPT ![Persistent] = p]] : p \in MCShowable}
=============================================================================
