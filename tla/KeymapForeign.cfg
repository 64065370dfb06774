\* A scratch keycode bound by another X client is reused by send_keysym.
CONSTANTS
    NoSym = "NoSymbol"
    Linefeed = "Linefeed"
    Return = "Return"
    Shift = "Shift"
    MaxResets = 2
    Keycodes <- MCKeycodes
    Syms <- MCSyms
    Requests <- MCRequests
    Mods <- MCMods
    ModMap <- MCModMap
    InitKeymap <- MCInitKeymap
SPECIFICATION SpecF
INVARIANT ForeignBindingPreserved
