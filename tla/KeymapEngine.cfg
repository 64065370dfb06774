\* Keysym injection: layout lookups, scratch remaps, their delayed resets,
\* reloads and raw key presses in every interleaving.
CONSTANTS
    Keycodes <- MCKeycodes
    Syms <- MCSyms
    NoSym = "NoSymbol"
    Linefeed = "Linefeed"
    Return = "Return"
    Requests <- MCRequests
    Mods <- MCMods
    Shift = "Shift"
    ModMap <- MCModMap
    InitKeymap <- MCInitKeymap
    MaxResets = 3
SPECIFICATION Spec
INVARIANT TypeOK
INVARIANT InjectedKeyProducesSymbol
PROPERTY ScratchEventuallyCleared
