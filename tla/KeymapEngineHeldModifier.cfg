\* The modifier property alone: a held Shift across an injection that asks
\* for Shift.
CONSTANTS
    Keycodes <- MCKeycodes
    Syms <- MCSyms
    NoSym = "NoSymbol"
    Linefeed = "Linefeed"
    Return = "Return"
    Requests <- MCRequests
    Mods <- MCMods
    Shift = "Shift"
    ModMap <- MCModMap
    InitKeymap <- MCInitKeymap
    MaxResets = 2
SPECIFICATION Spec
INVARIANT HeldModifierSurvivesInjection
