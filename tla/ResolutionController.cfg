\* Resolution transitions for sizes the server can show, from fresh and
\* left-over server states, across reconnects.
CONSTANTS
    Sizes <- MCSizes
    Widths <- MCWidths
    Heights <- MCHeights
    MaxScreen <- MCMax
    DefaultSize <- MCDefault
    ServerStarts <- MCServerStarts
    Temporary = Temporary
    Persistent = Persistent
    Native = Native
    Off = Off
    NoMode = NoMode
SPECIFICATION Spec
INVARIANT TypeOK
PROPERTY ImplementsAbstract
