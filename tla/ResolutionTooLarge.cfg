\* One request beyond the maximum screen size, then showable ones.
CONSTANTS
    Sizes <- MCSizes
    Widths <- MCWidthsTooLarge
    Heights <- MCHeights
    MaxScreen <- MCMax
    DefaultSize <- MCDefault
    ServerStarts <- MCServerStarts
    Temporary = Temporary
    Persistent = Persistent
    Native = Native
    Off = Off
    NoMode = NoMode
SPECIFICATION Spec
PROPERTY ImplementsAbstract
