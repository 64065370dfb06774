\* Liveness of the damage, cursor and clipboard paths of connection_poll_func
\* against the platform callbacks and the X server.
CONSTANTS
    w1 = w1
    k1 = k1
    t1 = t1
    Wins <- MCWins
    CurWins <- MCCurWins
    Texts <- MCTexts
    NoWin = NoWin
    Refuser = Refuser
    NoOwner = NoOwner
    None = None
    MaxEvents = 2
    MaxTasks = 1
    DamageFirstEvent = 91
    FixesFirstEvent = 87
    XkbFirstEvent = 85
SPECIFICATION Spec
PROPERTY ScreenEventuallyFresh
PROPERTY CursorEventuallyShown
PROPERTY ClipboardEventuallySynced
