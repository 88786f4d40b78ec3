SPECIFICATION ScenesSpec
CONSTANTS
    manual = manual  system = system  tun = tun
    g = g  t1 = t1  t2 = t2
    None = None
    Mode <- MCMode
    Works <- MCWorks
    Client = {g}
    Plain = {g}
    Guarding = {g}
    Timer = {t1, t2}
    Point = {default, lan}
    Default = default
    ListenTimer = {t1}
INVARIANTS
    
    UnconfirmedIsTakenBack
PROPERTIES
    ConfirmedStays
    GuardsSettle
