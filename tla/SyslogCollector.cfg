SPECIFICATION FairSpec
CONSTANTS
    m1 = m1
    m2 = m2
    m3 = m3
    None = None
    Messages <- ThreeMessages
    Datagrams <- OneDatagram
    Limits <- OnlyTwo
    MaxSessions = 2
INVARIANTS
    Accounted
    WhereMessagesVanish
PROPERTY     QueuedIsDrained
CHECK_DEADLOCK FALSE
