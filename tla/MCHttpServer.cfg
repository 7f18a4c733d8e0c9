\* Two connections in the backlog beside the one served, so that a third client
\* waits to connect.  The process may be killed: that is an end.
SPECIFICATION Spec
CONSTANTS
    quitter = quitter
    poster = poster
    getter = getter
    babbler = babbler
    Nobody = Nobody
    Clients <- FourClients
    Quitters <- OneQuitter
    Unreadable <- OneBabbler
    HeadLen = 2
    Body <- BodyLengths
    Backlog = 2
INVARIANTS
    TypeOK
    CutShortOnlyByHangUp
PROPERTY
    Served
CHECK_DEADLOCK FALSE
