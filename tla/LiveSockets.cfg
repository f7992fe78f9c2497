SPECIFICATION Spec
CONSTANTS
    Sessions = {s1}
    Sockets = {k1}
    Http = Http
    MaxUnauth = 1
    None = None
INVARIANTS RevokedIsRefused ConnectionsAreKept
PROPERTIES UnfitSocketsClose RoomNeedsRole
CHECK_DEADLOCK FALSE
