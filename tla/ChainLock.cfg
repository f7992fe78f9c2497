SPECIFICATION FairSpec
CONSTANTS
    Calls = {c1, c2, c3, c4, c5}
    None = None
    RedisConfigured = TRUE
INVARIANTS OneInside ZombieFenced
PROPERTIES FenceOpensOnFreshTail EveryCallIsAnswered
