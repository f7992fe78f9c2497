SPECIFICATION FairFnSpec
CONSTANTS
    Calls = {c1, c2, c3}
    None = None
    RedisConfigured = FALSE
PROPERTIES FreezeIsLifted
