\* Liveness and the in-flight bound under one configuration: two requests,
\* two credentials of one provider of which a round may try one, one retry round.
SPECIFICATION StableSpec
CHECK_DEADLOCK FALSE
CONSTANTS
    Requests = {r1, r2}
    a1 = a1
    a2 = a2
    codex = codex
    antigravity = antigravity
    Providers = {antigravity}
    Auths = {a1, a2}
    ProviderOf <- BothAntigravity
    Antigravity = antigravity
    CreditsFallback = FALSE
    MaxRetry = 1
    MaxCredentials = 1
    PoolSize = 1
    Limiters = {l1, l2}
    Limits = {1}
    Nil = Nil
INVARIANTS InFlightWithinLimit
PROPERTIES Answered
