\* Two requests, a credential with a pool of two models, the configuration reloaded
\* at any time; one retry round, the credits fallback on.
SPECIFICATION Spec
CONSTANTS
    Requests = {r1, r2}
    a1 = a1
    a2 = a2
    codex = codex
    antigravity = antigravity
    Providers = {antigravity}
    Auths = {a1}
    ProviderOf <- OneAuth
    Antigravity = antigravity
    CreditsFallback = TRUE
    MaxRetry = 1
    MaxCredentials = 0
    PoolSize = 2
    Limiters = {l1, l2, l3}
    Limits = {0, 1, 2}
    Nil = Nil
SYMMETRY MCSymmetry
INVARIANTS PermitSpansCall ResultRecordedOnce PermitAccounting
PROPERTIES SlotSpec
