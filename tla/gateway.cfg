CONSTANTS
    Handler = {h1, h2}
    Alice = Alice
    Bob = Bob
    Proxy = Proxy
    Address = {Alice, Bob, Proxy}
    TrustedOrigins = {Proxy}
    AllowedOrigins <- MCAllowedOrigins
    Request <- MCRequest
    Whitelist = {}
    Total <- MCTotal
    PoolSize = 2
    PendingSize = 1
    TelemetryEnabled = TRUE
    CorsEnabled = TRUE
    MaxArrivals = 2
    MaxBreak = 1
SPECIFICATION Spec
INVARIANTS BudgetIsKept PoolIsBounded OnlyListedOrigins
PROPERTIES SubscriptionIsKept UpstreamIsReleased
