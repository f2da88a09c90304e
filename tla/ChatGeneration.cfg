\* Two concurrent requests: one late failure can follow the one that opens the
\* breaker.  No symmetry, because of the liveness property.
SPECIFICATION FairSpec
CONSTANTS
    anthropic = anthropic
    bedrock = bedrock
    w1 = w1
    w2 = w2
    Providers <- MCProviders
    FallbackOrder <- MCFallbackOrder
    CrossProviderDisabled <- MCCrossProviderDisabled
    Workers = {w1, w2}
    Threshold = 2
    Cooldown = 2
INVARIANTS BreakerConsistent FailuresBounded FallbackJustified NoCrossProviderLeak
PROPERTY CircuitReadmits
