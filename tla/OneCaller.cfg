CONSTANTS
    Threads = {"cli"}
    None = None
    Machines <- OneCaller
SPECIFICATION FairSpec
INVARIANTS TypeOK TorFlagIsTrue ProxyFlagIsTrue GatewayFlagIsTrue V6FlagIsTrue AllOrNothing RedirectsAreServed ChecksAreEvidence
PROPERTIES TrueMeansApplied StopIsHeard
