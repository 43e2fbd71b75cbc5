CONSTANTS
    Monitors = {"old", "new"}
    Buttons = {"one", "two"}
    Addresses = {"exit", "home"}
    None = None
    Networks <- AllNetworks
    Scenes <- ThreeScenes
SPECIFICATION Spec
INVARIANTS WindowTypeOK LoopCanBeStopped RunningIsTrue AlertIsTrue
PROPERTIES StopIsObeyed OutageIsReported AlertIsShown ErrorIsShown WatchIsStopped
