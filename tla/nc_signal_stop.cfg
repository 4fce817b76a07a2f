SPECIFICATION Spec
CONSTANTS
    CONFIGS <- MCConfigs
    HOOK_ACTS = {}
    SIGNAL_STOP = TRUE
INVARIANT StopNeverWaitsForItself
