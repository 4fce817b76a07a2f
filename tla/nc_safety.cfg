SPECIFICATION Spec
CONSTANTS
    CONFIGS <- MCConfigs
    HOOK_ACTS = {"throw", "live", "send", "asyncSend", "timer", "close", "stop", "newAccept", "noBuffer"}
    SIGNAL_STOP = FALSE
INVARIANT TypeOK
INVARIANT StopIsNotLost
INVARIANT SessionHasResources
INVARIANT HooksPaired
INVARIANT StatusMatchesMessage
PROPERTY NoDataAfterStop
