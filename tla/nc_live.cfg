SPECIFICATION Spec
CONSTANTS
    CONFIGS <- MCConfigs
    HOOK_ACTS = {"throw", "send", "stop"}
    SIGNAL_STOP = FALSE
PROPERTY StopTerminates
PROPERTY StopCallReturns
PROPERTY ShutdownCompletes
PROPERTY SessionIsReplaced
PROPERTY ImplementsLifecycle
