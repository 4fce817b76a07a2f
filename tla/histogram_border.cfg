SPECIFICATION ContrastSpec
CONSTANTS
    LOCAL_SIZES <- MCLocalSizes
    WINDOWS = {1, 2, 3, 4, 5}
    COLORS = 6
    COUNTS = {0, 1, 2}
    RUN = 1
    EDGE = 1
    STEEP = 1
    THRESHOLDS = {0, 1, 2}
    PART = 2
    CLIPS <- MCClips
CHECK_DEADLOCK FALSE
INVARIANT LocalHistogramIsMirrored
