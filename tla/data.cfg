SPECIFICATION Spec
CONSTANTS
    NUMBERS = {1, 2, 3}
    SET_SIZES = {2, 3, 5, 6}
    MAX_PUSHED = 5
    CACHED_VEC_MAX_SIZE = 4
    CACHED_VEC_MAX_CACHE = 2
    MAX_ADDED = 6
    VERTEX_LISTS <- MCVertexLists
    MAX_WEIGHT = 3
    UPDATERS = {"t1", "t2"}
    DESCRIPTORS = {"c", "u"}
    TYPE_OF <- MCTypeOf
    WIDTH = 4
    STEPS = {1}
    HIGH_THRESHOLD = 1
    MAX_TOTAL = 6
    FILES <- MCFiles
    UNTERMINATED = {"short", "two", "main"}
    MAIN_FILES = {"main", "short", "leaf", "one"}
    MAX_READS = 2
    SIZES = {"s1", "s2"}
    MAX_FRAMES = 2
    LOGGING = {"l1", "l2"}
    LOG_LEVELS = {"STATE"}
    LOG_CUSTOM = {"custom"}
    LOG_MASKS <- MCLogMasks
    LOG_ROTATE_SIZE = 2
    MAX_LOGGED = 3
    VIDEOS <- MCVideos
    PHOTO_PATHS <- MCPhotoPaths
    PHOTOS <- MCPhotos
    SEEKS = {0, 1, 2}
    STREAMS <- MCStreams
    MAX_STREAMS = 3
    PICTURES = {"i1", "i2"}
    DELAYS = {0, 1, 2}
    MAX_WRITTEN = 5
    IMAGE_SIZES <- MCImageSizes
    CH = 2
    KSIZE = 2
    HALF = 1
    BINS = 2
    DST_CH = 3
    MASK_WIDTH = 3
    MASK_HEIGHT = 2
    MASKS <- MCMasks
    SHADES <- MCShades
    MIN_SIZES = {0, 3}
    GAPS = {1, 2}
    LOCAL_SIZES <- MCLocalSizes
    WINDOWS = {1, 2, 3, 4, 5}
    COLORS = 6
    COUNTS = {0, 1, 2}
    RUN = 1
    EDGE = 1
    STEEP = 1
    THRESHOLDS = {0, 1, 2}
    PART = 2
    CLIPS <- MCClips
    MAX_WIDTH = 3
    MAX_HEIGHT = 3
    LIT_CHANNELS = {0, 8, 9}
    JUNK = 7
    SERVED <- MCServed
    MAX_REQUESTS = 3
CHECK_DEADLOCK FALSE
INVARIANT MedianIsExact
INVARIANT SampleIsTheOneAdded
INVARIANT LookupFindsEdge
INVARIANT NoUpdateIsLost
INVARIANT IncludesAreInlined
INVARIANT ImagesAreCurrent
INVARIANT LogFileIsComplete
 
 
 
 
INVARIANT IntegralIsExact
 
