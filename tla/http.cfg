SPECIFICATION Spec
CONSTANTS
    CR = "CR"
    LF = "LF"
    Garbled = "garbled"
    PLAIN = {"x"}
    REQUEST_LINES <- MCRequestLines
    CONTENT_LENGTH <- MCContentLength
    METHOD_OF <- MCMethodOf
    URL_OF <- MCUrlOf
    BOUND <- MCBound
    ANSWER <- MCAnswer
    BAD_REQUEST <- MCBadRequest
    SERVER_ERROR <- MCServerError
    SEND_PACKAGE_SIZE = 2
    SCRIPTS <- MCScripts
    ACTS <- MCActs
 
INVARIANT ReceivedInOrder
PROPERTY ClosedAfterAnswer
PROPERTY ImplementsTurns
 
