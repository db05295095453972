SPECIFICATION FairSpec
CONSTANTS
    Messages = {m1}
    Nobody = nobody
    MaxRetries = 2
    PhoneRetries = 1
    MaxNodes = 3
INVARIANTS AnsweredOnce OneRequest
PROPERTIES NodeHandled
CHECK_DEADLOCK FALSE
