\* Both programs; the API makes two calls, another client one that is stuck and
\* one that is not; HTTP requests may hang.
\* The process ends, and then nothing happens any more.
SPECIFICATION FairCallSpec
CONSTANTS
    Calls = {a1, a2, o1, o2}
    OwnCalls = {a1, a2}
    Stuck = {o1}
    None = None
INVARIANTS
    TypeOK
    CallTypeOK
    CleanExitDrains
    DropsExplained
    CleanExitAnswersApi
PROPERTIES
    CallsSettle
    EventuallyExits
CHECK_DEADLOCK FALSE
