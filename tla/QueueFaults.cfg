SPECIFICATION FairSpec
CONSTANTS
    Requests = {r1, r2, r3}
    Original = original
    Timeouts <- AnyTimeout
    Restarts = TRUE
 
PROPERTY EveryApplyIsAnswered
CHECK_DEADLOCK FALSE
