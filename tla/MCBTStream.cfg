CONSTANTS
    MaxRequests = 3
    Timeouts = {1, 2}
    MaxTime = 3
    MaxReplies = 1
    send_after_timeout = {3}
SPECIFICATION MCSpec
CHECK_DEADLOCK FALSE
INVARIANTS AnsweredInTime NoLateSend FramesAreTrue PairsAreTrue HalvesMeet
