\* Ticks and loads are submitted for two groups.
CONSTANTS
    RingCap = 2
    ReplyCap = 2
    QueueCap = 3
    PollBudget = 2
    SendCap = 3
    GroupsSent = {0,1}
SPECIFICATION EndpointSpec
CHECK_DEADLOCK FALSE
INVARIANT GroupsKept
