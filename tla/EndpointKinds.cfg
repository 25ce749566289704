\* Commands of every kind share the mailbox of the kernel's endpoint.
CONSTANTS
    RingCap = 2
    ReplyCap = 2
    QueueCap = 3
    PollBudget = 2
    SendCap = 3
    GroupsSent = {0}
SPECIFICATION EndpointSpec
CHECK_DEADLOCK FALSE
PROPERTY CoalescedSameKind
