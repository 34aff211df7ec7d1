SPECIFICATION Spec
CONSTANTS
    a = a
    b = b
    Channels <- MCChannels
    Start <- MCStart
    First = a
    Threads = {2}
    FirstPage = 2
    OlderPage = 1
    MaxMessages = 5
    MaxSends = 2
    MaxUpsets = 1
INVARIANTS EachOnce TempsGoAway StaysShown RepliesShown OlderReachable StaysInChannel
CHECK_DEADLOCK FALSE
