\* Two messages each way or an exception, one synchronous load, threads that may fail to start.
SPECIFICATION FairSpec
CONSTANTS
    MaxPosts = 2
    MaxReplies = 2
    MaxLoads = 1
    Starts = {TRUE, FALSE}
INVARIANTS TypeOK ProxyOutlivesItsUsers MessagesAccountedFor QuietWhenCollectable
PROPERTIES ToWorkerIsChannel ToPageIsChannel AskedThreadsEnd ProxiesAreDeleted
\* A worker may wait for messages for ever, and end.
CHECK_DEADLOCK FALSE
