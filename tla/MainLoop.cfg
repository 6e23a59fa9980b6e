\* Two timers, one function, one other thread. What may happen besides differs between
\* behaviours: functions called and debuggers, or SetTimer failing.
SPECIFICATION Spec
CONSTANTS
    Timers = {t1, t2}
    Functions = {f}
    Threads = {w}
    None = None
    Delays = {0, 1}
    MaxTime = 3
    MaxQueue = 2
    MaxPosts = 1
    MaxDepth = 3
    Environments = {{"calls", "debugger"}, {"failures"}}
INVARIANTS TypeOK DispatchIsScheduled SharedTimerIsSet NobodyStarves WaitersAreServed
\* The clock is bounded, and an event loop may rest.
CHECK_DEADLOCK FALSE
