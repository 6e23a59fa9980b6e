------------------------------ MODULE EventLoop ------------------------------
(***************************************************************************)
(* The main thread's event loop on Windows CE: the functions that all      *)
(* threads ask it to call (wtf/MainThread.cpp, wtf/win/MainThreadWin.cpp)  *)
(* and the timers that share one system timer (WebCore/platform/Timer.cpp, *)
(* ThreadTimers.cpp, wince*/SharedTimerWinCE.cpp).                         *)
(*                                                                         *)
(* A function or a timer that runs is a frame of the stack. It may run an  *)
(* event loop of its own (a modal dialog, the script debugger), which      *)
(* takes messages like the outer one. Handlers of other messages, such as  *)
(* input, may do all that a function may.                                  *)
(***************************************************************************)
EXTENDS Naturals, Sequences, SequencesExt, FiniteSets

CONSTANTS
    Timers,         \* TimerBase objects of the main thread
    Functions,      \* pairs of a function and its context
    Threads,        \* other threads
    None,
    Delays,         \* delays and repeat intervals of timers
    MaxTime,        \* bound: the clock
    MaxQueue,       \* bound: functions queued
    MaxPosts,       \* bound: dispatch messages posted from outside the dispatch
    MaxDepth,       \* bound: frames
    Environments    \* what may happen in a behaviour

ASSUME ConstantsAssumption ==
    /\ None \notin Threads
    /\ Delays \subseteq Nat
    /\ MaxTime \in Nat \ {0} /\ MaxQueue \in Nat /\ MaxPosts \in Nat /\ MaxDepth \in Nat
    /\ Environments \subseteq SUBSET {"calls", "debugger", "failures"}

VARIABLES
    environment, \* one of Environments: do functions get called, does a debugger
                 \* pause scripts, may SetTimer fail?
    now,        \* currentTime()
    timers,     \* the timer heap, ThreadTimers and the shared timer
    canSet,     \* would SetTimer succeed?
    functions,  \* functionQueue()
    posts,      \* dispatch messages in the thread's message queue
    paused,     \* callbacksPaused
    lock,       \* who holds mainThreadFunctionQueueMutex() for more than one step
    thread,     \* what each other thread does
    stack       \* what runs on the main thread, the innermost first

vars == <<environment, now, timers, canSet, functions, posts, paused, lock, thread, stack>>

\* A clock that never shows 0, which stands for "not active".
Start == 1

Call(f, waiter) == [function |-> f, waiter |-> waiter]
FunctionFrame(call) == [kind |-> "function", waiter |-> call.waiter]
TimerFrame(t, pass, manual) == [kind |-> "timer", timer |-> t, pass |-> pass, manual |-> manual]
LoopFrame(kind) == [kind |-> kind]

Calls == [function : Functions, waiter : Threads \cup {None}]
Frames ==
    [kind : {"function"}, waiter : Threads \cup {None}]
    \cup [kind : {"timer"}, timer : Timers, pass : Start..MaxTime, manual : BOOLEAN]
    \cup [kind : {"modal", "debugger"}]

TimerRecords ==
    [fire : [Timers -> Nat], repeat : [Timers -> Delays \cup {0}], heap : Seq(Timers),
     firing : BOOLEAN, due : Nat, id : {"none", "auto", "manual"}, user : BOOLEAN,
     passed : [Timers -> [Timers -> 0..3]]]

\* The sequence s without e. A function, so that it can be reasoned about.
Without(s, e) ==
    LET kept[i \in 0..Len(s)] ==
            IF i = 0 THEN <<>>
            ELSE IF s[i] = e THEN kept[i - 1] ELSE Append(kept[i - 1], s[i])
    IN  kept[Len(s)]

Init ==
    /\ environment \in Environments
    /\ now = Start
    /\ timers = [fire   |-> [t \in Timers |-> 0], repeat |-> [t \in Timers |-> 0],
                 heap   |-> <<>>, firing |-> FALSE, due |-> 0, id |-> "none",
                 user   |-> FALSE, passed |-> [t \in Timers |-> [u \in Timers |-> 0]]]
    /\ canSet = TRUE
    /\ functions = <<>>
    /\ posts = 0
    /\ paused = FALSE
    /\ lock = None
    /\ thread = [w \in Threads |-> "running"]
    /\ stack = <<>>

\* An event loop, not a function or a timer, is in control.
LoopInControl == stack # <<>> => Head(stack).kind \in {"modal", "debugger"}

\* Who finds the queue empty posts a message.
CanCall ==
    /\ "calls" \in environment
    /\ lock = None
    /\ Len(functions) < MaxQueue
    /\ functions = <<>> => posts < MaxPosts

-----------------------------------------------------------------------------
(* Timers. These operators map the record timers to the next one.          *)

\* Mutant: of two timers that are due together the one inserted last is first.
InsertedAfter(s, t, i) == \E j \in i..Len(s.heap) : s.heap[j] = t

InsertedBefore(s, t, i) == \E j \in 1..i : s.heap[j] = t

\* The heap's first: the earliest, and of those the one inserted first. The heap is
\* the sequence of active timers by insertion order.
First(s) ==
    CHOOSE t \in ToSet(s.heap) :
        \A i \in DOMAIN s.heap :
            \/ s.fire[t] < s.fire[s.heap[i]]
            \/ s.fire[t] = s.fire[s.heap[i]] /\ InsertedBefore(s, t, i)

IsFirst(s, t) == s.heap # <<>> /\ First(s) = t

\* stopSharedTimer(). A timer that was set before WM_USER came is not killed.
StopSharedTimer(s) ==
    [s EXCEPT !.due = IF s.id = "auto" THEN 0 ELSE @, !.id = "none"]

\* setSharedTimerFireTime(). When SetTimer fails, a message takes its place, and is
\* posted only if the timer is not in that mode.
SetSharedTimer(s, time) ==
    LET k == IF s.id = "auto" THEN StopSharedTimer(s) ELSE s IN
    IF canSet
    THEN [k EXCEPT !.due = time, !.id = "auto"]
    ELSE [k EXCEPT !.user = @ \/ k.id # "manual"]

\* updateSharedTimer()
UpdateSharedTimer(s) ==
    IF s.firing \/ s.heap = <<>> THEN StopSharedTimer(s)
    ELSE SetSharedTimer(s, s.fire[First(s)])

\* passed[t][u] counts how often u fired since t has been due (history, up to 3).
Remember(s, u) ==
    [t \in Timers |-> [v \in Timers |->
        CASE t = u -> 0
          [] t # u /\ v = u /\ s.fire[t] # 0 /\ s.fire[t] <= now /\ s.passed[t][v] < 3 -> s.passed[t][v] + 1
          [] OTHER -> s.passed[t][v]]]

Forget(s, t) == [s.passed EXCEPT ![t] = [v \in Timers |-> 0]]

\* Mutant: only a timer that was first matters.
FirstChangedBefore(s, moved, t) == IsFirst(s, t)

FirstChanged(s, moved, t) == IsFirst(s, t) \/ IsFirst(moved, t)

\* Mutant: a timer that is stopped stays in the heap.
MovedOrKept(heap, t, time) == IF time = 0 THEN heap ELSE Append(Without(heap, t), t)

\* heapInsert(), heapDelete(), heapDecreaseKey(), heapIncreaseKey()
Moved(heap, t, time) ==
    LET others == Without(heap, t) IN IF time = 0 THEN others ELSE Append(others, t)

\* setNextFireTime(): the same time again changes nothing, not even the order.
SetNextFireTime(s, t, time) ==
    IF s.fire[t] = time THEN s
    ELSE LET moved == [s EXCEPT !.fire[t] = time, !.passed = Forget(s, t), !.heap = Moved(@, t, time)]
         IN  IF FirstChanged(s, moved, t) THEN UpdateSharedTimer(moved) ELSE moved

\* When a repeating timer that fires in the pass that began at time fires next.
NextRepeat(s, t, time) == IF s.repeat[t] = 0 THEN 0 ELSE time + s.repeat[t]

\* The first timer leaves the heap, and enters it again if it repeats.
TakeFirst(s, time) ==
    LET t == First(s)
        popped == [s EXCEPT !.fire[t] = 0, !.heap = Without(@, t), !.passed = Remember(s, t)]
    IN  SetNextFireTime(popped, t, NextRepeat(s, t, time))

\* The loop of sharedTimerFiredInternal() ends; WM_USER is posted again.
EndPass(s, manual) ==
    LET e == UpdateSharedTimer([s EXCEPT !.firing = FALSE])
    IN  [e EXCEPT !.user = @ \/ manual]

ContinuePass(s, rest, time, manual) ==
    IF s.heap # <<>> /\ s.fire[First(s)] <= time
    THEN /\ timers' = TakeFirst(s, time)
         /\ stack' = <<TimerFrame(First(s), time, manual)>> \o rest
    ELSE /\ timers' = EndPass(s, manual)
         /\ stack' = rest

\* sharedTimerFired(), guarded against re-entrancy.
SharedTimerFired(s, manual) ==
    IF s.firing
    THEN /\ timers' = [s EXCEPT !.user = @ \/ manual]
         /\ UNCHANGED stack
    ELSE ContinuePass([s EXCEPT !.firing = TRUE], stack, now, manual)

\* fireTimersInNestedEventLoop()
FireInNestedLoop(s) == UpdateSharedTimer([s EXCEPT !.firing = FALSE])

\* WM_TIMER: comes after all posted messages, perhaps before anything is due (the
\* interval is cut to milliseconds) and perhaps long after.
TakeTimerMessage ==
    /\ LoopInControl
    /\ Len(stack) < MaxDepth
    /\ timers.due # 0
    /\ posts = 0 /\ ~timers.user
    /\ timers.id # "none"
    /\ SharedTimerFired(timers, FALSE)
    /\ UNCHANGED <<environment, now, canSet, functions, posts, paused, lock, thread>>

\* WM_USER: the test is an assignment, so it never fails and sets the mode.
UserMessage(s) == [s EXCEPT !.user = FALSE, !.id = "manual"]

TakeUserMessage ==
    /\ LoopInControl
    /\ Len(stack) < MaxDepth
    /\ timers.user
    /\ SharedTimerFired(UserMessage(timers), TRUE)
    /\ UNCHANGED <<environment, now, canSet, functions, posts, paused, lock, thread>>

\* fired() returns. The pass goes on, unless the timers were made to fire in a nested
\* loop or took too long.
TimerReturns ==
    /\ stack # <<>>
    /\ Head(stack).kind = "timer"
    /\ LET f == Head(stack) IN
       \/ /\ timers' = EndPass(timers, f.manual)
          /\ stack' = Tail(stack)
       \/ /\ timers.firing
          /\ ContinuePass(timers, Tail(stack), f.pass, f.manual)
    /\ UNCHANGED <<environment, now, canSet, functions, posts, paused, lock, thread>>

\* TimerBase::start(), TimerBase::stop()
StartTimer(t) ==
    /\ \E delay \in Delays, repeat \in Delays :
        timers' = SetNextFireTime([timers EXCEPT !.repeat[t] = repeat], t, now + delay)
    /\ UNCHANGED <<environment, now, canSet, functions, posts, paused, lock, thread, stack>>

StopTimer(t) ==
    /\ timers.fire[t] # 0
    /\ timers' = SetNextFireTime([timers EXCEPT !.repeat[t] = 0], t, 0)
    /\ UNCHANGED <<environment, now, canSet, functions, posts, paused, lock, thread, stack>>

-----------------------------------------------------------------------------
(* Functions.                                                              *)

\* The loop of dispatchFunctionsFromMainThread() takes the next function. The queue is
\* unlocked while it runs.
NextFunction(rest) ==
    /\ lock = None
    /\ IF functions = <<>>
       THEN stack' = rest /\ UNCHANGED functions
       ELSE /\ stack' = <<FunctionFrame(Head(functions))>> \o rest
            /\ functions' = Tail(functions)

TakeDispatchMessage ==
    /\ LoopInControl
    /\ Len(stack) < MaxDepth
    /\ posts > 0
    /\ posts' = posts - 1
    /\ IF paused THEN UNCHANGED <<functions, stack>> ELSE NextFunction(stack)
    /\ UNCHANGED <<environment, now, timers, canSet, paused, lock, thread>>

\* ThreadCondition::signal() wakes a thread only if it waits.
Signalled(waiter) ==
    [w \in Threads |-> IF w = waiter /\ thread[w] = "waiting" THEN "running" ELSE thread[w]]

\* The function returns. After 50 ms the dispatch is left to another message.
FunctionReturns ==
    /\ stack # <<>>
    /\ Head(stack).kind = "function"
    /\ thread' = Signalled(Head(stack).waiter)
    /\ \/ /\ posts' = posts + 1
          /\ stack' = Tail(stack)
          /\ UNCHANGED functions
       \/ NextFunction(Tail(stack)) /\ UNCHANGED posts
    /\ UNCHANGED <<environment, now, timers, canSet, paused, lock>>

\* callOnMainThread() on the main thread. Who finds the queue empty posts.
CallOnMainThread(f) ==
    /\ CanCall
    /\ functions' = Append(functions, Call(f, None))
    /\ posts' = IF functions = <<>> THEN posts + 1 ELSE posts
    /\ UNCHANGED <<environment, now, timers, canSet, paused, lock, thread, stack>>

\* On another thread: the queue is unlocked before the message is posted.
CallFromThread(w, f) ==
    /\ thread[w] = "running"
    /\ CanCall
    /\ functions' = Append(functions, Call(f, None))
    /\ thread' = [thread EXCEPT ![w] = IF functions = <<>> THEN "posting" ELSE @]
    /\ UNCHANGED <<environment, now, timers, canSet, posts, paused, lock, stack>>

PostFromThread(w) ==
    /\ thread[w] = "posting"
    /\ thread' = [thread EXCEPT ![w] = "running"]
    /\ posts' = posts + 1
    /\ UNCHANGED <<environment, now, timers, canSet, functions, paused, lock, stack>>

\* Mutant: the queue is unlocked before the thread waits.
Released(w) == None

\* callOnMainThreadAndWait() holds the queue's mutex until the thread waits.
KeptLock(w) == w

CallAndWait(w, f) ==
    /\ thread[w] = "running"
    /\ CanCall
    /\ functions' = Append(functions, Call(f, w))
    /\ posts' = IF functions = <<>> THEN posts + 1 ELSE posts
    /\ thread' = [thread EXCEPT ![w] = "called"]
    /\ lock' = KeptLock(w)
    /\ UNCHANGED <<environment, now, timers, canSet, paused, stack>>

WaitForSignal(w) ==
    /\ thread[w] = "called"
    /\ thread' = [thread EXCEPT ![w] = "waiting"]
    /\ lock' = None
    /\ UNCHANGED <<environment, now, timers, canSet, functions, posts, paused, stack>>

\* cancelCallOnMainThread() on the main thread. Calls that are waited for differ.
CancelCall(f) ==
    /\ lock = None
    /\ Call(f, None) \in ToSet(functions)
    /\ functions' = Without(functions, Call(f, None))
    /\ UNCHANGED <<environment, now, timers, canSet, posts, paused, lock, thread, stack>>

-----------------------------------------------------------------------------
(* Nested event loops.                                                     *)

\* An alert runs a loop in which timers do not fire if they fire now;
\* Chrome::runModal() lets them fire.
EnterModalLoop ==
    /\ Len(stack) + 1 < MaxDepth
    /\ \E fire \in BOOLEAN : timers' = IF fire THEN FireInNestedLoop(timers) ELSE timers
    /\ stack' = <<LoopFrame("modal")>> \o stack
    /\ UNCHANGED <<environment, now, canSet, functions, posts, paused, lock, thread>>

LeaveModalLoop ==
    /\ stack # <<>>
    /\ Head(stack).kind = "modal"
    /\ stack' = Tail(stack)
    /\ UNCHANGED <<environment, now, timers, canSet, functions, posts, paused, lock, thread>>

\* ScriptDebugServer::pauseIfNeeded(), with setMainThreadCallbacksPaused().
EnterDebugger ==
    /\ "debugger" \in environment
    /\ ~paused
    /\ posts < MaxPosts
    /\ Len(stack) + 1 < MaxDepth
    /\ paused' = TRUE
    /\ timers' = FireInNestedLoop(timers)
    /\ stack' = <<LoopFrame("debugger")>> \o stack
    /\ UNCHANGED <<environment, now, canSet, functions, posts, lock, thread>>

\* Mutant: nobody is told.
PostsNothing == 0

PostsOfUnpause == 1

LeaveDebugger ==
    /\ stack # <<>>
    /\ Head(stack).kind = "debugger"
    /\ paused' = FALSE
    /\ posts' = posts + PostsOfUnpause
    /\ stack' = Tail(stack)
    /\ UNCHANGED <<environment, now, timers, canSet, functions, lock, thread>>

-----------------------------------------------------------------------------

Tick ==
    /\ now < MaxTime
    /\ now' = now + 1
    /\ UNCHANGED <<environment, timers, canSet, functions, posts, paused, lock, thread, stack>>

\* The system runs out of timers, or has some again.
SystemTimers ==
    /\ "failures" \in environment
    /\ canSet' = ~canSet
    /\ UNCHANGED <<environment, now, timers, functions, posts, paused, lock, thread, stack>>

Code ==
    \/ \E t \in Timers : StartTimer(t) \/ StopTimer(t)
    \/ \E f \in Functions : CallOnMainThread(f) \/ CancelCall(f)
    \/ EnterModalLoop \/ EnterDebugger

Loop == TakeTimerMessage \/ TakeUserMessage \/ TakeDispatchMessage

Return == TimerReturns \/ FunctionReturns

OtherThread(w) ==
    \/ \E f \in Functions : CallFromThread(w, f) \/ CallAndWait(w, f)
    \/ PostFromThread(w) \/ WaitForSignal(w)

Next ==
    \/ Code \/ Loop \/ Return \/ LeaveModalLoop \/ LeaveDebugger
    \/ \E w \in Threads : OtherThread(w)
    \/ Tick \/ SystemTimers

Spec == Init /\ [][Next]_vars

-----------------------------------------------------------------------------
(* Properties.                                                             *)

\* The type of the state.
TypeOK ==
    /\ environment \in Environments
    /\ now \in Start..MaxTime
    /\ timers \in TimerRecords
    /\ {t \in Timers : timers.fire[t] # 0} = ToSet(timers.heap)
    /\ IsInjective(timers.heap)
    /\ canSet \in BOOLEAN
    /\ functions \in Seq(Calls)
    /\ posts \in Nat
    /\ paused \in BOOLEAN
    /\ lock \in Threads \cup {None}
    /\ thread \in [Threads -> {"running", "posting", "called", "waiting"}]
    /\ stack \in Seq(Frames)

\* No lost dispatch: functions that are queued have a message that will run them, or a
\* dispatch under way that will look again, unless callbacks are paused. Each caller
\* relies on whoever found the queue empty, and unpausing on nobody having posted.
DispatchIsScheduled ==
    functions # <<>> /\ ~paused =>
        \/ posts > 0
        \/ \E i \in DOMAIN stack : stack[i].kind = "function"
        \/ \E w \in Threads : thread[w] = "posting"

\* The shared timer is set for the first timer of the heap, whatever timers that fire do
\* to the heap; while it is not, a pass is under way that will set it again.
SharedTimerIsSet ==
    LET Passes(manual) == \E i \in DOMAIN stack : stack[i].kind = "timer" /\ (manual => stack[i].manual)
    IN  timers.heap # <<>> =>
            IF timers.firing THEN Passes(FALSE)
            ELSE \/ timers.id # "none" /\ timers.due \in 1..timers.fire[First(timers)]
                 \/ timers.user
                 \/ Passes(TRUE)

\* No timer starves another: while a timer is due, any other fires at most twice, however
\* often it repeats or is started again by what fires.
NobodyStarves == \A t \in Timers, u \in Timers : timers.passed[t][u] <= 2

\* No lost signal: a thread that waits for a call, or is about to, is waited for: its call
\* is queued or runs, and nobody cancels it or signals too early.
WaitersAreServed ==
    \A w \in Threads : thread[w] \in {"called", "waiting"} =>
        \/ \E i \in DOMAIN functions : functions[i].waiter = w
        \/ \E i \in DOMAIN stack : stack[i].kind = "function" /\ stack[i].waiter = w
=============================================================================
