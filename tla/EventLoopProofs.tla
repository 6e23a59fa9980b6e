---------------------------- MODULE EventLoopProofs ----------------------------
(***************************************************************************)
(* Proofs about EventLoop, for any number of timers, threads, functions,   *)
(* and nested event loops: functions that are queued are going to be       *)
(* dispatched, the shared timer is set for the first timer of the heap, no *)
(* timer starves another, and who waits for a call is waited for.          *)
(*                                                                         *)
(* Properties of sequences that recursion defines are proved by taking the *)
(* least index at which they fail: the naturals are well-founded.          *)
(***************************************************************************)
EXTENDS EventLoop, SequenceTheorems, WellFoundedInduction, TLAPS

(***************************************************************************)
(* Functions that run are frames of the stack.                             *)
(***************************************************************************)
Runs(s) == \E i \in DOMAIN s : s[i].kind = "function"

LEMMA PushRuns ==
    ASSUME NEW S, NEW s \in Seq(S), NEW f
    PROVE  /\ <<f>> \o s \in Seq(S \cup {f})
           /\ f.kind = "function" => Runs(<<f>> \o s)
           /\ Runs(s) => Runs(<<f>> \o s)
<1> DEFINE T == S \cup {f}
           t == <<f>> \o s
<1>1. <<f>> \in Seq(T) /\ Len(<<f>>) = 1 /\ <<f>>[1] = f
  OBVIOUS
<1>2. s \in Seq(T) /\ Len(s) \in Nat /\ DOMAIN s = 1..Len(s)
  OBVIOUS
<1>3. /\ t \in Seq(T) /\ Len(t) = 1 + Len(s)
      /\ \A i \in 1..(1 + Len(s)) : t[i] = IF i <= 1 THEN <<f>>[i] ELSE s[i - 1]
  <2> HIDE DEF T
  <2> QED  BY <1>1, <1>2, ConcatProperties
<1>4. DOMAIN t = 1..(1 + Len(s))
  BY <1>3
<1>5. t[1] = f /\ 1 \in DOMAIN t
  BY <1>1, <1>2, <1>3, <1>4
<1>6. ASSUME NEW i \in DOMAIN s PROVE i + 1 \in DOMAIN t /\ t[i + 1] = s[i]
  <2>1. i + 1 \in 1..(1 + Len(s)) /\ ~(i + 1 <= 1) /\ (i + 1) - 1 = i
    BY <1>2
  <2> QED  BY <1>3, <1>4, <2>1
<1> HIDE DEF T, t
<1> QED  BY <1>3, <1>5, <1>6 DEF Runs, T, t

LEMMA PopRuns ==
    ASSUME NEW S, NEW s \in Seq(S), s # <<>>
    PROVE  /\ Tail(s) \in Seq(S)
           /\ Head(s).kind # "function" /\ Runs(s) => Runs(Tail(s))
<1>1. /\ Tail(s) \in Seq(S) /\ Head(s) = s[1]
      /\ Len(s) \in Nat \ {0} /\ Len(Tail(s)) = Len(s) - 1
      /\ \A i \in 1..(Len(s) - 1) : Tail(s)[i] = s[i + 1]
  BY HeadTailProperties
<1>2. DOMAIN s = 1..Len(s) /\ DOMAIN Tail(s) = 1..(Len(s) - 1)
  BY <1>1
<1>3. ASSUME NEW i \in DOMAIN s, i # 1
      PROVE  i - 1 \in DOMAIN Tail(s) /\ Tail(s)[i - 1] = s[i]
  <2>1. i - 1 \in 1..(Len(s) - 1) /\ (i - 1) + 1 = i
    BY <1>1, <1>2, <1>3
  <2> QED  BY <1>1, <1>2, <2>1
<1> QED  BY <1>1, <1>3 DEF Runs

(***************************************************************************)
(* The inductive invariant. The frames are of no interest, only that they  *)
(* are a sequence.                                                         *)
(***************************************************************************)
StackIsSequence == \E S : stack \in Seq(S)

Posting == \E w \in Threads : thread[w] = "posting"

Scheduled == functions # <<>> /\ ~paused => posts > 0 \/ Runs(stack) \/ Posting

DispatchInv ==
    /\ posts \in Nat
    /\ thread \in [Threads -> {"running", "posting", "called", "waiting"}]
    /\ StackIsSequence
    /\ Scheduled

\* The dispatch loop takes the next function, or finds the queue empty.
LEMMA NextFunctionSchedules ==
    ASSUME NEW S, NEW rest \in Seq(S), NextFunction(rest)
    PROVE  StackIsSequence' /\ (functions' # <<>> => Runs(stack'))
<1>1. CASE functions = <<>>
  BY <1>1 DEF NextFunction, StackIsSequence
<1>2. CASE functions # <<>>
  <2> DEFINE f == FunctionFrame(Head(functions))
  <2>1. f.kind = "function" /\ stack' = <<f>> \o rest
    BY <1>2 DEF NextFunction, FunctionFrame
  <2> HIDE DEF f
  <2> QED  BY <2>1, PushRuns DEF StackIsSequence
<1> QED  BY <1>1, <1>2

\* A step that keeps what runs and what was posted, and adds no functions.
LEMMA StackMoves ==
    ASSUME DispatchInv, StackIsSequence', Runs(stack) => Runs(stack'),
           UNCHANGED <<functions, posts, paused, thread>>
    PROVE  DispatchInv'
BY DEF DispatchInv, Scheduled, Posting

LEMMA PushKeeps ==
    ASSUME DispatchInv, NEW f, stack' = <<f>> \o stack
    PROVE  StackIsSequence' /\ (Runs(stack) => Runs(stack'))
BY PushRuns DEF DispatchInv, StackIsSequence

LEMMA PopKeeps ==
    ASSUME DispatchInv, stack # <<>>, Head(stack).kind # "function", stack' = Tail(stack)
    PROVE  StackIsSequence' /\ (Runs(stack) => Runs(stack'))
BY PopRuns DEF DispatchInv, StackIsSequence

(***************************************************************************)
(* Timers.                                                                 *)
(***************************************************************************)
LEMMA TimerPasses ==
    ASSUME DispatchInv, NEW s, NEW rest, NEW time, NEW manual, NEW S, rest \in Seq(S),
           Runs(stack) => Runs(rest), ContinuePass(s, rest, time, manual)
    PROVE  StackIsSequence' /\ (Runs(stack) => Runs(stack'))
<1>1. CASE stack' = rest
  BY <1>1 DEF StackIsSequence
<1>2. CASE stack' = <<TimerFrame(First(s), time, manual)>> \o rest
  <2> DEFINE f == TimerFrame(First(s), time, manual)
  <2>1. stack' = <<f>> \o rest
    BY <1>2
  <2> HIDE DEF f
  <2> QED  BY <2>1, PushRuns DEF StackIsSequence
<1> QED  BY <1>1, <1>2 DEF ContinuePass

LEMMA TimersKeep ==
    ASSUME DispatchInv, TakeTimerMessage \/ TakeUserMessage \/ TimerReturns
    PROVE  DispatchInv'
<1>0. PICK S : stack \in Seq(S)
  BY DEF DispatchInv, StackIsSequence
<1>1. UNCHANGED <<functions, posts, paused, thread>>
  BY DEF TakeTimerMessage, TakeUserMessage, TimerReturns
<1>2. CASE TakeTimerMessage \/ TakeUserMessage
  <2>1. PICK s, manual : SharedTimerFired(s, manual)
    BY <1>2 DEF TakeTimerMessage, TakeUserMessage
  <2>2. stack' = stack \/ \E t : ContinuePass(t, stack, now, manual)
    BY <2>1 DEF SharedTimerFired
  <2>3. StackIsSequence' /\ (Runs(stack) => Runs(stack'))
    BY <1>0, <2>2, TimerPasses DEF StackIsSequence
  <2> QED  BY <1>1, <2>3, StackMoves
<1>3. CASE TimerReturns
  <2>1. Tail(stack) \in Seq(S) /\ (Runs(stack) => Runs(Tail(stack)))
    BY <1>0, <1>3, PopRuns DEF TimerReturns
  <2>2. \/ stack' = Tail(stack)
        \/ \E time, manual : ContinuePass(timers, Tail(stack), time, manual)
    BY <1>3 DEF TimerReturns
  <2>3. StackIsSequence' /\ (Runs(stack) => Runs(stack'))
    BY <2>1, <2>2, TimerPasses DEF StackIsSequence
  <2> QED  BY <1>1, <2>3, StackMoves
<1> QED  BY <1>2, <1>3

(***************************************************************************)
(* Functions.                                                              *)
(***************************************************************************)
LEMMA DispatchKeeps ==
    ASSUME DispatchInv, TakeDispatchMessage PROVE DispatchInv'
<1>0. PICK S : stack \in Seq(S)
  BY DEF DispatchInv, StackIsSequence
<1>1. posts' \in Nat /\ UNCHANGED <<paused, thread>>
  BY DEF TakeDispatchMessage, DispatchInv
<1>2. CASE paused
  BY <1>1, <1>2 DEF TakeDispatchMessage, DispatchInv, Scheduled, StackIsSequence
<1>3. CASE ~paused
  <2>1. StackIsSequence' /\ (functions' # <<>> => Runs(stack'))
    BY <1>0, <1>3, NextFunctionSchedules DEF TakeDispatchMessage
  <2> QED  BY <1>1, <2>1 DEF DispatchInv, Scheduled
<1> QED  BY <1>2, <1>3

LEMMA ReturnKeeps ==
    ASSUME DispatchInv, FunctionReturns PROVE DispatchInv'
<1>0. PICK S : stack \in Seq(S)
  BY DEF DispatchInv, StackIsSequence
<1>1. Tail(stack) \in Seq(S)
  BY <1>0, PopRuns DEF FunctionReturns
<1>2. thread' \in [Threads -> {"running", "posting", "called", "waiting"}]
  BY DEF FunctionReturns, Signalled, DispatchInv
<1>3. CASE posts' = posts + 1 /\ stack' = Tail(stack)
  <2>1. posts' \in Nat /\ posts' > 0
    BY <1>3 DEF DispatchInv
  <2> QED  BY <1>1, <1>2, <1>3, <2>1 DEF DispatchInv, Scheduled, StackIsSequence
<1>4. CASE NextFunction(Tail(stack)) /\ posts' = posts
  <2>1. StackIsSequence' /\ (functions' # <<>> => Runs(stack'))
    BY <1>1, <1>4, NextFunctionSchedules
  <2> QED  BY <1>2, <1>4, <2>1 DEF DispatchInv, Scheduled
<1> QED  BY <1>3, <1>4 DEF FunctionReturns

\* Who adds to an empty queue posts, or is about to; the others rely on it.
LEMMA CallsKeep ==
    ASSUME DispatchInv, NEW f \in Functions,
           CallOnMainThread(f) \/ CancelCall(f)
           \/ \E w \in Threads : CallFromThread(w, f) \/ CallAndWait(w, f)
    PROVE  DispatchInv'
<1>0. posts \in Nat /\ thread \in [Threads -> {"running", "posting", "called", "waiting"}]
  BY DEF DispatchInv
<1>1. stack' = stack /\ paused' = paused /\ StackIsSequence'
  BY DEF CallOnMainThread, CancelCall, CallFromThread, CallAndWait, DispatchInv, StackIsSequence
<1>2. CASE CallOnMainThread(f)
  BY <1>0, <1>1, <1>2 DEF CallOnMainThread, DispatchInv, Scheduled, Posting
<1>3. CASE CancelCall(f)
  <2>1. functions # <<>>
    BY <1>3 DEF CancelCall, ToSet
  <2> QED  BY <1>0, <1>1, <1>3, <2>1 DEF CancelCall, DispatchInv, Scheduled, Posting
<1>4. ASSUME NEW w \in Threads, CallFromThread(w, f) PROVE DispatchInv'
  <2>1. thread' = [thread EXCEPT ![w] = IF functions = <<>> THEN "posting" ELSE @]
    BY <1>4 DEF CallFromThread
  <2>2. thread' \in [Threads -> {"running", "posting", "called", "waiting"}]
    BY <1>0, <2>1
  <2>3. Posting \/ functions = <<>> => Posting'
    BY <1>0, <2>1 DEF Posting
  <2> QED  BY <1>0, <1>1, <1>4, <2>2, <2>3 DEF CallFromThread, DispatchInv, Scheduled
<1>5. ASSUME NEW w \in Threads, CallAndWait(w, f) PROVE DispatchInv'
  <2>1. thread' = [thread EXCEPT ![w] = "called"] /\ thread[w] = "running"
    BY <1>5 DEF CallAndWait
  <2>2. thread' \in [Threads -> {"running", "posting", "called", "waiting"}]
    BY <1>0, <2>1
  <2>3. Posting => Posting'
    BY <1>0, <2>1 DEF Posting
  <2>4. posts' \in Nat /\ (posts > 0 \/ functions = <<>> => posts' > 0)
    BY <1>0, <1>5 DEF CallAndWait
  <2> QED  BY <1>1, <2>2, <2>3, <2>4 DEF DispatchInv, Scheduled
<1> QED  BY <1>2, <1>3, <1>4, <1>5

LEMMA ThreadsKeep ==
    ASSUME DispatchInv, NEW w \in Threads, PostFromThread(w) \/ WaitForSignal(w)
    PROVE  DispatchInv'
<1>0. posts \in Nat /\ thread \in [Threads -> {"running", "posting", "called", "waiting"}]
  BY DEF DispatchInv
<1>1. stack' = stack /\ paused' = paused /\ functions' = functions /\ StackIsSequence'
  BY DEF PostFromThread, WaitForSignal, DispatchInv, StackIsSequence
<1>2. CASE PostFromThread(w)
  <2>1. posts' \in Nat /\ posts' > 0
    BY <1>0, <1>2 DEF PostFromThread
  <2>2. thread' \in [Threads -> {"running", "posting", "called", "waiting"}]
    BY <1>0, <1>2 DEF PostFromThread
  <2> QED  BY <1>1, <2>1, <2>2 DEF DispatchInv, Scheduled
<1>3. CASE WaitForSignal(w)
  <2>1. thread' = [thread EXCEPT ![w] = "waiting"] /\ thread[w] = "called" /\ posts' = posts
    BY <1>3 DEF WaitForSignal
  <2>2. thread' \in [Threads -> {"running", "posting", "called", "waiting"}]
    BY <1>0, <2>1
  <2>3. Posting => Posting'
    BY <1>0, <2>1 DEF Posting
  <2> QED  BY <1>1, <2>1, <2>2, <2>3 DEF DispatchInv, Scheduled
<1> QED  BY <1>2, <1>3

(***************************************************************************)
(* Nested event loops.                                                     *)
(***************************************************************************)
LEMMA LoopsKeep ==
    ASSUME DispatchInv, EnterModalLoop \/ LeaveModalLoop \/ EnterDebugger \/ LeaveDebugger
    PROVE  DispatchInv'
<1>1. CASE EnterModalLoop
  <2>1. stack' = <<LoopFrame("modal")>> \o stack /\ UNCHANGED <<functions, posts, paused, thread>>
    BY <1>1 DEF EnterModalLoop
  <2> QED  BY <2>1, PushKeeps, StackMoves
<1>2. CASE LeaveModalLoop
  <2>1. /\ stack # <<>> /\ Head(stack).kind # "function" /\ stack' = Tail(stack)
        /\ UNCHANGED <<functions, posts, paused, thread>>
    BY <1>2 DEF LeaveModalLoop
  <2> QED  BY <2>1, PopKeeps, StackMoves
<1>3. CASE EnterDebugger
  <2>1. /\ stack' = <<LoopFrame("debugger")>> \o stack /\ paused'
        /\ UNCHANGED <<posts, thread>>
    BY <1>3 DEF EnterDebugger
  <2> QED  BY <2>1, PushKeeps DEF DispatchInv, Scheduled
<1>4. CASE LeaveDebugger
  <2>1. /\ stack # <<>> /\ Head(stack).kind # "function" /\ stack' = Tail(stack)
        /\ posts' = posts + 1 /\ thread' = thread
    BY <1>4 DEF LeaveDebugger, PostsOfUnpause
  <2>2. posts' \in Nat /\ posts' > 0
    BY <2>1 DEF DispatchInv
  <2> QED  BY <2>1, <2>2, PopKeeps DEF DispatchInv, Scheduled
<1> QED  BY <1>1, <1>2, <1>3, <1>4

LEMMA DispatchNext == DispatchInv /\ [Next]_vars => DispatchInv'
<1> SUFFICES ASSUME DispatchInv, [Next]_vars PROVE DispatchInv'
  OBVIOUS
<1>1. CASE (\E t \in Timers : StartTimer(t) \/ StopTimer(t)) \/ Tick \/ SystemTimers \/ UNCHANGED vars
  <2>1. UNCHANGED <<functions, posts, paused, thread, stack>>
    BY <1>1 DEF StartTimer, StopTimer, Tick, SystemTimers, vars
  <2>2. StackIsSequence'
    BY <2>1 DEF DispatchInv, StackIsSequence
  <2> QED  BY <2>1, <2>2, StackMoves
<1>2. CASE \E f \in Functions : CallOnMainThread(f) \/ CancelCall(f)
  BY <1>2, CallsKeep
<1>3. CASE EnterModalLoop \/ EnterDebugger \/ LeaveModalLoop \/ LeaveDebugger
  BY <1>3, LoopsKeep
<1>4. CASE Loop \/ Return
  BY <1>4, TimersKeep, DispatchKeeps, ReturnKeeps DEF Loop, Return
<1>5. ASSUME NEW w \in Threads, OtherThread(w) PROVE DispatchInv'
  BY <1>5, CallsKeep, ThreadsKeep DEF OtherThread
<1> QED  BY <1>1, <1>2, <1>3, <1>4, <1>5 DEF Next, Code

(***************************************************************************)
(* Functions that are queued have a message that will run them, a dispatch *)
(* under way that will look again, or a caller that is about to post,      *)
(* unless callbacks are paused (callOnMainThread,                          *)
(* dispatchFunctionsFromMainThread, setMainThreadCallbacksPaused).         *)
(***************************************************************************)
THEOREM QueueIsDispatched == Spec => []DispatchIsScheduled
<1>1. Init => DispatchInv
  <2> SUFFICES ASSUME Init PROVE DispatchInv
    OBVIOUS
  <2>1. <<>> \in Seq({})
    OBVIOUS
  <2> QED  BY <2>1 DEF Init, DispatchInv, StackIsSequence, Scheduled
<1>2. DispatchInv => DispatchIsScheduled
  BY DEF DispatchInv, Scheduled, Runs, Posting, DispatchIsScheduled
<1> QED  BY <1>1, <1>2, DispatchNext, PTL DEF Spec

(***************************************************************************)
(* Sequences without repetitions, by which element precedes which.         *)
(***************************************************************************)
LEMMA LeastNumber ==
    ASSUME NEW T, T \subseteq Nat, T # {}
    PROVE  \E n \in T : \A m \in T : n <= m
<1> DEFINE R == {ss \in Nat \X Nat : ss[1] < ss[2]}
<1>1. IsWellFoundedOn(R, Nat)
  BY NatLessThanWellFounded DEF OpToRel
<1>2. \A m, n \in Nat : m < n => <<m, n>> \in R
  OBVIOUS
<1> HIDE DEF R
<1>3. PICK n \in T : \A m \in T : <<m, n>> \notin R
  BY <1>1, WFMin
<1>4. ASSUME NEW m \in T PROVE n <= m
  <2>1. ~(m < n)
    BY <1>2, <1>3, Zenon
  <2> QED  BY <2>1
<1> QED  BY <1>4

Precedes(s, x, y) == \E i, j \in DOMAIN s : i < j /\ s[i] = x /\ s[j] = y

LEMMA Appended ==
    ASSUME NEW S, NEW s \in Seq(S), NEW e \in S
    PROVE  /\ Append(s, e) \in Seq(S)
           /\ ToSet(Append(s, e)) = ToSet(s) \cup {e}
           /\ \A x, y : Precedes(Append(s, e), x, y)
                          <=> Precedes(s, x, y) \/ (x \in ToSet(s) /\ y = e)
<1> DEFINE t == Append(s, e)
<1>1. /\ t \in Seq(S) /\ Len(t) = Len(s) + 1 /\ Len(s) \in Nat
      /\ \A i \in 1..Len(s) : t[i] = s[i]
      /\ t[Len(s) + 1] = e
  BY AppendProperties
<1>2. DOMAIN t = 1..(Len(s) + 1) /\ DOMAIN s = 1..Len(s)
  BY <1>1
<1>3. DOMAIN s \subseteq DOMAIN t /\ Len(s) + 1 \in DOMAIN t
      /\ \A i \in DOMAIN t : i \in DOMAIN s \/ i = Len(s) + 1
  BY <1>1, <1>2
<1> HIDE DEF t
<1>4. ToSet(t) = ToSet(s) \cup {e}
  BY <1>1, <1>2, <1>3 DEF ToSet
<1>5. ASSUME NEW x, NEW y
      PROVE  Precedes(t, x, y) <=> Precedes(s, x, y) \/ (x \in ToSet(s) /\ y = e)
  <2>1. ASSUME Precedes(t, x, y) PROVE Precedes(s, x, y) \/ (x \in ToSet(s) /\ y = e)
    <3>1. PICK i \in DOMAIN t, j \in DOMAIN t : i < j /\ t[i] = x /\ t[j] = y
      BY <2>1 DEF Precedes
    <3>2. i \in DOMAIN s
      BY <1>1, <1>2, <3>1
    <3>3. CASE j \in DOMAIN s
      BY <1>1, <1>2, <3>1, <3>2, <3>3 DEF Precedes
    <3>4. CASE j = Len(s) + 1
      BY <1>1, <1>2, <3>1, <3>2, <3>4 DEF ToSet
    <3> QED  BY <1>3, <3>3, <3>4
  <2>2. ASSUME Precedes(s, x, y) PROVE Precedes(t, x, y)
    <3>1. PICK i \in DOMAIN s, j \in DOMAIN s : i < j /\ s[i] = x /\ s[j] = y
      BY <2>2 DEF Precedes
    <3> QED  BY <1>1, <1>2, <1>3, <3>1 DEF Precedes
  <2>3. ASSUME x \in ToSet(s), y = e PROVE Precedes(t, x, y)
    <3>1. PICK i \in DOMAIN s : s[i] = x
      BY <2>3 DEF ToSet
    <3>2. i \in DOMAIN t /\ i < Len(s) + 1 /\ t[i] = x /\ t[Len(s) + 1] = y
      BY <1>1, <1>2, <1>3, <2>3, <3>1
    <3> QED  BY <1>3, <3>2 DEF Precedes
  <2> QED  BY <2>1, <2>2, <2>3
<1> QED  BY <1>1, <1>4, <1>5 DEF t

\* The recursion that defines Without has a solution.
Step(s, e, i, q) == IF i = 0 THEN <<>> ELSE IF s[i] = e THEN q[i - 1] ELSE Append(q[i - 1], s[i])

Kept(s, e, n, q) == q = [i \in 0..n |-> Step(s, e, i, q)]

LEMMA KeptExists ==
    ASSUME NEW s, NEW e, NEW n \in Nat
    PROVE  \E q : Kept(s, e, n, q)
<1> DEFINE T == {k \in Nat : ~ \E q : Kept(s, e, k, q)}
<1>1. SUFFICES ASSUME T # {} PROVE FALSE
  OBVIOUS
<1>2. PICK k \in T : \A m \in T : k <= m
  BY <1>1, LeastNumber
<1>3. CASE k = 0
  <2> DEFINE q == [i \in 0..0 |-> <<>>]
  <2>1. Kept(s, e, 0, q)
    BY DEF Kept, Step
  <2> QED  BY <1>3, <2>1
<1>4. CASE k # 0
  <2>1. k - 1 \in Nat /\ k - 1 \notin T /\ k \in Nat
    BY <1>2, <1>4
  <2>2. PICK q : Kept(s, e, k - 1, q)
    BY <2>1
  <2> DEFINE p == [i \in 0..k |-> IF i = k THEN Step(s, e, k, q) ELSE q[i]]
  <2>3. ASSUME NEW i \in 0..k PROVE p[i] = Step(s, e, i, p)
    <3>1. CASE i = 0
      <4>1. 0 \in 0..(k - 1) /\ i # k
        BY <2>1, <3>1, <1>4
      <4>2. p[i] = q[0] /\ q[0] = Step(s, e, 0, q)
        BY <2>2, <3>1, <4>1 DEF Kept
      <4> QED  BY <3>1, <4>2 DEF Step
    <3>2. CASE i # 0
      <4>1. i - 1 \in 0..(k - 1) /\ i - 1 \in 0..k /\ i - 1 # k
        BY <2>1, <3>2
      <4>2. p[i - 1] = q[i - 1]
        BY <4>1
      <4>3. p[i] = Step(s, e, i, q)
        <5>1. CASE i = k
          BY <5>1
        <5>2. CASE i # k
          <6>1. i \in 0..(k - 1)
            BY <2>1, <5>2
          <6> QED  BY <2>2, <5>2, <6>1 DEF Kept
        <5> QED  BY <5>1, <5>2
      <4> QED  BY <3>2, <4>2, <4>3 DEF Step
    <3> QED  BY <3>1, <3>2
  <2>4. p = [i \in 0..k |-> Step(s, e, i, p)]
    <3> DEFINE g == [i \in 0..k |-> Step(s, e, i, p)]
    <3>1. p = [i \in 0..k |-> p[i]] /\ \A i \in 0..k : p[i] = g[i]
      BY <2>3
    <3> HIDE DEF p
    <3> QED  BY <3>1
  <2> HIDE DEF p
  <2>5. Kept(s, e, k, p)
    BY <2>4 DEF Kept
  <2> QED  BY <2>5
<1> QED  BY <1>3, <1>4

LEMMA WithoutKept ==
    ASSUME NEW s, NEW e, Len(s) \in Nat
    PROVE  \E q : Kept(s, e, Len(s), q) /\ Without(s, e) = q[Len(s)]
<1> DEFINE f == CHOOSE q : Kept(s, e, Len(s), q)
<1>1. Kept(s, e, Len(s), f)
  BY KeptExists
<1>2. Without(s, e) = f[Len(s)]
  BY DEF Without, Kept, Step
<1> QED  BY <1>1, <1>2

\* What Without has kept of the first i elements.
KeptOf(S, s, e, i, q) ==
    /\ q \in Seq(S)
    /\ \A x : x \in ToSet(q) <=> x # e /\ \E a \in 1..i : s[a] = x
    /\ \A x, y : Precedes(q, x, y)
                   <=> x # e /\ y # e /\ \E a, b \in 1..i : a < b /\ s[a] = x /\ s[b] = y

LEMMA KeptStep ==
    ASSUME NEW S, NEW s \in Seq(S), NEW e, NEW i \in 1..Len(s), NEW p, KeptOf(S, s, e, i - 1, p)
    PROVE  KeptOf(S, s, e, i, IF s[i] = e THEN p ELSE Append(p, s[i]))
<1>1. /\ i \in 1..i /\ s[i] \in S /\ i \in Nat
      /\ \A a \in 1..i : a \in 1..(i - 1) \/ a = i
      /\ \A a \in 1..(i - 1) : a \in 1..i /\ a < i /\ ~(i < a)
      /\ ~(i < i)
  BY ElementOfSeq
<1> DEFINE H == 1..i
           G == 1..(i - 1)
<1>2. /\ \A x : x \in ToSet(p) <=> x # e /\ \E a \in G : s[a] = x
      /\ \A x, y : Precedes(p, x, y)
                     <=> x # e /\ y # e /\ \E a, b \in G : a < b /\ s[a] = x /\ s[b] = y
      /\ p \in Seq(S)
  BY DEF KeptOf
<1>3. /\ i \in H /\ \A a \in H : a \in G \/ a = i
      /\ \A a \in G : a \in H /\ a < i /\ ~(i < a)
      /\ ~(i < i)
  BY <1>1
<1>4. CASE s[i] = e
  <2> HIDE DEF G, H
  <2>1. \A x : x # e => ((\E a \in H : s[a] = x) <=> \E a \in G : s[a] = x)
    BY <1>3, <1>4
  <2>2. \A x, y : x # e /\ y # e =>
            ((\E a, b \in H : a < b /\ s[a] = x /\ s[b] = y)
               <=> \E a, b \in G : a < b /\ s[a] = x /\ s[b] = y)
    BY <1>3, <1>4
  <2>3. /\ \A x : x \in ToSet(p) <=> x # e /\ \E a \in H : s[a] = x
        /\ \A x, y : Precedes(p, x, y)
                       <=> x # e /\ y # e /\ \E a, b \in H : a < b /\ s[a] = x /\ s[b] = y
    <3>1. ASSUME NEW x PROVE x \in ToSet(p) <=> x # e /\ \E a \in H : s[a] = x
      BY <1>2, <2>1
    <3>2. ASSUME NEW x, NEW y
          PROVE  Precedes(p, x, y)
                   <=> x # e /\ y # e /\ \E a, b \in H : a < b /\ s[a] = x /\ s[b] = y
      <4>1. Precedes(p, x, y)
              <=> x # e /\ y # e /\ \E a, b \in G : a < b /\ s[a] = x /\ s[b] = y
        BY <1>2
      <4>2. x # e /\ y # e =>
              ((\E a, b \in H : a < b /\ s[a] = x /\ s[b] = y)
                 <=> \E a, b \in G : a < b /\ s[a] = x /\ s[b] = y)
        BY <2>2
      <4> QED  BY <4>1, <4>2
    <3> QED  BY <3>1, <3>2
  <2> QED  BY <1>2, <1>4, <2>3 DEF KeptOf, H
<1>5. CASE s[i] # e
  <2> DEFINE q == Append(p, s[i])
  <2>1. /\ q \in Seq(S)
        /\ ToSet(q) = ToSet(p) \cup {s[i]}
        /\ \A x, y : Precedes(q, x, y) <=> Precedes(p, x, y) \/ (x \in ToSet(p) /\ y = s[i])
    BY <1>1, <1>2, Appended
  <2> HIDE DEF G, H, q
  <2>2. ASSUME NEW x PROVE x \in ToSet(q) <=> x # e /\ \E a \in H : s[a] = x
    BY <1>2, <1>3, <1>5, <2>1
  <2>3. ASSUME NEW x, NEW y
        PROVE  Precedes(q, x, y)
                 <=> x # e /\ y # e /\ \E a, b \in H : a < b /\ s[a] = x /\ s[b] = y
    <3>1. ASSUME Precedes(q, x, y)
          PROVE  x # e /\ y # e /\ \E a, b \in H : a < b /\ s[a] = x /\ s[b] = y
      <4>1. CASE Precedes(p, x, y)
        <5>1. x # e /\ y # e /\ \E a, b \in G : a < b /\ s[a] = x /\ s[b] = y
          BY <1>2, <4>1
        <5> QED  BY <1>3, <5>1
      <4>2. CASE x \in ToSet(p) /\ y = s[i]
        BY <1>2, <1>3, <1>5, <4>2
      <4> QED  BY <2>1, <3>1, <4>1, <4>2
    <3>2. ASSUME x # e, y # e, NEW a \in H, NEW b \in H, a < b, s[a] = x, s[b] = y
          PROVE  Precedes(q, x, y)
      <4>1. a \in G
        BY <1>3, <3>2
      <4>2. CASE b \in G
        BY <1>2, <2>1, <3>2, <4>1, <4>2
      <4>3. CASE b = i
        BY <1>2, <2>1, <3>2, <4>1, <4>3
      <4> QED  BY <1>3, <4>2, <4>3
    <3> QED  BY <3>1, <3>2
  <2> QED  BY <1>5, <2>1, <2>2, <2>3 DEF KeptOf, H, q
<1> QED  BY <1>4, <1>5

LEMMA WithoutProperties ==
    ASSUME NEW S, NEW s \in Seq(S), NEW e
    PROVE  /\ Without(s, e) \in Seq(S)
           /\ ToSet(Without(s, e)) = ToSet(s) \ {e}
           /\ \A x, y : Precedes(Without(s, e), x, y) <=> Precedes(s, x, y) /\ x # e /\ y # e
<1>0. Len(s) \in Nat /\ DOMAIN s = 1..Len(s)
  OBVIOUS
<1>1. PICK q : Kept(s, e, Len(s), q) /\ Without(s, e) = q[Len(s)]
  BY <1>0, WithoutKept
<1>2. \A i \in 0..Len(s) : q[i] = IF i = 0 THEN <<>>
                                  ELSE IF s[i] = e THEN q[i - 1] ELSE Append(q[i - 1], s[i])
  BY <1>1 DEF Kept, Step
<1> DEFINE T == {i \in 0..Len(s) : ~KeptOf(S, s, e, i, q[i])}
<1>3. ASSUME T # {} PROVE FALSE
  <2>1. PICK i \in T : \A m \in T : i <= m
    <3>1. T \subseteq Nat /\ T # {}
      BY <1>0, <1>3
    <3> HIDE DEF T
    <3> QED  BY <3>1, LeastNumber
  <2>2. i # 0
    <3>1. <<>> \in Seq(S) /\ DOMAIN <<>> = {} /\ 1..0 = {} /\ 0 \in 0..Len(s)
      BY <1>0
    <3>2. KeptOf(S, s, e, 0, <<>>)
      BY <3>1 DEF KeptOf, ToSet, Precedes
    <3> QED  BY <1>2, <2>1, <3>1, <3>2
  <2>3. i \in 1..Len(s) /\ i - 1 \in 0..Len(s) /\ ~(i <= i - 1)
    BY <1>0, <2>1, <2>2
  <2>4. KeptOf(S, s, e, i - 1, q[i - 1])
    BY <2>1, <2>3
  <2>5. KeptOf(S, s, e, i, q[i])
    BY <1>2, <2>1, <2>2, <2>3, <2>4, KeptStep
  <2> QED  BY <2>1, <2>5
<1>4. KeptOf(S, s, e, Len(s), Without(s, e))
  BY <1>0, <1>1, <1>3
<1> HIDE DEF T
<1>5. \A x : x \in ToSet(s) <=> \E a \in 1..Len(s) : s[a] = x
  BY <1>0 DEF ToSet
<1>6. \A x, y : Precedes(s, x, y) <=> \E a, b \in 1..Len(s) : a < b /\ s[a] = x /\ s[b] = y
  BY <1>0 DEF Precedes
<1> QED  BY <1>4, <1>5, <1>6 DEF KeptOf

(***************************************************************************)
(* The heap of timers. An active timer is in the heap once.                *)
(***************************************************************************)
Heaped(s) ==
    /\ s \in TimerRecords
    /\ \A t \in Timers : t \in ToSet(s.heap) <=> s.fire[t] # 0
    /\ \A t : ~Precedes(s.heap, t, t)

LEMMA OnceIsInjective ==
    ASSUME NEW S, NEW s \in Seq(S)
    PROVE  IsInjective(s) <=> \A t : ~Precedes(s, t, t)
<1>1. DOMAIN s = 1..Len(s) /\ Len(s) \in Nat
  OBVIOUS
<1>2. ASSUME NEW i \in DOMAIN s, NEW j \in DOMAIN s, i # j, s[i] = s[j]
      PROVE  Precedes(s, s[i], s[i])
  <2>1. i < j \/ j < i
    BY <1>1, <1>2
  <2> QED  BY <1>2, <2>1 DEF Precedes
<1>3. ASSUME NEW t, Precedes(s, t, t) PROVE ~IsInjective(s)
  <2>1. PICK i \in DOMAIN s, j \in DOMAIN s : i < j /\ s[i] = t /\ s[j] = t
    BY <1>3 DEF Precedes
  <2>2. i # j
    BY <1>1, <2>1
  <2> QED  BY <2>1, <2>2 DEF IsInjective
<1>4. ASSUME \A t : ~Precedes(s, t, t) PROVE IsInjective(s)
  BY <1>2, <1>4 DEF IsInjective
<1> QED  BY <1>3, <1>4

LEMMA HeapedIsTyped ==
    ASSUME NEW s \in TimerRecords
    PROVE  Heaped(s) <=> {t \in Timers : s.fire[t] # 0} = ToSet(s.heap) /\ IsInjective(s.heap)
<1>1. s.heap \in Seq(Timers) /\ ToSet(s.heap) \subseteq Timers
  BY DEF TimerRecords, ToSet
<1>2. IsInjective(s.heap) <=> \A t : ~Precedes(s.heap, t, t)
  BY <1>1, OnceIsInjective
<1> QED  BY <1>1, <1>2 DEF Heaped

LEMMA FirstIsLeast ==
    ASSUME NEW s, Heaped(s), s.heap # <<>>
    PROVE  LET f == First(s)
           IN /\ f \in ToSet(s.heap) /\ f \in Timers /\ s.fire[f] \in Nat \ {0}
              /\ \A t \in ToSet(s.heap) :
                    \/ s.fire[f] < s.fire[t]
                    \/ s.fire[f] = s.fire[t] /\ (t = f \/ Precedes(s.heap, f, t))
<1> DEFINE h == s.heap
           fire == s.fire
           P(t) == \A i \in DOMAIN s.heap :
                      \/ s.fire[t] < s.fire[s.heap[i]]
                      \/ s.fire[t] = s.fire[s.heap[i]] /\ InsertedBefore(s, t, i)
<1>1. /\ h \in Seq(Timers) /\ Len(h) \in Nat \ {0} /\ DOMAIN h = 1..Len(h)
      /\ fire \in [Timers -> Nat] /\ \A i \in DOMAIN h : h[i] \in Timers
  BY DEF Heaped, TimerRecords
<1>2. \E t \in ToSet(h) : P(t)
  <2> DEFINE T == {fire[h[i]] : i \in DOMAIN h}
  <2>1. T \subseteq Nat /\ T # {}
    BY <1>1
  <2> HIDE DEF T
  <2>2. PICK n \in T : \A m \in T : n <= m
    BY <2>1, LeastNumber
  <2> DEFINE U == {i \in DOMAIN h : fire[h[i]] = n}
  <2>3. U \subseteq Nat /\ U # {}
    BY <1>1, <2>2 DEF T
  <2> HIDE DEF U
  <2>4. PICK i \in U : \A j \in U : i <= j
    BY <2>3, LeastNumber
  <2>5. i \in DOMAIN h /\ fire[h[i]] = n /\ h[i] \in ToSet(h) /\ i \in 1..Len(h)
    BY <1>1, <2>4 DEF U, ToSet
  <2>6. ASSUME NEW j \in DOMAIN h
        PROVE  fire[h[i]] < fire[h[j]] \/ (fire[h[i]] = fire[h[j]] /\ InsertedBefore(s, h[i], j))
    <3>1. fire[h[j]] \in T /\ n <= fire[h[j]] /\ fire[h[j]] \in Nat /\ n \in Nat
      BY <1>1, <2>1, <2>2 DEF T
    <3>2. CASE fire[h[j]] = n
      <4>1. j \in U /\ i <= j
        BY <2>4, <3>2 DEF U
      <4>2. i \in 1..j
        BY <1>1, <2>5, <4>1
      <4> QED  BY <2>5, <3>2, <4>2 DEF InsertedBefore
    <3>3. CASE fire[h[j]] # n
      BY <2>5, <3>1, <3>3
    <3> QED  BY <3>2, <3>3
  <2> QED  BY <2>5, <2>6
<1> DEFINE f == First(s)
<1>3. f \in ToSet(h) /\ P(f)
  <2>1. f = CHOOSE t \in ToSet(h) : P(t)
    BY DEF First
  <2> HIDE DEF f, P
  <2> QED  BY <1>2, <2>1
<1> HIDE DEF f
<1>4. f \in Timers /\ fire[f] \in Nat \ {0}
  BY <1>1, <1>3 DEF Heaped, ToSet
<1>5. ASSUME NEW t \in ToSet(h)
      PROVE  fire[f] < fire[t] \/ (fire[f] = fire[t] /\ (t = f \/ Precedes(h, f, t)))
  <2>1. PICK i \in DOMAIN h : h[i] = t
    BY DEF ToSet
  <2>2. CASE fire[f] = fire[t] /\ InsertedBefore(s, f, i)
    <3>1. PICK j \in 1..i : h[j] = f
      BY <2>2 DEF InsertedBefore
    <3>2. j \in DOMAIN h /\ (j < i \/ j = i)
      BY <1>1, <3>1
    <3> QED  BY <2>1, <2>2, <3>1, <3>2 DEF Precedes
  <2> QED  BY <1>3, <2>1, <2>2
<1> QED  BY <1>3, <1>4, <1>5 DEF f

(***************************************************************************)
(* The shared timer is set for the first of the heap. A failure to set it  *)
(* goes unnoticed in the mode that posts messages anyway.                  *)
(***************************************************************************)
SameHeap(s, u) ==
    /\ u \in TimerRecords
    /\ u.fire = s.fire /\ u.repeat = s.repeat /\ u.heap = s.heap
    /\ u.firing = s.firing /\ u.passed = s.passed

IsSet(s) ==
    s.heap # <<>> /\ ~s.firing =>
        s.user \/ (s.id # "none" /\ s.due \in 1..s.fire[First(s)])

\* What the operators on the timers keep, whatever else they do.
Renewed(s, u) ==
    /\ s.user => u.user
    /\ u.id = "manual" => s.id = "manual"

LEMMA StopKeeps ==
    ASSUME NEW s \in TimerRecords
    PROVE  LET u == StopSharedTimer(s)
           IN SameHeap(s, u) /\ u.user = s.user /\ u.id = "none"
BY DEF StopSharedTimer, SameHeap, TimerRecords

LEMMA SetKeeps ==
    ASSUME NEW s \in TimerRecords, NEW time \in Nat
    PROVE  LET u == SetSharedTimer(s, time)
           IN /\ SameHeap(s, u) /\ Renewed(s, u)
              /\ (u.id = "auto" /\ u.due = time) \/ u.user \/ s.id = "manual"
<1> DEFINE k == IF s.id = "auto" THEN StopSharedTimer(s) ELSE s
           u == SetSharedTimer(s, time)
<1>1. /\ SameHeap(s, k) /\ k.user = s.user /\ k \in TimerRecords
      /\ k.id = "manual" <=> s.id = "manual"
  BY StopKeeps DEF SameHeap
<1>2. u = IF canSet THEN [k EXCEPT !.due = time, !.id = "auto"]
          ELSE [k EXCEPT !.user = @ \/ k.id # "manual"]
  BY DEF SetSharedTimer
<1> HIDE DEF k, u
<1>3. CASE canSet
  <2>1. u = [k EXCEPT !.due = time, !.id = "auto"]
    BY <1>2, <1>3
  <2>2. u.id = "auto" /\ u.due = time /\ u.user = k.user /\ SameHeap(k, u)
    BY <1>1, <2>1 DEF SameHeap, TimerRecords
  <2> QED  BY <1>1, <2>2 DEF SameHeap, Renewed, u
<1>4. CASE ~canSet
  <2>1. u = [k EXCEPT !.user = @ \/ k.id # "manual"]
    BY <1>2, <1>4
  <2>2. (k.user \/ k.id # "manual") \in BOOLEAN
    OBVIOUS
  <2>3. u.id = k.id /\ (u.user <=> k.user \/ k.id # "manual") /\ SameHeap(k, u)
    BY <1>1, <2>1, <2>2 DEF SameHeap, TimerRecords
  <2> QED  BY <1>1, <2>3 DEF SameHeap, Renewed, u
<1> QED  BY <1>3, <1>4

LEMMA SameHeaped ==
    ASSUME NEW s, NEW u, Heaped(s), SameHeap(s, u)
    PROVE  Heaped(u) /\ First(u) = First(s)
BY DEF Heaped, SameHeap, First, InsertedBefore

LEMMA UpdateSets ==
    ASSUME NEW s, Heaped(s)
    PROVE  LET u == UpdateSharedTimer(s)
           IN Heaped(u) /\ SameHeap(s, u) /\ Renewed(s, u) /\ (IsSet(u) \/ s.id = "manual")
<1> DEFINE u == UpdateSharedTimer(s)
<1>0. s \in TimerRecords
  BY DEF Heaped
<1>1. CASE s.firing \/ s.heap = <<>>
  <2>1. u = StopSharedTimer(s)
    BY <1>1 DEF UpdateSharedTimer
  <2> HIDE DEF u
  <2>2. SameHeap(s, u) /\ u.user = s.user /\ u.id = "none"
    BY <1>0, <2>1, StopKeeps
  <2>3. Renewed(s, u) /\ IsSet(u)
    BY <1>1, <2>2 DEF Renewed, IsSet, SameHeap
  <2> QED  BY <2>2, <2>3, SameHeaped DEF u
<1>2. CASE ~s.firing /\ s.heap # <<>>
  <2> DEFINE time == s.fire[First(s)]
  <2>1. time \in Nat \ {0}
    BY <1>2, FirstIsLeast
  <2>2. u = SetSharedTimer(s, time)
    BY <1>2 DEF UpdateSharedTimer
  <2> HIDE DEF u, time
  <2>3. /\ SameHeap(s, u) /\ Renewed(s, u)
        /\ (u.id = "auto" /\ u.due = time) \/ u.user \/ s.id = "manual"
    BY <1>0, <2>1, <2>2, SetKeeps
  <2>4. Heaped(u) /\ u.fire[First(u)] = time
    BY <2>3, SameHeaped DEF SameHeap, time
  <2>5. u.due = time => u.due \in 1..u.fire[First(u)]
    BY <2>1, <2>4
  <2>6. IsSet(u) \/ s.id = "manual"
    BY <2>3, <2>5 DEF IsSet
  <2> QED  BY <2>3, <2>4, <2>6 DEF u
<1> QED  BY <1>1, <1>2

(***************************************************************************)
(* A timer moves in the heap. The others keep their order, and it comes    *)
(* last of those that are due with it.                                     *)
(***************************************************************************)
LEMMA MovedOrder ==
    ASSUME NEW h \in Seq(Timers), NEW t \in Timers, NEW time \in Nat
    PROVE  LET m == Moved(h, t, time)
           IN /\ m \in Seq(Timers)
              /\ ToSet(m) = (ToSet(h) \ {t}) \cup (IF time = 0 THEN {} ELSE {t})
              /\ \A x, y : Precedes(m, x, y)
                             <=> \/ Precedes(h, x, y) /\ x # t /\ y # t
                                 \/ time # 0 /\ y = t /\ x \in ToSet(h) \ {t}
<1> DEFINE w == Without(h, t)
<1>1. /\ w \in Seq(Timers) /\ ToSet(w) = ToSet(h) \ {t}
      /\ \A x, y : Precedes(w, x, y) <=> Precedes(h, x, y) /\ x # t /\ y # t
  BY WithoutProperties
<1> HIDE DEF w
<1>2. CASE time = 0
  <2>1. Moved(h, t, time) = w
    BY <1>2 DEF Moved, w
  <2> QED  BY <1>1, <1>2, <2>1
<1>3. CASE time # 0
  <2>1. Moved(h, t, time) = Append(w, t)
    BY <1>3 DEF Moved, w
  <2> DEFINE a == Append(w, t)
  <2>2. /\ a \in Seq(Timers) /\ ToSet(a) = ToSet(w) \cup {t}
        /\ \A x, y : Precedes(a, x, y) <=> Precedes(w, x, y) \/ (x \in ToSet(w) /\ y = t)
    BY <1>1, Appended
  <2> HIDE DEF a
  <2> QED  BY <1>1, <1>3, <2>1, <2>2 DEF a
<1> QED  BY <1>2, <1>3

\* What setNextFireTime() does to the order, if the time is another one.
MovesTo(s, u, t, time) ==
    /\ u.fire = [s.fire EXCEPT ![t] = time]
    /\ u.passed = Forget(s, t)
    /\ \A x, y : Precedes(u.heap, x, y)
                   <=> \/ Precedes(s.heap, x, y) /\ x # t /\ y # t
                       \/ time # 0 /\ y = t /\ x \in ToSet(s.heap) \ {t}

LEMMA ForgetTyped ==
    ASSUME NEW s \in TimerRecords, NEW t \in Timers
    PROVE  Forget(s, t) \in [Timers -> [Timers -> 0..3]]
BY DEF Forget, TimerRecords

\* The earliest of the others, if the first of the heap neither was nor is t.
LEMMA FirstStays ==
    ASSUME NEW s, NEW m, NEW t \in Timers, NEW time \in Nat, Heaped(s), Heaped(m),
           m.fire = [s.fire EXCEPT ![t] = time],
           \A x \in Timers : x # t => (x \in ToSet(m.heap) <=> x \in ToSet(s.heap)),
           ~IsFirst(s, t), ~IsFirst(m, t), m.heap # <<>>
    PROVE  s.heap # <<>> /\ m.fire[First(m)] = s.fire[First(s)]
<1> DEFINE f == First(m)
           g == First(s)
<1>1. /\ f \in ToSet(m.heap) /\ f \in Timers /\ f # t
      /\ \A x \in ToSet(m.heap) : m.fire[f] < m.fire[x] \/ m.fire[f] = m.fire[x]
  BY FirstIsLeast DEF IsFirst
<1>2. f \in ToSet(s.heap)
  BY <1>1
<1>3. s.heap # <<>>
  BY <1>2 DEF ToSet
<1>4. /\ g \in ToSet(s.heap) /\ g \in Timers /\ g # t
      /\ \A x \in ToSet(s.heap) : s.fire[g] < s.fire[x] \/ s.fire[g] = s.fire[x]
  BY <1>3, FirstIsLeast DEF IsFirst
<1>5. g \in ToSet(m.heap)
  BY <1>4
<1>6. /\ s.fire \in [Timers -> Nat] /\ s.fire[f] \in Nat /\ s.fire[g] \in Nat
      /\ m.fire[f] = s.fire[f] /\ m.fire[g] = s.fire[g]
  BY <1>1, <1>4 DEF Heaped, TimerRecords
<1> HIDE DEF f, g
<1>7. s.fire[f] < s.fire[g] \/ s.fire[f] = s.fire[g]
  BY <1>1, <1>5, <1>6
<1>8. s.fire[g] < s.fire[f] \/ s.fire[g] = s.fire[f]
  BY <1>2, <1>4
<1>9. m.fire[f] = s.fire[g]
  BY <1>6, <1>7, <1>8
<1> QED  BY <1>3, <1>9 DEF f, g

LEMMA FireTimeSet ==
    ASSUME NEW s, Heaped(s), NEW t \in Timers, NEW time \in Nat
    PROVE  LET u == SetNextFireTime(s, t, time)
           IN /\ Heaped(u) /\ u.firing = s.firing /\ u.repeat = s.repeat /\ Renewed(s, u)
              /\ IsSet(s) => IsSet(u) \/ s.id = "manual"
              /\ IF s.fire[t] = time THEN u = s ELSE MovesTo(s, u, t, time)
<1> DEFINE u == SetNextFireTime(s, t, time)
           m == [s EXCEPT !.fire[t] = time, !.passed = Forget(s, t), !.heap = Moved(@, t, time)]
<1>0. s \in TimerRecords /\ s.heap \in Seq(Timers) /\ s.fire \in [Timers -> Nat]
  BY DEF Heaped, TimerRecords
<1>1. CASE s.fire[t] = time
  <2>1. u = s
    BY <1>1 DEF SetNextFireTime
  <2> HIDE DEF u
  <2> QED  BY <1>1, <2>1 DEF Renewed, u
<1>2. CASE s.fire[t] # time
  <2>1. /\ m.fire = [s.fire EXCEPT ![t] = time] /\ m.passed = Forget(s, t)
        /\ m.heap = Moved(s.heap, t, time) /\ m.repeat = s.repeat /\ m.firing = s.firing
        /\ m.due = s.due /\ m.id = s.id /\ m.user = s.user
    BY <1>0 DEF TimerRecords
  <2>2. /\ m.heap \in Seq(Timers)
        /\ ToSet(m.heap) = (ToSet(s.heap) \ {t}) \cup (IF time = 0 THEN {} ELSE {t})
        /\ \A x, y : Precedes(m.heap, x, y)
                       <=> \/ Precedes(s.heap, x, y) /\ x # t /\ y # t
                           \/ time # 0 /\ y = t /\ x \in ToSet(s.heap) \ {t}
    BY <1>0, <2>1, MovedOrder
  <2>3. m \in TimerRecords
    BY <1>0, <2>1, <2>2, ForgetTyped DEF TimerRecords
  <2>4. u = IF FirstChanged(s, m, t) THEN UpdateSharedTimer(m) ELSE m
    BY <1>2 DEF SetNextFireTime
  <2> HIDE DEF m, u
  <2>5. Heaped(m)
    <3>1. ASSUME NEW x \in Timers PROVE x \in ToSet(m.heap) <=> m.fire[x] # 0
      BY <1>0, <2>1, <2>2 DEF Heaped
    <3>2. ASSUME NEW x PROVE ~Precedes(m.heap, x, x)
      BY <2>2 DEF Heaped
    <3> QED  BY <2>3, <3>1, <3>2 DEF Heaped
  <2>6. MovesTo(s, m, t, time)
    BY <2>1, <2>2 DEF MovesTo
  <2>7. CASE FirstChanged(s, m, t)
    <3>1. Heaped(u) /\ SameHeap(m, u) /\ Renewed(m, u) /\ (IsSet(u) \/ m.id = "manual")
      BY <2>4, <2>5, <2>7, UpdateSets
    <3> QED  BY <1>2, <2>1, <2>6, <3>1 DEF SameHeap, Renewed, MovesTo, u
  <2>8. CASE ~FirstChanged(s, m, t)
    <3>1. u = m
      BY <2>4, <2>8
    <3>2. IsSet(s) => IsSet(m)
      <4>1. SUFFICES ASSUME IsSet(s), m.heap # <<>>, ~m.firing PROVE IsSet(m)
        BY DEF IsSet
      <4>2. s.heap # <<>> /\ m.fire[First(m)] = s.fire[First(s)]
        <5>1. \A x \in Timers : x # t => (x \in ToSet(m.heap) <=> x \in ToSet(s.heap))
          BY <2>2
        <5>2. ~IsFirst(s, t) /\ ~IsFirst(m, t) /\ m.heap # <<>>
          BY <2>8, <4>1 DEF FirstChanged
        <5>3. m.fire = [s.fire EXCEPT ![t] = time]
          BY <2>1
        <5> QED  BY <2>5, <5>1, <5>2, <5>3, FirstStays
      <4> QED  BY <2>1, <4>1, <4>2 DEF IsSet
    <3> QED  BY <1>2, <2>1, <2>5, <2>6, <3>1, <3>2 DEF Renewed, u
  <2> QED  BY <2>7, <2>8
<1> QED  BY <1>1, <1>2

(***************************************************************************)
(* A pass takes the first timer, or ends.                                  *)
(***************************************************************************)
\* The heap after its first timer has left it.
Popped(s) ==
    LET t == First(s)
    IN  [s EXCEPT !.fire[t] = 0, !.heap = Without(@, t), !.passed = Remember(s, t)]

LEMMA RememberTyped ==
    ASSUME NEW s \in TimerRecords, NEW t \in Timers
    PROVE  Remember(s, t) \in [Timers -> [Timers -> 0..3]]
<1> SUFFICES ASSUME NEW x \in Timers, NEW v \in Timers PROVE Remember(s, t)[x][v] \in 0..3
  BY DEF Remember
<1>1. s.passed[x][v] \in 0..3
  BY DEF TimerRecords
<1> QED  BY <1>1 DEF Remember

LEMMA PopFirst ==
    ASSUME NEW s, Heaped(s), s.heap # <<>>
    PROVE  LET p == Popped(s)
               f == First(s)
           IN /\ Heaped(p) /\ p.firing = s.firing /\ p.repeat = s.repeat
              /\ p.user = s.user /\ p.id = s.id /\ p.due = s.due
              /\ p.fire = [s.fire EXCEPT ![f] = 0] /\ p.passed = Remember(s, f)
              /\ ToSet(p.heap) = ToSet(s.heap) \ {f}
              /\ \A x, y : Precedes(p.heap, x, y) <=> Precedes(s.heap, x, y) /\ x # f /\ y # f
<1> DEFINE f == First(s)
           p == Popped(s)
<1>0. s \in TimerRecords /\ s.heap \in Seq(Timers) /\ s.fire \in [Timers -> Nat]
  BY DEF Heaped, TimerRecords
<1>1. f \in Timers
  BY FirstIsLeast
<1>2. /\ p.fire = [s.fire EXCEPT ![f] = 0] /\ p.passed = Remember(s, f)
      /\ p.heap = Without(s.heap, f) /\ p.repeat = s.repeat /\ p.firing = s.firing
      /\ p.due = s.due /\ p.id = s.id /\ p.user = s.user
      /\ p = [s EXCEPT !.fire[f] = 0, !.heap = Without(@, f), !.passed = Remember(s, f)]
  BY <1>0 DEF TimerRecords, Popped
<1> HIDE DEF f, p
<1>3. /\ p.heap \in Seq(Timers) /\ ToSet(p.heap) = ToSet(s.heap) \ {f}
      /\ \A x, y : Precedes(p.heap, x, y) <=> Precedes(s.heap, x, y) /\ x # f /\ y # f
  BY <1>0, <1>2, WithoutProperties
<1>4. p \in TimerRecords
  BY <1>0, <1>1, <1>2, <1>3, RememberTyped DEF TimerRecords
<1>5. ASSUME NEW x \in Timers PROVE x \in ToSet(p.heap) <=> p.fire[x] # 0
  BY <1>0, <1>2, <1>3 DEF Heaped
<1>6. ASSUME NEW x PROVE ~Precedes(p.heap, x, x)
  BY <1>3 DEF Heaped
<1>7. Heaped(p)
  BY <1>4, <1>5, <1>6 DEF Heaped
<1> QED  BY <1>2, <1>3, <1>7 DEF f, p

LEMMA RepeatIsTime ==
    ASSUME NEW s \in TimerRecords, NEW t \in Timers, NEW time \in Nat
    PROVE  /\ NextRepeat(s, t, time) \in Nat
           /\ NextRepeat(s, t, time) # 0 => NextRepeat(s, t, time) > time
<1>0. Delays \cup {0} \subseteq Nat
  BY ConstantsAssumption
<1>1. s.repeat[t] \in Nat
  <2>1. s.repeat \in [Timers -> Delays \cup {0}]
    BY DEF TimerRecords
  <2> QED  BY <1>0, <2>1
<1> QED  BY <1>1 DEF NextRepeat

LEMMA FirstTaken ==
    ASSUME NEW s, Heaped(s), s.heap # <<>>, NEW time \in Nat
    PROVE  LET u == TakeFirst(s, time)
               f == First(s)
           IN /\ Heaped(u) /\ u.firing = s.firing /\ Renewed(s, u)
              /\ u = SetNextFireTime(Popped(s), f, NextRepeat(Popped(s), f, time))
<1> DEFINE u == TakeFirst(s, time)
           f == First(s)
           p == Popped(s)
<1>1. /\ Heaped(p) /\ p.firing = s.firing /\ p.user = s.user /\ p.id = s.id
      /\ p.repeat = s.repeat /\ f \in Timers
  BY PopFirst, FirstIsLeast
<1>2. NextRepeat(s, f, time) = NextRepeat(p, f, time)
  BY <1>1 DEF NextRepeat
<1>3. u = SetNextFireTime(p, f, NextRepeat(p, f, time))
  BY <1>2 DEF TakeFirst, Popped
<1>4. NextRepeat(p, f, time) \in Nat
  BY <1>1, RepeatIsTime DEF Heaped
<1> HIDE DEF u, p, f
<1>5. Heaped(u) /\ u.firing = p.firing /\ Renewed(p, u)
  BY <1>1, <1>3, <1>4, FireTimeSet
<1> QED  BY <1>1, <1>3, <1>5 DEF Renewed, u, f, p

LEMMA Unfired ==
    ASSUME NEW s, Heaped(s)
    PROVE  LET n == [s EXCEPT !.firing = FALSE]
           IN /\ Heaped(n) /\ First(n) = First(s) /\ n.firing = FALSE /\ n.user = s.user
              /\ n.id = s.id /\ n.fire = s.fire /\ n.heap = s.heap /\ n.passed = s.passed
<1> DEFINE n == [s EXCEPT !.firing = FALSE]
<1>1. /\ n \in TimerRecords /\ n.firing = FALSE /\ n.user = s.user /\ n.id = s.id
      /\ n.fire = s.fire /\ n.heap = s.heap /\ n.passed = s.passed
  BY DEF Heaped, TimerRecords
<1> HIDE DEF n
<1>2. Heaped(n)
  BY <1>1 DEF Heaped
<1>3. First(n) = First(s)
  BY <1>1 DEF First, InsertedBefore
<1> QED  BY <1>1, <1>2, <1>3 DEF n

LEMMA PassEnds ==
    ASSUME NEW s, Heaped(s), NEW manual \in BOOLEAN
    PROVE  LET u == EndPass(s, manual)
           IN /\ Heaped(u) /\ u.firing = FALSE /\ Renewed(s, u)
              /\ u.fire = s.fire /\ u.heap = s.heap /\ u.passed = s.passed
              /\ IsSet(u) \/ s.id = "manual"
              /\ manual => u.user
<1> DEFINE n == [s EXCEPT !.firing = FALSE]
           e == UpdateSharedTimer(n)
           u == [e EXCEPT !.user = @ \/ manual]
<1>1. /\ Heaped(n) /\ n.firing = FALSE /\ n.user = s.user
      /\ n.id = s.id /\ n.fire = s.fire /\ n.heap = s.heap /\ n.passed = s.passed
  BY Unfired
<1>2. EndPass(s, manual) = u
  BY DEF EndPass
<1> HIDE DEF n
<1>3. Heaped(e) /\ SameHeap(n, e) /\ Renewed(n, e) /\ (IsSet(e) \/ n.id = "manual")
  BY <1>1, UpdateSets
<1> HIDE DEF e
<1>4. e \in TimerRecords
  BY <1>3 DEF SameHeap
<1>5. /\ u \in TimerRecords /\ u.fire = e.fire /\ u.heap = e.heap /\ u.passed = e.passed
      /\ u.repeat = e.repeat /\ u.firing = e.firing /\ u.due = e.due /\ u.id = e.id
      /\ u.user <=> e.user \/ manual
  <2>1. (e.user \/ manual) \in BOOLEAN
    OBVIOUS
  <2> QED  BY <1>4, <2>1 DEF TimerRecords
<1> HIDE DEF u
<1>6. SameHeap(e, u)
  BY <1>5 DEF SameHeap
<1>7. Heaped(u) /\ First(u) = First(e)
  BY <1>3, <1>6, SameHeaped
<1>8. IsSet(u) \/ s.id = "manual"
  BY <1>1, <1>3, <1>5, <1>7 DEF IsSet
<1> QED  BY <1>1, <1>2, <1>3, <1>5, <1>7, <1>8 DEF SameHeap, Renewed

\* A pass that has begun: its next timer fires, or it ends.
Fires(s, rest, time, manual) ==
    /\ s.heap # <<>> /\ s.fire[First(s)] <= time
    /\ timers' = TakeFirst(s, time) /\ timers'.firing = TRUE
    /\ TimerFrame(First(s), time, manual) \in Frames
    /\ stack' = <<TimerFrame(First(s), time, manual)>> \o rest

Rests(s, rest, manual) ==
    /\ timers'.firing = FALSE /\ timers'.fire = s.fire
    /\ timers'.heap = s.heap /\ timers'.passed = s.passed
    /\ IsSet(timers') \/ s.id = "manual"
    /\ manual => timers'.user
    /\ stack' = rest

LEMMA TimerFrameTyped ==
    ASSUME NEW t \in Timers, NEW time \in Start..MaxTime, NEW manual \in BOOLEAN
    PROVE  LET f == TimerFrame(t, time, manual)
           IN f \in Frames /\ f.kind = "timer" /\ f.pass = time /\ f.manual = manual
BY DEF TimerFrame, Frames

LEMMA PassGoesOn ==
    ASSUME NEW s, Heaped(s), s.firing = TRUE, NEW rest, NEW time \in Start..MaxTime,
           NEW manual \in BOOLEAN, ContinuePass(s, rest, time, manual)
    PROVE  /\ Heaped(timers') /\ Renewed(s, timers')
           /\ Fires(s, rest, time, manual) \/ Rests(s, rest, manual)
<1>1. CASE s.heap # <<>> /\ s.fire[First(s)] <= time
  <2>1. time \in Nat /\ First(s) \in Timers
    BY <1>1, ConstantsAssumption, FirstIsLeast DEF Start
  <2>2. timers' = TakeFirst(s, time) /\ stack' = <<TimerFrame(First(s), time, manual)>> \o rest
    BY <1>1 DEF ContinuePass
  <2>3. Heaped(timers') /\ timers'.firing = s.firing /\ Renewed(s, timers')
    BY <1>1, <2>1, <2>2, FirstTaken
  <2>4. TimerFrame(First(s), time, manual) \in Frames
    BY <2>1, TimerFrameTyped
  <2> QED  BY <1>1, <2>2, <2>3, <2>4 DEF Fires
<1>2. CASE ~(s.heap # <<>> /\ s.fire[First(s)] <= time)
  <2>1. timers' = EndPass(s, manual) /\ stack' = rest
    BY <1>2 DEF ContinuePass
  <2> QED  BY <2>1, PassEnds DEF Rests
<1> QED  BY <1>1, <1>2

(***************************************************************************)
(* What is on a stack of frames, and in a queue.                           *)
(***************************************************************************)
LEMMA PushOn ==
    ASSUME NEW S, NEW s \in Seq(S), NEW f \in S
    PROVE  /\ <<f>> \o s \in Seq(S)
           /\ ToSet(<<f>> \o s) = {f} \cup ToSet(s)
           /\ Len(<<f>> \o s) = Len(s) + 1 /\ (<<f>> \o s)[1] = f
           /\ \A i \in 1..Len(s) : (<<f>> \o s)[i + 1] = s[i]
<1> DEFINE t == <<f>> \o s
<1>1. <<f>> \in Seq(S) /\ Len(<<f>>) = 1 /\ <<f>>[1] = f /\ Len(s) \in Nat /\ DOMAIN s = 1..Len(s)
  OBVIOUS
<1>2. /\ t \in Seq(S) /\ Len(t) = 1 + Len(s)
      /\ \A i \in 1..(1 + Len(s)) : t[i] = IF i <= 1 THEN <<f>>[i] ELSE s[i - 1]
  BY <1>1, ConcatProperties
<1> HIDE DEF t
<1>3. t[1] = f /\ DOMAIN t = 1..(1 + Len(s)) /\ 1 \in DOMAIN t
  BY <1>1, <1>2
<1>4. ASSUME NEW i \in 1..Len(s) PROVE i + 1 \in DOMAIN t /\ t[i + 1] = s[i]
  <2>1. i + 1 \in 1..(1 + Len(s)) /\ ~(i + 1 <= 1) /\ (i + 1) - 1 = i
    BY <1>1
  <2> QED  BY <1>2, <1>3, <2>1
<1>5. ASSUME NEW i \in DOMAIN t PROVE t[i] \in {f} \cup ToSet(s)
  <2>1. CASE i = 1
    BY <1>3, <2>1
  <2>2. CASE i # 1
    <3>1. i - 1 \in 1..Len(s) /\ (i - 1) + 1 = i
      BY <1>1, <1>3, <2>2
    <3>2. t[i] = s[i - 1]
      BY <1>4, <3>1
    <3> QED  BY <1>1, <3>1, <3>2 DEF ToSet
  <2> QED  BY <2>1, <2>2
<1>6. ToSet(t) = {f} \cup ToSet(s)
  <2>1. ASSUME NEW x \in ToSet(s) PROVE x \in ToSet(t)
    <3>1. PICK i \in 1..Len(s) : s[i] = x
      BY <1>1 DEF ToSet
    <3> QED  BY <1>4, <3>1 DEF ToSet
  <2>2. f \in ToSet(t)
    BY <1>3 DEF ToSet
  <2>3. ASSUME NEW x \in ToSet(t) PROVE x \in {f} \cup ToSet(s)
    BY <1>5 DEF ToSet
  <2> QED  BY <2>1, <2>2, <2>3
<1>7. Len(t) = Len(s) + 1
  BY <1>1, <1>2
<1> QED  BY <1>2, <1>3, <1>4, <1>6, <1>7 DEF t

LEMMA PopOff ==
    ASSUME NEW S, NEW s \in Seq(S), s # <<>>
    PROVE  /\ Head(s) \in S /\ Head(s) = s[1] /\ Tail(s) \in Seq(S)
           /\ Len(s) \in Nat \ {0} /\ Len(Tail(s)) = Len(s) - 1
           /\ \A i \in 1..Len(Tail(s)) : Tail(s)[i] = s[i + 1]
           /\ s = <<Head(s)>> \o Tail(s)
           /\ ToSet(s) = {Head(s)} \cup ToSet(Tail(s))
<1>1. /\ Head(s) \in S /\ Head(s) = s[1] /\ Tail(s) \in Seq(S)
      /\ Len(s) \in Nat \ {0} /\ Len(Tail(s)) = Len(s) - 1
      /\ \A i \in 1..Len(Tail(s)) : Tail(s)[i] = s[i + 1]
  BY HeadTailProperties, ElementOfSeq
<1> DEFINE t == <<Head(s)>> \o Tail(s)
<1>2. /\ t \in Seq(S) /\ ToSet(t) = {Head(s)} \cup ToSet(Tail(s))
      /\ Len(t) = Len(s) /\ t[1] = s[1]
      /\ \A i \in 1..Len(Tail(s)) : t[i + 1] = s[i + 1]
  <2>1. /\ t \in Seq(S) /\ ToSet(t) = {Head(s)} \cup ToSet(Tail(s))
        /\ Len(t) = Len(Tail(s)) + 1 /\ t[1] = Head(s)
        /\ \A i \in 1..Len(Tail(s)) : t[i + 1] = Tail(s)[i]
    <3> DEFINE h == Head(s)
               r == Tail(s)
    <3>1. h \in S /\ r \in Seq(S)
      BY <1>1
    <3> HIDE DEF h, r
    <3>2. /\ <<h>> \o r \in Seq(S) /\ ToSet(<<h>> \o r) = {h} \cup ToSet(r)
          /\ Len(<<h>> \o r) = Len(r) + 1 /\ (<<h>> \o r)[1] = h
          /\ \A i \in 1..Len(r) : (<<h>> \o r)[i + 1] = r[i]
      BY <3>1, PushOn
    <3> QED  BY <3>2 DEF h, r
  <2> HIDE DEF t
  <2> QED  BY <1>1, <2>1
<1> HIDE DEF t
<1>3. s = t
  <2>1. ASSUME NEW i \in 1..Len(s) PROVE s[i] = t[i]
    <3>1. CASE i = 1
      BY <1>2, <3>1
    <3>2. CASE i # 1
      <4>1. i - 1 \in 1..Len(Tail(s)) /\ (i - 1) + 1 = i
        BY <1>1, <3>2
      <4> QED  BY <1>2, <4>1
    <3> QED  BY <3>1, <3>2
  <2> QED  BY <1>2, <2>1, SeqEqual
<1> QED  BY <1>1, <1>2, <1>3 DEF t

(***************************************************************************)
(* The type of the state.                                                  *)
(***************************************************************************)
LEMMA TypedHeap == TypeOK => Heaped(timers)
BY HeapedIsTyped DEF TypeOK

LEMMA TypedByHeap ==
    ASSUME environment \in Environments, now \in Start..MaxTime, Heaped(timers),
           canSet \in BOOLEAN, functions \in Seq(Calls), posts \in Nat, paused \in BOOLEAN,
           lock \in Threads \cup {None},
           thread \in [Threads -> {"running", "posting", "called", "waiting"}],
           stack \in Seq(Frames)
    PROVE  TypeOK
<1>1. timers \in TimerRecords
  BY DEF Heaped
<1> QED  BY <1>1, HeapedIsTyped DEF TypeOK

OnlyTimers == UNCHANGED <<environment, now, canSet, functions, posts, paused, lock, thread>>

LEMMA OnlyTimersTyped ==
    ASSUME TypeOK, OnlyTimers, Heaped(timers'), stack' \in Seq(Frames)
    PROVE  TypeOK'
<1>1. timers' \in TimerRecords
  BY DEF Heaped
<1> QED  BY <1>1, HeapedIsTyped DEF TypeOK, OnlyTimers

LEMMA OtherTyped ==
    ASSUME TypeOK, environment' = environment, timers' = timers, now' \in Start..MaxTime,
           canSet' \in BOOLEAN, functions' \in Seq(Calls), posts' \in Nat, paused' \in BOOLEAN,
           lock' \in Threads \cup {None},
           thread' \in [Threads -> {"running", "posting", "called", "waiting"}],
           stack' \in Seq(Frames)
    PROVE  TypeOK'
BY DEF TypeOK

\* How the shared timer's messages and the returns of timers begin or go on with a pass.
PassBegins(s, manual) ==
    /\ s.firing # TRUE
    /\ \E b : /\ Heaped(b) /\ b.firing = TRUE /\ b.id = s.id /\ b.user = s.user
              /\ b.fire = s.fire /\ b.heap = s.heap /\ b.passed = s.passed
              /\ Heaped(timers') /\ Renewed(b, timers')
              /\ Fires(b, stack, now, manual) \/ Rests(b, stack, manual)

LEMMA MessageTaken ==
    ASSUME TypeOK, NEW s, Heaped(s), NEW manual \in BOOLEAN, SharedTimerFired(s, manual)
    PROVE  \/ /\ s.firing = TRUE /\ timers' = [s EXCEPT !.user = @ \/ manual] /\ stack' = stack
              /\ Heaped(timers') /\ Renewed(s, timers') /\ (manual => timers'.user)
              /\ timers'.fire = s.fire /\ timers'.heap = s.heap /\ timers'.passed = s.passed
              /\ timers'.firing = TRUE
           \/ PassBegins(s, manual)
<1>0. s \in TimerRecords /\ s.firing \in BOOLEAN
  BY DEF Heaped, TimerRecords
<1>1. CASE s.firing
  <2>1. timers' = [s EXCEPT !.user = @ \/ manual] /\ stack' = stack
    BY <1>1 DEF SharedTimerFired
  <2>2. (s.user \/ manual) \in BOOLEAN
    OBVIOUS
  <2>3. /\ timers' \in TimerRecords /\ timers'.fire = s.fire /\ timers'.heap = s.heap
        /\ timers'.passed = s.passed /\ timers'.firing = s.firing /\ timers'.id = s.id
        /\ timers'.user <=> s.user \/ manual
    BY <1>0, <2>1, <2>2 DEF TimerRecords
  <2>4. Heaped(timers')
    BY <2>3 DEF Heaped
  <2> QED  BY <1>0, <1>1, <2>1, <2>3, <2>4 DEF Renewed
<1>2. CASE ~s.firing
  <2> DEFINE b == [s EXCEPT !.firing = TRUE]
  <2>1. /\ b \in TimerRecords /\ b.firing = TRUE /\ b.id = s.id /\ b.user = s.user
        /\ b.fire = s.fire /\ b.heap = s.heap /\ b.passed = s.passed
    BY <1>0 DEF TimerRecords
  <2>2. ContinuePass(b, stack, now, manual)
    BY <1>2 DEF SharedTimerFired
  <2> HIDE DEF b
  <2>3. Heaped(b)
    BY <2>1 DEF Heaped
  <2>4. now \in Start..MaxTime
    BY DEF TypeOK
  <2>5. /\ Heaped(timers') /\ Renewed(b, timers')
        /\ Fires(b, stack, now, manual) \/ Rests(b, stack, manual)
    BY <2>1, <2>2, <2>3, <2>4, PassGoesOn
  <2> QED  BY <1>2, <2>1, <2>3, <2>5 DEF PassBegins
<1> QED  BY <1>1, <1>2

LEMMA TimerReturned ==
    ASSUME TypeOK, TimerReturns
    PROVE  LET f == Head(stack)
           IN /\ stack # <<>> /\ f \in Frames /\ f.kind = "timer"
              /\ f.pass \in Start..MaxTime /\ f.manual \in BOOLEAN
              /\ Heaped(timers') /\ Renewed(timers, timers') /\ OnlyTimers
              /\ \/ Rests(timers, Tail(stack), f.manual)
                 \/ timers.firing = TRUE /\ Fires(timers, Tail(stack), f.pass, f.manual)
<1> DEFINE f == Head(stack)
<1>1. /\ stack # <<>> /\ f \in Frames /\ f.kind = "timer"
      /\ Tail(stack) \in Seq(Frames) /\ OnlyTimers
  BY PopOff DEF TypeOK, TimerReturns, OnlyTimers
<1>2. \/ timers' = EndPass(timers, f.manual) /\ stack' = Tail(stack)
      \/ timers.firing /\ ContinuePass(timers, Tail(stack), f.pass, f.manual)
  BY DEF TimerReturns
<1>3. Heaped(timers) /\ timers.firing \in BOOLEAN
  BY TypedHeap DEF TypeOK, TimerRecords
<1> HIDE DEF f
<1>4. f.pass \in Start..MaxTime /\ f.manual \in BOOLEAN
  BY <1>1 DEF Frames
<1>5. CASE timers' = EndPass(timers, f.manual) /\ stack' = Tail(stack)
  <2>1. /\ Heaped(timers') /\ timers'.firing = FALSE /\ Renewed(timers, timers')
        /\ timers'.fire = timers.fire /\ timers'.heap = timers.heap
        /\ timers'.passed = timers.passed
        /\ IsSet(timers') \/ timers.id = "manual"
        /\ f.manual => timers'.user
    BY <1>3, <1>4, <1>5, PassEnds
  <2> QED  BY <1>1, <1>4, <1>5, <2>1 DEF Rests, f
<1>6. CASE timers.firing /\ ContinuePass(timers, Tail(stack), f.pass, f.manual)
  <2>1. timers.firing = TRUE
    BY <1>3, <1>6
  <2>2. /\ Heaped(timers') /\ Renewed(timers, timers')
        /\ \/ Fires(timers, Tail(stack), f.pass, f.manual)
           \/ Rests(timers, Tail(stack), f.manual)
    BY <1>3, <1>4, <1>6, <2>1, PassGoesOn
  <2> QED  BY <1>1, <1>4, <2>1, <2>2 DEF f
<1> QED  BY <1>2, <1>5, <1>6

LEMMA UserMessageTaken ==
    ASSUME TypeOK
    PROVE  LET s == UserMessage(timers)
           IN /\ Heaped(s) /\ s.id = "manual" /\ s.fire = timers.fire /\ s.heap = timers.heap
              /\ s.passed = timers.passed /\ s.firing = timers.firing
<1> DEFINE s == UserMessage(timers)
<1>1. /\ s \in TimerRecords /\ s.id = "manual" /\ s.fire = timers.fire
      /\ s.heap = timers.heap /\ s.passed = timers.passed /\ s.firing = timers.firing
  BY DEF UserMessage, TypeOK, TimerRecords
<1> HIDE DEF s
<1>2. Heaped(timers)
  BY TypedHeap
<1>3. Heaped(s)
  BY <1>1, <1>2 DEF Heaped
<1> QED  BY <1>1, <1>3 DEF s

LEMMA FiresTyped ==
    ASSUME NEW s, NEW rest \in Seq(Frames), NEW time, NEW manual,
           Fires(s, rest, time, manual) \/ Rests(s, rest, manual)
    PROVE  stack' \in Seq(Frames)
<1>1. CASE Fires(s, rest, time, manual)
  <2> DEFINE f == TimerFrame(First(s), time, manual)
  <2>1. f \in Frames /\ stack' = <<f>> \o rest
    BY <1>1 DEF Fires
  <2> HIDE DEF f
  <2> QED  BY <2>1, PushOn
<1>2. CASE Rests(s, rest, manual)
  BY <1>2 DEF Rests
<1> QED  BY <1>1, <1>2

LEMMA TimersTyped ==
    ASSUME TypeOK, TakeTimerMessage \/ TakeUserMessage \/ TimerReturns
    PROVE  TypeOK' /\ OnlyTimers
<1>0. stack \in Seq(Frames) /\ Heaped(timers)
  BY TypedHeap DEF TypeOK
<1>1. CASE TakeTimerMessage \/ TakeUserMessage
  <2>1. OnlyTimers
    BY <1>1 DEF TakeTimerMessage, TakeUserMessage, OnlyTimers
  <2>2. \E s : \E manual \in BOOLEAN : Heaped(s) /\ SharedTimerFired(s, manual)
    <3>1. CASE TakeTimerMessage
      <4>1. SharedTimerFired(timers, FALSE) /\ FALSE \in BOOLEAN
        BY <3>1 DEF TakeTimerMessage
      <4> QED  BY <1>0, <4>1
    <3>2. CASE TakeUserMessage
      <4>1. SharedTimerFired(UserMessage(timers), TRUE) /\ TRUE \in BOOLEAN
        BY <3>2 DEF TakeUserMessage
      <4>2. Heaped(UserMessage(timers))
        BY UserMessageTaken
      <4> QED  BY <4>1, <4>2
    <3> QED  BY <1>1, <3>1, <3>2
  <2>3. Heaped(timers') /\ stack' \in Seq(Frames)
    BY <1>0, <2>2, MessageTaken, FiresTyped DEF PassBegins
  <2> QED  BY <2>1, <2>3, OnlyTimersTyped
<1>2. CASE TimerReturns
  <2>1. /\ stack # <<>> /\ Heaped(timers') /\ OnlyTimers
        /\ \E time, manual : \/ Rests(timers, Tail(stack), manual)
                             \/ Fires(timers, Tail(stack), time, manual)
    BY <1>2, TimerReturned
  <2>2. Tail(stack) \in Seq(Frames)
    BY <1>0, <2>1, PopOff
  <2>3. stack' \in Seq(Frames)
    BY <2>1, <2>2, FiresTyped
  <2> QED  BY <2>1, <2>3, OnlyTimersTyped
<1> QED  BY <1>1, <1>2

LEMMA CodeSetsTimer ==
    ASSUME TypeOK, NEW t \in Timers, StartTimer(t) \/ StopTimer(t)
    PROVE  /\ OnlyTimers /\ stack' = stack
           /\ \E s : \E time \in Nat :
                 /\ Heaped(s) /\ s.fire = timers.fire /\ s.heap = timers.heap
                 /\ s.passed = timers.passed /\ s.firing = timers.firing /\ s.due = timers.due
                 /\ s.id = timers.id /\ s.user = timers.user
                 /\ timers' = SetNextFireTime(s, t, time) /\ (time = 0 \/ time >= now)
<1>0. /\ Heaped(timers) /\ timers \in TimerRecords /\ now \in Nat \ {0}
      /\ Delays \subseteq Nat
  BY TypedHeap, ConstantsAssumption DEF TypeOK, Start
<1>1. ASSUME NEW repeat \in Delays \cup {0}
      PROVE  LET s == [timers EXCEPT !.repeat[t] = repeat]
             IN /\ Heaped(s) /\ s.fire = timers.fire /\ s.heap = timers.heap
                /\ s.passed = timers.passed /\ s.firing = timers.firing
                /\ s.due = timers.due /\ s.id = timers.id /\ s.user = timers.user
  <2> DEFINE s == [timers EXCEPT !.repeat[t] = repeat]
  <2>1. /\ s \in TimerRecords /\ s.fire = timers.fire /\ s.heap = timers.heap
        /\ s.passed = timers.passed /\ s.firing = timers.firing
        /\ s.due = timers.due /\ s.id = timers.id /\ s.user = timers.user
    BY <1>0 DEF TimerRecords
  <2> HIDE DEF s
  <2>2. Heaped(s)
    BY <1>0, <2>1 DEF Heaped
  <2> QED  BY <2>1, <2>2 DEF s
<1>2. OnlyTimers /\ stack' = stack
  BY DEF StartTimer, StopTimer, OnlyTimers
<1>3. CASE StartTimer(t)
  <2>1. PICK delay \in Delays, repeat \in Delays :
            timers' = SetNextFireTime([timers EXCEPT !.repeat[t] = repeat], t, now + delay)
    BY <1>3 DEF StartTimer
  <2>2. now + delay \in Nat /\ now + delay >= now
    BY <1>0
  <2> QED  BY <1>1, <1>2, <2>1, <2>2
<1>4. CASE StopTimer(t)
  <2>1. timers' = SetNextFireTime([timers EXCEPT !.repeat[t] = 0], t, 0)
    BY <1>4 DEF StopTimer
  <2> QED  BY <1>1, <1>2, <2>1
<1> QED  BY <1>3, <1>4

LEMMA NextFunctionTyped ==
    ASSUME TypeOK, NEW rest \in Seq(Frames), NextFunction(rest)
    PROVE  functions' \in Seq(Calls) /\ stack' \in Seq(Frames)
<1>1. functions \in Seq(Calls)
  BY DEF TypeOK
<1>2. CASE functions = <<>>
  BY <1>1, <1>2 DEF NextFunction
<1>3. CASE functions # <<>>
  <2> DEFINE f == FunctionFrame(Head(functions))
  <2>1. stack' = <<f>> \o rest /\ functions' = Tail(functions)
    BY <1>3 DEF NextFunction
  <2>2. Head(functions) \in Calls /\ Tail(functions) \in Seq(Calls)
    BY <1>1, <1>3, PopOff
  <2>3. f \in Frames
    BY <2>2 DEF FunctionFrame, Calls, Frames
  <2> HIDE DEF f
  <2> QED  BY <2>1, <2>2, <2>3, PushOn
<1> QED  BY <1>2, <1>3

LEMMA FunctionsTyped ==
    ASSUME TypeOK, TakeDispatchMessage \/ FunctionReturns PROVE TypeOK'
<1>0. /\ stack \in Seq(Frames) /\ functions \in Seq(Calls) /\ posts \in Nat
      /\ thread \in [Threads -> {"running", "posting", "called", "waiting"}]
      /\ now \in Start..MaxTime /\ canSet \in BOOLEAN /\ paused \in BOOLEAN
      /\ lock \in Threads \cup {None}
  BY DEF TypeOK
<1>1. CASE TakeDispatchMessage
  <2>1. /\ UNCHANGED <<environment, now, timers, canSet, paused, lock, thread>>
        /\ posts > 0 /\ posts' = posts - 1
        /\ UNCHANGED <<functions, stack>> \/ NextFunction(stack)
    BY <1>1 DEF TakeDispatchMessage
  <2>2. functions' \in Seq(Calls) /\ stack' \in Seq(Frames)
    BY <1>0, <2>1, NextFunctionTyped
  <2>3. posts' \in Nat
    BY <1>0, <2>1
  <2> QED  BY <1>0, <2>1, <2>2, <2>3, OtherTyped
<1>2. CASE FunctionReturns
  <2>1. /\ UNCHANGED <<environment, now, timers, canSet, paused, lock>>
        /\ stack # <<>> /\ thread' = Signalled(Head(stack).waiter)
        /\ \/ posts' = posts + 1 /\ stack' = Tail(stack) /\ UNCHANGED functions
           \/ NextFunction(Tail(stack)) /\ UNCHANGED posts
    BY <1>2 DEF FunctionReturns
  <2>2. Tail(stack) \in Seq(Frames)
    BY <1>0, <2>1, PopOff
  <2>3. functions' \in Seq(Calls) /\ stack' \in Seq(Frames)
    BY <1>0, <2>1, <2>2, NextFunctionTyped
  <2>4. posts' \in Nat
    BY <1>0, <2>1
  <2>5. thread' \in [Threads -> {"running", "posting", "called", "waiting"}]
    BY <1>0, <2>1 DEF Signalled
  <2> QED  BY <1>0, <2>1, <2>3, <2>4, <2>5, OtherTyped
<1> QED  BY <1>1, <1>2

LEMMA CallTyped ==
    ASSUME NEW f \in Functions, NEW w \in Threads \cup {None} PROVE Call(f, w) \in Calls
BY DEF Call, Calls

LEMMA CallsTyped ==
    ASSUME TypeOK, NEW f \in Functions,
           CallOnMainThread(f) \/ CancelCall(f)
           \/ \E w \in Threads : CallFromThread(w, f) \/ CallAndWait(w, f)
    PROVE  TypeOK'
<1>0. /\ stack \in Seq(Frames) /\ functions \in Seq(Calls) /\ posts \in Nat
      /\ thread \in [Threads -> {"running", "posting", "called", "waiting"}]
      /\ now \in Start..MaxTime /\ canSet \in BOOLEAN /\ paused \in BOOLEAN
      /\ lock \in Threads \cup {None} /\ posts + 1 \in Nat
  BY DEF TypeOK
<1>1. \A w \in Threads \cup {None} : Append(functions, Call(f, w)) \in Seq(Calls)
  BY <1>0, CallTyped, AppendProperties
<1>2. CASE CallOnMainThread(f)
  <2>1. /\ functions' = Append(functions, Call(f, None)) /\ posts' \in {posts, posts + 1}
        /\ UNCHANGED <<environment, now, timers, canSet, paused, lock, thread, stack>>
    BY <1>2 DEF CallOnMainThread
  <2> QED  BY <1>0, <1>1, <2>1, OtherTyped
<1>3. CASE CancelCall(f)
  <2>1. /\ functions' = Without(functions, Call(f, None))
        /\ UNCHANGED <<environment, now, timers, canSet, posts, paused, lock, thread, stack>>
    BY <1>3 DEF CancelCall
  <2>2. functions' \in Seq(Calls)
    BY <1>0, <2>1, WithoutProperties
  <2> QED  BY <1>0, <2>1, <2>2, OtherTyped
<1>4. ASSUME NEW w \in Threads, CallFromThread(w, f) PROVE TypeOK'
  <2>1. /\ functions' = Append(functions, Call(f, None))
        /\ thread' = [thread EXCEPT ![w] = IF functions = <<>> THEN "posting" ELSE @]
        /\ UNCHANGED <<environment, now, timers, canSet, posts, paused, lock, stack>>
    BY <1>4 DEF CallFromThread
  <2>2. thread' \in [Threads -> {"running", "posting", "called", "waiting"}]
    BY <1>0, <2>1
  <2> QED  BY <1>0, <1>1, <2>1, <2>2, OtherTyped
<1>5. ASSUME NEW w \in Threads, CallAndWait(w, f) PROVE TypeOK'
  <2>1. /\ functions' = Append(functions, Call(f, w)) /\ posts' \in {posts, posts + 1}
        /\ thread' = [thread EXCEPT ![w] = "called"] /\ lock' = w
        /\ UNCHANGED <<environment, now, timers, canSet, paused, stack>>
    BY <1>5 DEF CallAndWait, KeptLock
  <2>2. thread' \in [Threads -> {"running", "posting", "called", "waiting"}]
    BY <1>0, <2>1
  <2> QED  BY <1>0, <1>1, <2>1, <2>2, OtherTyped
<1> QED  BY <1>2, <1>3, <1>4, <1>5

LEMMA ThreadsTyped ==
    ASSUME TypeOK, NEW w \in Threads, PostFromThread(w) \/ WaitForSignal(w)
    PROVE  TypeOK'
<1>0. /\ stack \in Seq(Frames) /\ functions \in Seq(Calls) /\ posts \in Nat
      /\ thread \in [Threads -> {"running", "posting", "called", "waiting"}]
      /\ now \in Start..MaxTime /\ canSet \in BOOLEAN /\ paused \in BOOLEAN
      /\ lock \in Threads \cup {None} /\ posts + 1 \in Nat
  BY DEF TypeOK
<1>1. /\ UNCHANGED <<environment, now, timers, canSet, functions, paused, stack>>
      /\ thread' = [thread EXCEPT ![w] = "running"] \/ thread' = [thread EXCEPT ![w] = "waiting"]
      /\ posts' \in {posts, posts + 1} /\ lock' \in {lock, None}
  BY DEF PostFromThread, WaitForSignal
<1>2. thread' \in [Threads -> {"running", "posting", "called", "waiting"}]
  BY <1>0, <1>1
<1> QED  BY <1>0, <1>1, <1>2, OtherTyped

\* Nested loops, and the timers that fire in them.
LEMMA NestedLoopFires ==
    ASSUME TypeOK
    PROVE  LET u == FireInNestedLoop(timers)
           IN /\ Heaped(u) /\ u.firing = FALSE /\ Renewed(timers, u)
              /\ u.fire = timers.fire /\ u.heap = timers.heap /\ u.passed = timers.passed
              /\ IsSet(u) \/ timers.id = "manual"
<1> DEFINE n == [timers EXCEPT !.firing = FALSE]
           u == FireInNestedLoop(timers)
<1>1. /\ Heaped(n) /\ n.firing = FALSE /\ n.user = timers.user /\ n.id = timers.id
      /\ n.fire = timers.fire /\ n.heap = timers.heap /\ n.passed = timers.passed
  BY TypedHeap, Unfired
<1>2. u = UpdateSharedTimer(n)
  BY DEF FireInNestedLoop
<1> HIDE DEF n, u
<1>3. Heaped(u) /\ SameHeap(n, u) /\ Renewed(n, u) /\ (IsSet(u) \/ n.id = "manual")
  BY <1>1, <1>2, UpdateSets
<1> QED  BY <1>1, <1>3 DEF SameHeap, Renewed, u

LEMMA LoopsTyped ==
    ASSUME TypeOK, EnterModalLoop \/ LeaveModalLoop \/ EnterDebugger \/ LeaveDebugger
    PROVE  TypeOK'
<1>0. /\ stack \in Seq(Frames) /\ functions \in Seq(Calls) /\ posts \in Nat
      /\ posts + 1 \in Nat /\ paused \in BOOLEAN
  BY DEF TypeOK
<1>a. Heaped(timers) /\ Heaped(FireInNestedLoop(timers))
  BY TypedHeap, NestedLoopFires
<1>1. UNCHANGED <<environment, now, canSet, functions, lock, thread>>
  BY DEF EnterModalLoop, LeaveModalLoop, EnterDebugger, LeaveDebugger
<1>2. Heaped(timers') /\ posts' \in Nat /\ paused' \in BOOLEAN
  BY <1>0, <1>a DEF EnterModalLoop, LeaveModalLoop, EnterDebugger, LeaveDebugger, PostsOfUnpause
<1>3. stack' \in Seq(Frames)
  <2>1. ASSUME NEW k \in {"modal", "debugger"}, stack' = <<LoopFrame(k)>> \o stack
        PROVE  stack' \in Seq(Frames)
    <3> DEFINE f == LoopFrame(k)
    <3>1. f \in Frames
      BY DEF LoopFrame, Frames
    <3> HIDE DEF f
    <3>2. <<f>> \o stack \in Seq(Frames)
      BY <1>0, <3>1, PushOn
    <3> QED  BY <2>1, <3>2 DEF f
  <2>2. CASE stack # <<>> /\ stack' = Tail(stack)
    BY <1>0, <2>2, PopOff
  <2> QED  BY <2>1, <2>2 DEF EnterModalLoop, LeaveModalLoop, EnterDebugger, LeaveDebugger
<1>4. timers' \in TimerRecords
  BY <1>2 DEF Heaped
<1> QED  BY <1>1, <1>2, <1>3, <1>4, HeapedIsTyped DEF TypeOK

LEMMA TypeNext == TypeOK /\ [Next]_vars => TypeOK'
<1> SUFFICES ASSUME TypeOK, [Next]_vars PROVE TypeOK'
  OBVIOUS
<1>1. ASSUME NEW t \in Timers, StartTimer(t) \/ StopTimer(t) PROVE TypeOK'
  <2>1. OnlyTimers /\ stack' = stack /\ Heaped(timers')
    BY <1>1, CodeSetsTimer, FireTimeSet
  <2> QED  BY <2>1, OnlyTimersTyped DEF TypeOK
<1>2. CASE \E f \in Functions : CallOnMainThread(f) \/ CancelCall(f)
  BY <1>2, CallsTyped
<1>3. CASE EnterModalLoop \/ EnterDebugger \/ LeaveModalLoop \/ LeaveDebugger
  BY <1>3, LoopsTyped
<1>4. CASE Loop \/ Return
  BY <1>4, TimersTyped, FunctionsTyped DEF Loop, Return
<1>5. ASSUME NEW w \in Threads, OtherThread(w) PROVE TypeOK'
  BY <1>5, CallsTyped, ThreadsTyped DEF OtherThread
<1>6. CASE Tick \/ SystemTimers
  <2>1. now \in Start..MaxTime /\ canSet \in BOOLEAN /\ MaxTime \in Nat
    BY ConstantsAssumption DEF TypeOK
  <2>2. \/ now < MaxTime /\ now' = now + 1 /\ canSet' = canSet
        \/ now' = now /\ canSet' = ~canSet
    BY <1>6 DEF Tick, SystemTimers
  <2>3. now' \in Start..MaxTime /\ canSet' \in BOOLEAN
    <3>1. now' \in Start..MaxTime
      BY <2>1, <2>2 DEF Start
    <3>2. (~canSet) \in BOOLEAN
      OBVIOUS
    <3> QED  BY <2>1, <2>2, <3>1, <3>2, Zenon
  <2> QED  BY <1>6, <2>3 DEF Tick, SystemTimers, TypeOK
<1>7. CASE UNCHANGED vars
  BY <1>7 DEF vars, TypeOK
<1> QED  BY <1>1, <1>2, <1>3, <1>4, <1>5, <1>6, <1>7 DEF Next, Code

LEMMA TypeInit == Init => TypeOK
<1> SUFFICES ASSUME Init PROVE TypeOK
  OBVIOUS
<1>1. /\ timers \in TimerRecords /\ timers.heap = <<>>
      /\ \A t \in Timers : timers.fire[t] = 0
  BY DEF Init, TimerRecords
<1>2. ToSet(timers.heap) = {} /\ \A t : ~Precedes(timers.heap, t, t)
  BY <1>1 DEF ToSet, Precedes
<1>3. Heaped(timers)
  BY <1>1, <1>2 DEF Heaped
<1>4. now \in Start..MaxTime
  BY ConstantsAssumption DEF Init, Start
<1>5. canSet \in BOOLEAN /\ paused \in BOOLEAN
  BY Zenon DEF Init
<1>6. functions \in Seq(Calls) /\ stack \in Seq(Frames)
  BY DEF Init
<1>7. /\ environment \in Environments /\ posts \in Nat /\ lock \in Threads \cup {None}
      /\ thread \in [Threads -> {"running", "posting", "called", "waiting"}]
  BY DEF Init
<1> QED  BY <1>3, <1>4, <1>5, <1>6, <1>7, TypedByHeap

(***************************************************************************)
(* What steps do to the frames of timers.                                  *)
(***************************************************************************)
\* The innermost timer that fires.
Innermost(s, f) ==
    \E i \in 1..Len(s) : s[i] = f /\ f.kind = "timer" /\ \A j \in 1..(i - 1) : s[j].kind # "timer"

LEMMA PushInnermost ==
    ASSUME NEW s \in Seq(Frames), NEW f \in Frames, NEW g, Innermost(<<f>> \o s, g)
    PROVE  IF f.kind = "timer" THEN g = f ELSE Innermost(s, g)
<1> DEFINE t == <<f>> \o s
<1>1. /\ Len(t) = Len(s) + 1 /\ t[1] = f /\ Len(s) \in Nat
      /\ \A i \in 1..Len(s) : t[i + 1] = s[i]
  BY PushOn
<1>2. PICK i \in 1..Len(t) :
          t[i] = g /\ g.kind = "timer" /\ \A j \in 1..(i - 1) : t[j].kind # "timer"
  BY DEF Innermost
<1> HIDE DEF t
<1>3. CASE i = 1
  BY <1>1, <1>2, <1>3
<1>4. CASE i # 1
  <2>1. f.kind # "timer"
    <3>1. 1 \in 1..(i - 1)
      BY <1>1, <1>4
    <3> QED  BY <1>1, <1>2, <3>1
  <2>2. i - 1 \in 1..Len(s) /\ (i - 1) + 1 = i
    BY <1>1, <1>4
  <2>3. s[i - 1] = g
    BY <1>1, <1>2, <2>2
  <2>4. ASSUME NEW j \in 1..((i - 1) - 1) PROVE s[j].kind # "timer"
    <3>1. j \in 1..Len(s) /\ j + 1 \in 1..(i - 1)
      BY <1>1, <1>4
    <3>2. t[j + 1] = s[j]
      BY <1>1, <3>1
    <3> QED  BY <1>2, <3>1, <3>2
  <2> QED  BY <1>2, <2>1, <2>2, <2>3, <2>4 DEF Innermost
<1> QED  BY <1>3, <1>4

LEMMA PopInnermost ==
    ASSUME NEW s \in Seq(Frames), s # <<>>
    PROVE  IF Head(s).kind = "timer" THEN Innermost(s, Head(s))
           ELSE \A g : Innermost(Tail(s), g) => Innermost(s, g)
<1>1. /\ Head(s) = s[1] /\ Len(s) \in Nat \ {0} /\ Len(Tail(s)) = Len(s) - 1
      /\ \A i \in 1..Len(Tail(s)) : Tail(s)[i] = s[i + 1]
  BY PopOff
<1>2. CASE Head(s).kind = "timer"
  <2>1. 1 \in 1..Len(s) /\ 1..(1 - 1) = {}
    BY <1>1
  <2> QED  BY <1>1, <1>2, <2>1 DEF Innermost
<1>3. ASSUME Head(s).kind # "timer", NEW g, Innermost(Tail(s), g) PROVE Innermost(s, g)
  <2> DEFINE r == Tail(s)
  <2> HIDE DEF r
  <2>1. PICK i \in 1..Len(r) :
            r[i] = g /\ g.kind = "timer" /\ \A j \in 1..(i - 1) : r[j].kind # "timer"
    BY <1>3 DEF Innermost, r
  <2>2. i + 1 \in 1..Len(s) /\ s[i + 1] = g
    BY <1>1, <2>1 DEF r
  <2>3. ASSUME NEW j \in 1..((i + 1) - 1) PROVE s[j].kind # "timer"
    <3>1. CASE j = 1
      BY <1>1, <1>3, <3>1
    <3>2. CASE j # 1
      <4>1. j - 1 \in 1..(i - 1) /\ j - 1 \in 1..Len(r) /\ (j - 1) + 1 = j
        BY <1>1, <2>1, <3>2 DEF r
      <4>2. r[j - 1] = s[j]
        BY <1>1, <4>1 DEF r
      <4> QED  BY <2>1, <4>1, <4>2
    <3> QED  BY <3>1, <3>2
  <2> QED  BY <2>1, <2>2, <2>3 DEF Innermost
<1> QED  BY <1>2, <1>3

\* A step that neither begins nor ends the firing of a timer.
KeepsTimers ==
    /\ \A f \in ToSet(stack) : f.kind = "timer" => f \in ToSet(stack')
    /\ \A f : Innermost(stack', f) => Innermost(stack, f)

LEMMA PushKeepsTimers ==
    ASSUME stack \in Seq(Frames), NEW f \in Frames, f.kind # "timer", stack' = <<f>> \o stack
    PROVE  KeepsTimers
BY PushOn, PushInnermost DEF KeepsTimers

LEMMA PopKeepsTimers ==
    ASSUME stack \in Seq(Frames), stack # <<>>, Head(stack).kind # "timer", stack' = Tail(stack)
    PROVE  KeepsTimers
BY PopOff, PopInnermost DEF KeepsTimers

LEMMA LoopFrameTyped ==
    ASSUME NEW k \in {"modal", "debugger"}
    PROVE  LoopFrame(k) \in Frames /\ LoopFrame(k).kind = k
BY DEF LoopFrame, Frames

LEMMA FunctionFrameTyped ==
    ASSUME NEW c \in Calls
    PROVE  LET f == FunctionFrame(c)
           IN f \in Frames /\ f.kind = "function" /\ f.waiter = c.waiter
BY DEF FunctionFrame, Frames, Calls

LEMMA FunctionsKeepTimers ==
    ASSUME TypeOK, TakeDispatchMessage \/ FunctionReturns
    PROVE  UNCHANGED <<timers, now>> /\ KeepsTimers
<1>0. stack \in Seq(Frames) /\ functions \in Seq(Calls)
  BY DEF TypeOK
<1>1. UNCHANGED <<timers, now>>
  BY DEF TakeDispatchMessage, FunctionReturns
<1>2. ASSUME functions # <<>>
      PROVE  FunctionFrame(Head(functions)) \in Frames
             /\ FunctionFrame(Head(functions)).kind = "function"
  BY <1>0, <1>2, PopOff, FunctionFrameTyped
<1>3. CASE TakeDispatchMessage
  <2>1. stack' = stack \/ (functions # <<>> /\ stack' = <<FunctionFrame(Head(functions))>> \o stack)
    BY <1>3 DEF TakeDispatchMessage, NextFunction
  <2>2. CASE stack' = stack
    BY <1>1, <2>2 DEF KeepsTimers
  <2>3. CASE functions # <<>> /\ stack' = <<FunctionFrame(Head(functions))>> \o stack
    <3> DEFINE f == FunctionFrame(Head(functions))
    <3>1. f \in Frames /\ f.kind # "timer" /\ stack' = <<f>> \o stack
      BY <1>2, <2>3
    <3> HIDE DEF f
    <3> QED  BY <1>0, <1>1, <3>1, PushKeepsTimers
  <2> QED  BY <1>1, <2>1, <2>2, <2>3
<1>4. CASE FunctionReturns
  <2>1. stack # <<>> /\ Head(stack).kind = "function"
    BY <1>4 DEF FunctionReturns
  <2>2. \/ stack' = Tail(stack)
        \/ functions # <<>> /\ stack' = <<FunctionFrame(Head(functions))>> \o Tail(stack)
    BY <1>4 DEF FunctionReturns, NextFunction
  <2>3. CASE stack' = Tail(stack)
    <3>1. Head(stack).kind # "timer"
      BY <2>1
    <3> QED  BY <1>0, <1>1, <2>1, <2>3, <3>1, PopKeepsTimers
  <2>4. CASE functions # <<>> /\ stack' = <<FunctionFrame(Head(functions))>> \o Tail(stack)
    <3> DEFINE f == FunctionFrame(Head(functions))
               r == Tail(stack)
    <3>1. f \in Frames /\ f.kind = "function" /\ stack' = <<f>> \o r
      BY <1>2, <2>4
    <3>2. /\ r \in Seq(Frames) /\ ToSet(stack) = {Head(stack)} \cup ToSet(r)
          /\ \A g : Innermost(r, g) => Innermost(stack, g)
      <4>1. Head(stack).kind # "timer"
        BY <2>1
      <4> QED  BY <1>0, <2>1, <4>1, PopOff, PopInnermost
    <3> HIDE DEF f, r
    <3>3. ToSet(stack') = {f} \cup ToSet(r) /\ \A g : Innermost(stack', g) => Innermost(r, g)
      <4>1. f.kind # "timer"
        BY <3>1
      <4> QED  BY <3>1, <3>2, <4>1, PushOn, PushInnermost
    <3> QED  BY <1>1, <2>1, <3>2, <3>3 DEF KeepsTimers
  <2> QED  BY <2>2, <2>3, <2>4
<1> QED  BY <1>3, <1>4

LEMMA LoopsKeepTimers ==
    ASSUME TypeOK, EnterModalLoop \/ LeaveModalLoop \/ EnterDebugger \/ LeaveDebugger
    PROVE  now' = now /\ KeepsTimers /\ (timers' = timers \/ timers' = FireInNestedLoop(timers))
<1>0. stack \in Seq(Frames)
  BY DEF TypeOK
<1>1. now' = now /\ (timers' = timers \/ timers' = FireInNestedLoop(timers))
  BY DEF EnterModalLoop, LeaveModalLoop, EnterDebugger, LeaveDebugger
<1>2. \/ \E k \in {"modal", "debugger"} : stack' = <<LoopFrame(k)>> \o stack
      \/ stack # <<>> /\ Head(stack).kind \in {"modal", "debugger"} /\ stack' = Tail(stack)
  BY DEF EnterModalLoop, LeaveModalLoop, EnterDebugger, LeaveDebugger
<1>3. ASSUME NEW k \in {"modal", "debugger"}, stack' = <<LoopFrame(k)>> \o stack PROVE KeepsTimers
  <2> DEFINE f == LoopFrame(k)
  <2>1. f \in Frames /\ f.kind # "timer" /\ stack' = <<f>> \o stack
    BY <1>3, LoopFrameTyped
  <2> HIDE DEF f
  <2> QED  BY <1>0, <2>1, PushKeepsTimers
<1>4. ASSUME stack # <<>>, Head(stack).kind \in {"modal", "debugger"}, stack' = Tail(stack)
      PROVE  KeepsTimers
  <2>1. Head(stack).kind # "timer"
    BY <1>4
  <2> QED  BY <1>0, <1>4, <2>1, PopKeepsTimers
<1> QED  BY <1>1, <1>2, <1>3, <1>4

\* The steps that do not concern timers.
LEMMA OthersKeepTimers ==
    ASSUME TypeOK, [Next]_vars,
           ~ \E t \in Timers : StartTimer(t) \/ StopTimer(t),
           ~(TakeTimerMessage \/ TakeUserMessage \/ TimerReturns)
    PROVE  /\ KeepsTimers /\ now' \in {now, now + 1}
           /\ timers' = timers \/ timers' = FireInNestedLoop(timers)
<1>1. CASE TakeDispatchMessage \/ FunctionReturns
  BY <1>1, FunctionsKeepTimers
<1>2. CASE EnterModalLoop \/ LeaveModalLoop \/ EnterDebugger \/ LeaveDebugger
  BY <1>2, LoopsKeepTimers
<1>3. CASE \/ \E f \in Functions : CallOnMainThread(f) \/ CancelCall(f)
           \/ \E w \in Threads : OtherThread(w)
           \/ Tick \/ SystemTimers \/ UNCHANGED vars
  <2>1. UNCHANGED <<timers, stack>> /\ now' \in {now, now + 1}
    BY <1>3 DEF CallOnMainThread, CancelCall, OtherThread, CallFromThread, CallAndWait,
                PostFromThread, WaitForSignal, Tick, SystemTimers, vars
  <2> QED  BY <2>1 DEF KeepsTimers
<1> QED  BY <1>1, <1>2, <1>3 DEF Next, Code, Loop, Return

(***************************************************************************)
(* The shared timer is set, or will be: by the pass under way, or by the   *)
(* messages that take its place, which a pass of theirs renews.            *)
(***************************************************************************)
Passing(s, manual) == \E f \in ToSet(s) : f.kind = "timer" /\ (manual => f.manual)

ShareInv ==
    /\ TypeOK
    /\ timers.firing = TRUE => Passing(stack, FALSE)
    /\ IsSet(timers) \/ Passing(stack, TRUE)
    /\ timers.id = "manual" => timers.user \/ Passing(stack, TRUE)

\* A timer that fires in a pass.
LEMMA FiresPasses ==
    ASSUME NEW s, NEW rest \in Seq(Frames), NEW time \in Start..MaxTime,
           NEW manual \in BOOLEAN, Heaped(s), Fires(s, rest, time, manual)
    PROVE  /\ Passing(stack', FALSE) /\ (manual => Passing(stack', TRUE))
           /\ Passing(rest, TRUE) => Passing(stack', TRUE)
           /\ \A g : Innermost(stack', g) => g.pass = time
<1> DEFINE f == TimerFrame(First(s), time, manual)
<1>1. First(s) \in Timers
  BY FirstIsLeast DEF Fires
<1>2. f \in Frames /\ f.kind = "timer" /\ f.manual = manual /\ f.pass = time
  BY <1>1, TimerFrameTyped
<1>3. stack' = <<f>> \o rest
  BY DEF Fires
<1> HIDE DEF f
<1>4. ToSet(stack') = {f} \cup ToSet(rest) /\ \A g : Innermost(stack', g) => g = f
  BY <1>2, <1>3, PushOn, PushInnermost
<1> QED  BY <1>2, <1>4 DEF Passing

LEMMA MessageShares ==
    ASSUME ShareInv, NEW s, Heaped(s), s.firing = timers.firing, NEW manual \in BOOLEAN,
           s.id = "manual" => s.user \/ manual \/ Passing(stack, TRUE),
           SharedTimerFired(s, manual), TypeOK'
    PROVE  ShareInv'
<1>0. TypeOK /\ stack \in Seq(Frames) /\ now \in Start..MaxTime
  BY DEF ShareInv, TypeOK
<1>1. CASE /\ s.firing = TRUE /\ stack' = stack /\ Renewed(s, timers')
           /\ manual => timers'.user
           /\ timers'.firing = TRUE
  <2>1. Passing(stack', FALSE)
    BY <1>1 DEF ShareInv
  <2>2. IsSet(timers')
    BY <1>1 DEF IsSet
  <2>3. timers'.id = "manual" => timers'.user \/ Passing(stack', TRUE)
    BY <1>1 DEF Renewed
  <2> QED  BY <2>1, <2>2, <2>3 DEF ShareInv, IsSet
<1>2. CASE PassBegins(s, manual)
  <2>1. PICK b : /\ Heaped(b) /\ b.id = s.id /\ b.user = s.user /\ Renewed(b, timers')
                 /\ Fires(b, stack, now, manual) \/ Rests(b, stack, manual)
    BY <1>2 DEF PassBegins
  <2>2. CASE Fires(b, stack, now, manual)
    <3>1. /\ Passing(stack', FALSE) /\ (manual => Passing(stack', TRUE))
          /\ Passing(stack, TRUE) => Passing(stack', TRUE)
      BY <1>0, <2>1, <2>2, FiresPasses
    <3>2. timers'.firing = TRUE
      BY <2>2 DEF Fires
    <3>3. IsSet(timers')
      BY <3>2 DEF IsSet
    <3>4. timers'.id = "manual" => timers'.user \/ Passing(stack', TRUE)
      BY <2>1, <3>1 DEF Renewed
    <3> QED  BY <3>1, <3>3, <3>4 DEF ShareInv, IsSet
  <2>3. CASE Rests(b, stack, manual)
    <3>1. /\ timers'.firing = FALSE /\ stack' = stack
          /\ IsSet(timers') \/ s.id = "manual"
          /\ manual => timers'.user
      BY <2>1, <2>3 DEF Rests
    <3>2. timers'.id = "manual" => timers'.user \/ Passing(stack', TRUE)
      BY <2>1, <3>1 DEF Renewed
    <3>3. s.id = "manual" => timers'.user \/ Passing(stack', TRUE)
      BY <2>1, <3>1 DEF Renewed
    <3>4. timers'.user => IsSet(timers')
      BY DEF IsSet
    <3>5. timers'.firing # TRUE
      BY <3>1
    <3> QED  BY <3>1, <3>2, <3>3, <3>4, <3>5 DEF ShareInv, IsSet
  <2> QED  BY <2>1, <2>2, <2>3
<1> QED  BY <1>0, <1>1, <1>2, MessageTaken

LEMMA MessagesShare ==
    ASSUME ShareInv, TakeTimerMessage \/ TakeUserMessage, TypeOK' PROVE ShareInv'
<1>0. TypeOK
  BY DEF ShareInv
<1>1. CASE TakeTimerMessage
  <2>1. SharedTimerFired(timers, FALSE) /\ Heaped(timers)
    BY <1>0, <1>1, TypedHeap DEF TakeTimerMessage
  <2>2. timers.id = "manual" => timers.user \/ FALSE \/ Passing(stack, TRUE)
    BY DEF ShareInv
  <2> QED  BY <2>1, <2>2, MessageShares
<1>2. CASE TakeUserMessage
  <2> DEFINE s == UserMessage(timers)
  <2>1. SharedTimerFired(s, TRUE) /\ Heaped(s) /\ s.firing = timers.firing
    BY <1>0, <1>2, UserMessageTaken DEF TakeUserMessage
  <2> HIDE DEF s
  <2> QED  BY <2>1, MessageShares
<1> QED  BY <1>1, <1>2

LEMMA ReturnShares ==
    ASSUME ShareInv, TimerReturns, TypeOK' PROVE ShareInv'
<1> DEFINE f == Head(stack)
           r == Tail(stack)
<1>0. TypeOK /\ stack \in Seq(Frames)
  BY DEF ShareInv, TypeOK
<1>1. /\ stack # <<>> /\ f \in Frames /\ f.kind = "timer"
      /\ f.pass \in Start..MaxTime /\ f.manual \in BOOLEAN /\ Renewed(timers, timers')
      /\ Rests(timers, r, f.manual) \/ Fires(timers, r, f.pass, f.manual)
  BY <1>0, TimerReturned
<1>2. r \in Seq(Frames) /\ ToSet(stack) = {f} \cup ToSet(r)
  BY <1>0, <1>1, PopOff
<1> HIDE DEF f, r
<1>3. Passing(stack, TRUE) => Passing(r, TRUE) \/ f.manual
  BY <1>2 DEF Passing
<1>4. CASE Fires(timers, r, f.pass, f.manual)
  <2>1. /\ Passing(stack', FALSE) /\ (f.manual => Passing(stack', TRUE))
        /\ Passing(r, TRUE) => Passing(stack', TRUE)
    BY <1>0, <1>1, <1>2, <1>4, TypedHeap, FiresPasses
  <2>2. timers'.firing = TRUE
    BY <1>4 DEF Fires
  <2>3. IsSet(timers')
    BY <2>2 DEF IsSet
  <2>4. timers'.id = "manual" => timers'.user \/ Passing(stack', TRUE)
    BY <1>1, <1>3, <2>1 DEF Renewed, ShareInv
  <2> QED  BY <2>1, <2>3, <2>4 DEF ShareInv, IsSet
<1>5. CASE Rests(timers, r, f.manual)
  <2>1. /\ timers'.firing = FALSE /\ stack' = r
        /\ IsSet(timers') \/ timers.id = "manual"
        /\ f.manual => timers'.user
    BY <1>5 DEF Rests
  <2>2. timers.id = "manual" => timers'.user \/ Passing(stack', TRUE)
    BY <1>1, <1>3, <2>1 DEF Renewed, ShareInv
  <2>3. timers'.id = "manual" => timers'.user \/ Passing(stack', TRUE)
    BY <1>1, <2>2 DEF Renewed
  <2>4. timers'.user => IsSet(timers')
    BY DEF IsSet
  <2>5. timers'.firing # TRUE
    BY <2>1
  <2> QED  BY <2>1, <2>2, <2>3, <2>4, <2>5 DEF ShareInv, IsSet
<1> QED  BY <1>1, <1>4, <1>5

LEMMA CodeShares ==
    ASSUME ShareInv, NEW t \in Timers, StartTimer(t) \/ StopTimer(t), TypeOK'
    PROVE  ShareInv'
<1>0. TypeOK
  BY DEF ShareInv
<1>1. stack' = stack
  BY <1>0, CodeSetsTimer
<1>2. PICK s : \E time \in Nat :
          /\ Heaped(s) /\ s.fire = timers.fire /\ s.heap = timers.heap
          /\ s.firing = timers.firing /\ s.due = timers.due
          /\ s.id = timers.id /\ s.user = timers.user
          /\ timers' = SetNextFireTime(s, t, time)
  BY <1>0, CodeSetsTimer
<1>3. /\ timers'.firing = s.firing /\ Renewed(s, timers')
      /\ IsSet(s) => IsSet(timers') \/ s.id = "manual"
  BY <1>2, FireTimeSet
<1>4. IsSet(s) <=> IsSet(timers)
  BY <1>2 DEF IsSet, First, InsertedBefore
<1>5. timers'.user => IsSet(timers')
  BY DEF IsSet
<1>6. timers.id = "manual" => timers'.user \/ Passing(stack', TRUE)
  BY <1>1, <1>2, <1>3 DEF Renewed, ShareInv
<1>7. IsSet(timers') \/ Passing(stack', TRUE)
  BY <1>1, <1>2, <1>3, <1>4, <1>5, <1>6 DEF ShareInv
<1>8. timers'.id = "manual" => timers'.user \/ Passing(stack', TRUE)
  BY <1>2, <1>3, <1>6 DEF Renewed
<1> QED  BY <1>1, <1>2, <1>3, <1>7, <1>8 DEF ShareInv, IsSet

LEMMA OthersShare ==
    ASSUME ShareInv, TypeOK', KeepsTimers,
           timers' = timers \/ timers' = FireInNestedLoop(timers)
    PROVE  ShareInv'
<1>0. TypeOK
  BY DEF ShareInv
<1>1. \A m : Passing(stack, m) => Passing(stack', m)
  BY DEF KeepsTimers, Passing
<1>2. CASE timers' = timers
  BY <1>1, <1>2 DEF ShareInv, IsSet
<1>3. CASE timers' = FireInNestedLoop(timers)
  <2>1. /\ timers'.firing = FALSE /\ Renewed(timers, timers')
        /\ IsSet(timers') \/ timers.id = "manual"
    BY <1>0, <1>3, NestedLoopFires
  <2>2. timers.id = "manual" => timers'.user \/ Passing(stack', TRUE)
    BY <1>1, <2>1 DEF Renewed, ShareInv
  <2>3. timers'.id = "manual" => timers'.user \/ Passing(stack', TRUE)
    BY <2>1, <2>2 DEF Renewed
  <2>4. timers'.user => IsSet(timers')
    BY DEF IsSet
  <2>5. timers'.firing # TRUE
    BY <2>1
  <2> QED  BY <2>1, <2>2, <2>3, <2>4, <2>5 DEF ShareInv, IsSet
<1> QED  BY <1>2, <1>3

LEMMA ShareNext == ShareInv /\ [Next]_vars => ShareInv'
<1> SUFFICES ASSUME ShareInv, [Next]_vars PROVE ShareInv'
  OBVIOUS
<1>1. TypeOK /\ TypeOK'
  BY TypeNext DEF ShareInv
<1>2. CASE \E t \in Timers : StartTimer(t) \/ StopTimer(t)
  BY <1>1, <1>2, CodeShares
<1>3. CASE TakeTimerMessage \/ TakeUserMessage \/ TimerReturns
  BY <1>1, <1>3, MessagesShare, ReturnShares
<1> QED  BY <1>1, <1>2, <1>3, OthersKeepTimers, OthersShare

LEMMA ShareInit == Init => ShareInv
BY TypeInit DEF Init, ShareInv, IsSet

LEMMA ShareFollows == ShareInv => SharedTimerIsSet
<1> SUFFICES ASSUME ShareInv, timers.heap # <<>>
             PROVE  IF timers.firing THEN Passing(stack, FALSE)
                    ELSE \/ timers.id # "none" /\ timers.due \in 1..timers.fire[First(timers)]
                         \/ timers.user
                         \/ Passing(stack, TRUE)
  <2>1. ASSUME NEW m
        PROVE  Passing(stack, m)
                 <=> \E i \in DOMAIN stack : stack[i].kind = "timer" /\ (m => stack[i].manual)
    BY DEF Passing, ToSet
  <2> QED  BY <2>1 DEF SharedTimerIsSet
<1>1. timers.firing \in BOOLEAN
  BY DEF ShareInv, TypeOK, TimerRecords
<1> QED  BY <1>1 DEF ShareInv, IsSet

(***************************************************************************)
(* When timers are active, the shared timer is set for the first of them,  *)
(* or messages take its place, or a pass is under way that will see to it  *)
(* (ThreadTimers::updateSharedTimer, setSharedTimerFireTime), however      *)
(* nested loops, timers that fire and failures follow each other.          *)
(***************************************************************************)
THEOREM SharedTimerStaysSet == Spec => []SharedTimerIsSet
<1> QED  BY ShareInit, ShareNext, ShareFollows, PTL DEF Spec

(***************************************************************************)
(* No timer starves another. While t is due, u fires at most once before   *)
(* it is behind t in the heap, or will be when the next pass begins; and   *)
(* once more before it is behind t.                                        *)
(***************************************************************************)
Behind(s, t, u) ==
    u \in ToSet(s.heap) =>
        s.fire[t] < s.fire[u] \/ (s.fire[t] = s.fire[u] /\ Precedes(s.heap, t, u))

\* What is remembered of timers that are due.
PassedDue(s, time) ==
    \A t, u \in Timers :
        /\ s.passed[t][u] # 0 => t # u /\ s.fire[t] # 0 /\ s.fire[t] <= time
        /\ s.passed[t][u] > 1 => s.passed[t][u] = 2 /\ Behind(s, t, u)

\* In a pass that began at time, what fired once is behind, or not due in this pass, or
\* will be behind what was due when the pass began.
PassedOnce(s, time) ==
    \A t, u \in Timers :
        s.passed[t][u] = 1 => Behind(s, t, u) \/ s.fire[u] > time \/ s.fire[t] <= time

StarveInv ==
    /\ TypeOK
    /\ PassedDue(timers, now)
    /\ \A f : timers.firing = TRUE /\ Innermost(stack, f) => PassedOnce(timers, f.pass)

LEMMA PrecedesOneWay ==
    ASSUME NEW S, NEW s \in Seq(S), \A x : ~Precedes(s, x, x), NEW x, NEW y, Precedes(s, x, y)
    PROVE  ~Precedes(s, y, x)
<1> SUFFICES ASSUME Precedes(s, y, x) PROVE FALSE
  OBVIOUS
<1>1. PICK i \in DOMAIN s, j \in DOMAIN s : i < j /\ s[i] = x /\ s[j] = y
  BY DEF Precedes
<1>2. PICK k \in DOMAIN s, l \in DOMAIN s : k < l /\ s[k] = y /\ s[l] = x
  BY DEF Precedes
<1>3. i \in Nat /\ j \in Nat /\ k \in Nat /\ l \in Nat
  OBVIOUS
<1>4. i < l \/ k < j
  BY <1>1, <1>2, <1>3
<1>5. Precedes(s, x, x) \/ Precedes(s, y, y)
  BY <1>1, <1>2, <1>4 DEF Precedes
<1> QED  BY <1>5

\* The first of the heap is behind nobody.
LEMMA FirstIsAhead ==
    ASSUME NEW s, Heaped(s), s.heap # <<>>, NEW t \in Timers, s.fire[t] # 0, t # First(s)
    PROVE  ~Behind(s, t, First(s))
<1> DEFINE f == First(s)
<1>1. /\ f \in ToSet(s.heap) /\ f \in Timers
      /\ \A x \in ToSet(s.heap) : \/ s.fire[f] < s.fire[x]
                                  \/ s.fire[f] = s.fire[x] /\ (x = f \/ Precedes(s.heap, f, x))
  BY FirstIsLeast
<1>2. t \in ToSet(s.heap)
  BY DEF Heaped
<1>3. s.heap \in Seq(Timers) /\ s.fire[t] \in Nat /\ s.fire[f] \in Nat
  BY <1>1 DEF Heaped, TimerRecords
<1> HIDE DEF f
<1>4. s.fire[f] < s.fire[t] \/ (s.fire[f] = s.fire[t] /\ Precedes(s.heap, f, t))
  BY <1>1, <1>2 DEF f
<1>5. Precedes(s.heap, f, t) => ~Precedes(s.heap, t, f)
  BY <1>3, PrecedesOneWay DEF Heaped
<1>6. ~Behind(s, t, f)
  BY <1>1, <1>3, <1>4, <1>5 DEF Behind
<1> QED  BY <1>6 DEF f

\* A timer moves behind those that are due before its new time.
LEMMA MovedBehind ==
    ASSUME NEW s, NEW u, Heaped(s), Heaped(u), NEW x \in Timers, NEW time \in Nat,
           MovesTo(s, u, x, time), NEW t \in Timers, t # x
    PROVE  /\ u.fire[t] = s.fire[t] /\ u.passed[t] = s.passed[t]
           /\ s.fire[t] # 0 /\ (time = 0 \/ time >= s.fire[t]) => Behind(u, t, x)
           /\ \A v \in Timers \ {x} :
                 u.fire[v] = s.fire[v] /\ (Behind(u, t, v) <=> Behind(s, t, v))
<1>1. /\ s.fire \in [Timers -> Nat] /\ u.fire = [s.fire EXCEPT ![x] = time]
      /\ u.passed = Forget(s, x)
      /\ s.passed \in [Timers -> [Timers -> 0..3]]
      /\ \A a, b : Precedes(u.heap, a, b)
                     <=> \/ Precedes(s.heap, a, b) /\ a # x /\ b # x
                         \/ time # 0 /\ b = x /\ a \in ToSet(s.heap) \ {x}
  BY DEF Heaped, TimerRecords, MovesTo
<1>2. u.fire[t] = s.fire[t] /\ u.passed[t] = s.passed[t] /\ u.fire[x] = time
      /\ s.fire[t] \in Nat
  BY <1>1 DEF Forget
<1>3. /\ \A v \in Timers : v \in ToSet(s.heap) <=> s.fire[v] # 0
      /\ \A v \in Timers : v \in ToSet(u.heap) <=> u.fire[v] # 0
  BY DEF Heaped
<1>4. ASSUME s.fire[t] # 0, time = 0 \/ time >= s.fire[t] PROVE Behind(u, t, x)
  <2>1. CASE time = 0
    BY <1>2, <1>3, <2>1 DEF Behind
  <2>2. CASE time # 0
    <3>1. Precedes(u.heap, t, x)
      BY <1>1, <1>3, <1>4, <2>2
    <3> QED  BY <1>2, <1>4, <2>2, <3>1 DEF Behind
  <2> QED  BY <2>1, <2>2
<1>5. ASSUME NEW v \in Timers \ {x}
      PROVE  u.fire[v] = s.fire[v] /\ (Behind(u, t, v) <=> Behind(s, t, v))
  <2>1. u.fire[v] = s.fire[v]
    BY <1>1
  <2>2. v \in ToSet(u.heap) <=> v \in ToSet(s.heap)
    BY <1>3, <2>1
  <2>3. Precedes(u.heap, t, v) <=> Precedes(s.heap, t, v)
    BY <1>1
  <2> QED  BY <1>2, <2>1, <2>2, <2>3 DEF Behind
<1> QED  BY <1>2, <1>4, <1>5

LEMMA MovedForgets ==
    ASSUME NEW s, NEW u, Heaped(s), NEW x \in Timers, NEW time, MovesTo(s, u, x, time)
    PROVE  \A v \in Timers : u.passed[x][v] = 0
<1>1. s.passed \in [Timers -> [Timers -> 0..3]] /\ u.passed = Forget(s, x)
  BY DEF Heaped, TimerRecords, MovesTo
<1> QED  BY <1>1 DEF Forget

\* Code that starts a timer, from now on, or stops it.
LEMMA SetStarvesNobody ==
    ASSUME NEW s, Heaped(s), NEW x \in Timers, NEW time \in Nat, NEW limit \in Nat,
           PassedDue(s, limit), time = 0 \/ time >= limit
    PROVE  LET u == SetNextFireTime(s, x, time)
           IN /\ PassedDue(u, limit)
              /\ \A pass \in Nat : PassedOnce(s, pass) => PassedOnce(u, pass)
<1> DEFINE u == SetNextFireTime(s, x, time)
<1>1. Heaped(u) /\ IF s.fire[x] = time THEN u = s ELSE MovesTo(s, u, x, time)
  BY FireTimeSet
<1> HIDE DEF u
<1>2. CASE u = s
  BY <1>2 DEF u
<1>3. CASE MovesTo(s, u, x, time)
  <2>0. s.fire \in [Timers -> Nat] /\ u.fire \in [Timers -> Nat]
    BY <1>1 DEF Heaped, TimerRecords
  <2>1. \A v \in Timers : u.passed[x][v] = 0
    BY <1>3, MovedForgets
  <2>2. ASSUME NEW t \in Timers, NEW v \in Timers, u.passed[t][v] # 0
        PROVE  /\ t # x /\ u.passed[t][v] = s.passed[t][v] /\ u.fire[t] = s.fire[t]
               /\ t # v /\ u.fire[t] # 0 /\ u.fire[t] <= limit
               /\ v = x => Behind(u, t, v)
               /\ v # x => u.fire[v] = s.fire[v] /\ (Behind(u, t, v) <=> Behind(s, t, v))
    <3>1. t # x
      BY <2>1, <2>2
    <3>2. /\ u.fire[t] = s.fire[t] /\ u.passed[t] = s.passed[t]
          /\ s.fire[t] # 0 /\ (time = 0 \/ time >= s.fire[t]) => Behind(u, t, x)
          /\ \A w \in Timers \ {x} :
                u.fire[w] = s.fire[w] /\ (Behind(u, t, w) <=> Behind(s, t, w))
      BY <1>1, <1>3, <3>1, MovedBehind
    <3>3. t # v /\ s.fire[t] # 0 /\ s.fire[t] <= limit
      BY <2>2, <3>2 DEF PassedDue
    <3>4. time = 0 \/ time >= s.fire[t]
      BY <2>0, <3>3
    <3> QED  BY <3>1, <3>2, <3>3, <3>4
  <2>3. \A t, v \in Timers : s.passed[t][v] \in 0..3 /\ u.passed[t][v] \in 0..3
    BY <1>1 DEF Heaped, TimerRecords
  <2>4. PassedDue(u, limit)
    <3>1. ASSUME NEW t \in Timers, NEW v \in Timers, u.passed[t][v] > 1
          PROVE  u.passed[t][v] = 2 /\ Behind(u, t, v)
      <4>1. u.passed[t][v] # 0
        BY <2>3, <3>1
      <4>2. s.passed[t][v] > 1 /\ u.passed[t][v] = s.passed[t][v]
        BY <2>2, <3>1, <4>1
      <4>3. s.passed[t][v] = 2 /\ Behind(s, t, v)
        BY <4>2 DEF PassedDue
      <4> QED  BY <2>2, <4>1, <4>2, <4>3
    <3> QED  BY <2>2, <3>1 DEF PassedDue
  <2>5. ASSUME NEW pass \in Nat, PassedOnce(s, pass) PROVE PassedOnce(u, pass)
    <3>1. ASSUME NEW t \in Timers, NEW v \in Timers, u.passed[t][v] = 1
          PROVE  Behind(u, t, v) \/ u.fire[v] > pass \/ u.fire[t] <= pass
      <4>1. u.passed[t][v] # 0 /\ s.passed[t][v] = 1
        BY <2>2, <3>1
      <4>2. Behind(s, t, v) \/ s.fire[v] > pass \/ s.fire[t] <= pass
        BY <2>5, <4>1 DEF PassedOnce
      <4> QED  BY <2>2, <4>1, <4>2
    <3> QED  BY <3>1 DEF PassedOnce
  <2> QED  BY <2>4, <2>5 DEF u
<1> QED  BY <1>1, <1>2, <1>3

\* The first timer fires. What it passes now for the second time was due when the pass
\* began, and its next time comes after that.
LEMMA TakeStarvesNobody ==
    ASSUME TypeOK, NEW s, Heaped(s), s.heap # <<>>, NEW pass \in Nat,
           s.fire[First(s)] <= pass, PassedDue(s, now), PassedOnce(s, pass)
    PROVE  LET u == TakeFirst(s, pass) IN PassedDue(u, now) /\ PassedOnce(u, pass)
<1> DEFINE u == TakeFirst(s, pass)
           f == First(s)
           p == Popped(s)
           next == NextRepeat(p, f, pass)
<1>1. /\ Heaped(p) /\ p.fire = [s.fire EXCEPT ![f] = 0] /\ p.passed = Remember(s, f)
      /\ ToSet(p.heap) = ToSet(s.heap) \ {f}
      /\ \A x, y : Precedes(p.heap, x, y) <=> Precedes(s.heap, x, y) /\ x # f /\ y # f
  BY PopFirst
<1>2. Heaped(u) /\ u = SetNextFireTime(p, f, next) /\ f \in Timers
  BY FirstTaken, FirstIsLeast
<1>3. next \in Nat /\ (next # 0 => next > pass)
  BY <1>1, <1>2, RepeatIsTime DEF Heaped
<1>5. \A t \in Timers : t # f => ~Behind(s, t, f) \/ s.fire[t] = 0
  BY FirstIsAhead
<1>6. s.fire[f] <= pass
  OBVIOUS
<1> HIDE DEF u, f, p, next
<1>a. Heaped(p) /\ Heaped(u) /\ f \in Timers /\ next \in Nat
  BY <1>1, <1>2, <1>3
<1>4. IF p.fire[f] = next THEN u = p ELSE MovesTo(p, u, f, next)
  BY <1>a, <1>2, FireTimeSet
<1>7. /\ s.fire \in [Timers -> Nat] /\ u.fire \in [Timers -> Nat] /\ now \in Nat
      /\ \A t, v \in Timers : s.passed[t][v] \in 0..3 /\ u.passed[t][v] \in 0..3
  <2>1. \A k : Heaped(k) => /\ k.fire \in [Timers -> Nat]
                            /\ \A t, v \in Timers : k.passed[t][v] \in 0..3
    BY DEF Heaped, TimerRecords
  <2>2. now \in Nat
    BY DEF TypeOK, Start
  <2> QED  BY <1>a, <2>1, <2>2
<1>8. p.fire[f] = 0
  BY <1>1, <1>2, <1>7
\* What is remembered of the others: only f may have passed them once more.
<1>9. ASSUME NEW t \in Timers
      PROVE  /\ \A v \in Timers : t = f => p.passed[t][v] = 0
             /\ \A v \in Timers : t # f /\ v # f => p.passed[t][v] = s.passed[t][v]
             /\ t # f /\ (s.fire[t] = 0 \/ s.fire[t] > now) => p.passed[t][f] = s.passed[t][f]
             /\ t # f /\ s.passed[t][f] < 3 => p.passed[t][f] \in {s.passed[t][f], s.passed[t][f] + 1}
  <2>1. \A v \in Timers : p.passed[t][v] =
            CASE t = f -> 0
              [] t # f /\ v = f /\ s.fire[t] # 0 /\ s.fire[t] <= now /\ s.passed[t][v] < 3
                   -> s.passed[t][v] + 1
              [] OTHER -> s.passed[t][v]
    BY <1>1 DEF Remember
  <2>2. s.fire[t] \in Nat
    BY <1>7
  <2>3. \A v \in Timers : t = f => p.passed[t][v] = 0
    BY <2>1
  <2>4. \A v \in Timers : t # f /\ v # f => p.passed[t][v] = s.passed[t][v]
    BY <2>1
  <2>5. t # f /\ (s.fire[t] = 0 \/ s.fire[t] > now) => p.passed[t][f] = s.passed[t][f]
    BY <1>2, <1>7, <2>1, <2>2
  <2>6. t # f /\ s.passed[t][f] < 3 => p.passed[t][f] \in {s.passed[t][f], s.passed[t][f] + 1}
    BY <1>2, <2>1
  <2> QED  BY <2>3, <2>4, <2>5, <2>6
\* The others keep their places.
<1>10. ASSUME NEW t \in Timers, t # f
       PROVE  /\ u.fire[t] = s.fire[t] /\ u.passed[t] = p.passed[t]
              /\ s.fire[t] # 0 /\ (next = 0 \/ next >= s.fire[t]) => Behind(u, t, f)
              /\ u.fire[f] = next
              /\ \A v \in Timers \ {f} :
                    u.fire[v] = s.fire[v] /\ (Behind(u, t, v) <=> Behind(s, t, v))
  <2>1. /\ p.fire[t] = s.fire[t]
        /\ \A v \in Timers \ {f} :
              p.fire[v] = s.fire[v] /\ (Behind(p, t, v) <=> Behind(s, t, v))
    BY <1>1, <1>7, <1>10 DEF Behind
  <2>2. CASE next = 0
    <3>1. u = p
      BY <1>4, <1>8, <2>2
    <3>2. f \notin ToSet(u.heap)
      BY <1>1, <3>1
    <3> QED  BY <1>8, <2>1, <2>2, <3>1, <3>2 DEF Behind
  <2>3. CASE next # 0
    <3>1. MovesTo(p, u, f, next)
      BY <1>4, <1>8, <2>3
    <3>2. /\ u.fire[t] = p.fire[t] /\ u.passed[t] = p.passed[t]
          /\ p.fire[t] # 0 /\ (next = 0 \/ next >= p.fire[t]) => Behind(u, t, f)
          /\ \A v \in Timers \ {f} :
                u.fire[v] = p.fire[v] /\ (Behind(u, t, v) <=> Behind(p, t, v))
      BY <1>a, <1>10, <3>1, MovedBehind
    <3>3. u.fire[f] = next
      <4>1. u.fire = [p.fire EXCEPT ![f] = next] /\ p.fire \in [Timers -> Nat]
        BY <1>1, <3>1 DEF MovesTo, Heaped, TimerRecords
      <4> QED  BY <1>2, <4>1
    <3> QED  BY <2>1, <3>2, <3>3
  <2> QED  BY <2>2, <2>3
<1>11. ASSUME NEW v \in Timers PROVE u.passed[f][v] = 0
  <2>1. CASE u = p
    BY <1>2, <1>9, <2>1
  <2>2. CASE MovesTo(p, u, f, next)
    BY <1>a, <2>2, MovedForgets
  <2> QED  BY <1>4, <2>1, <2>2
<1>12. ASSUME NEW t \in Timers, NEW v \in Timers, u.passed[t][v] # 0
       PROVE  /\ t # v /\ u.fire[t] # 0 /\ u.fire[t] <= now
              /\ u.passed[t][v] > 1 => u.passed[t][v] = 2 /\ Behind(u, t, v)
              /\ u.passed[t][v] = 1 => Behind(u, t, v) \/ u.fire[v] > pass \/ u.fire[t] <= pass
  <2>1. t # f
    BY <1>11, <1>12
  <2>2. CASE v # f
    <3>1. u.passed[t][v] = s.passed[t][v] /\ u.fire[t] = s.fire[t] /\ u.fire[v] = s.fire[v]
          /\ (Behind(u, t, v) <=> Behind(s, t, v))
      BY <1>9, <1>10, <2>1, <2>2
    <3>2. t # v /\ s.fire[t] # 0 /\ s.fire[t] <= now
      BY <1>12, <3>1 DEF PassedDue
    <3>3. s.passed[t][v] > 1 => s.passed[t][v] = 2 /\ Behind(s, t, v)
      BY DEF PassedDue
    <3>4. s.passed[t][v] = 1 => Behind(s, t, v) \/ s.fire[v] > pass \/ s.fire[t] <= pass
      BY DEF PassedOnce
    <3> QED  BY <3>1, <3>2, <3>3, <3>4
  <2>3. CASE v = f
    <3>1. u.passed[t][v] = p.passed[t][f] /\ u.fire[t] = s.fire[t] /\ u.fire[f] = next
      BY <1>10, <2>1, <2>3
    <3>2. s.fire[t] # 0 /\ s.fire[t] <= now
      <4>1. s.passed[t][f] # 0 => s.fire[t] # 0 /\ s.fire[t] <= now
        BY <1>2 DEF PassedDue
      <4>2. s.fire[t] \in Nat
        BY <1>7
      <4> QED  BY <1>7, <1>9, <1>12, <2>1, <3>1, <4>1, <4>2
    <3>3. ~Behind(s, t, f)
      BY <1>5, <2>1, <3>2
    <3>4. s.passed[t][f] \in {0, 1}
      <4>1. ~(s.passed[t][f] > 1)
        BY <1>2, <3>3 DEF PassedDue
      <4>2. s.passed[t][f] \in 0..3
        BY <1>a, <1>7
      <4> QED  BY <4>1, <4>2
    <3>5. p.passed[t][f] \in {s.passed[t][f], s.passed[t][f] + 1}
      BY <1>9, <2>1, <3>4
    <3>6. s.passed[t][f] = 1 => s.fire[t] <= pass
      <4>1. s.passed[t][f] = 1 => Behind(s, t, f) \/ s.fire[f] > pass \/ s.fire[t] <= pass
        BY <1>2 DEF PassedOnce
      <4>2. s.fire[f] \in Nat
        BY <1>2, <1>7
      <4> QED  BY <1>6, <3>3, <4>1, <4>2
    <3>7. s.passed[t][f] = 1 => Behind(u, t, f)
      <4>1. s.fire[t] \in Nat
        BY <1>7
      <4>2. s.passed[t][f] = 1 => next = 0 \/ next >= s.fire[t]
        BY <1>3, <3>6, <4>1
      <4> QED  BY <1>10, <2>1, <3>2, <4>2
    <3>8. Behind(u, t, f) \/ u.fire[f] > pass
      <4>1. next = 0 \/ next > pass
        BY <1>3
      <4> QED  BY <1>10, <2>1, <3>1, <3>2, <4>1
    <3>9. u.passed[t][v] \in {1, 2} /\ (u.passed[t][v] = 2 => s.passed[t][f] = 1)
      BY <1>12, <3>1, <3>4, <3>5
    <3> QED  BY <2>1, <2>3, <3>1, <3>2, <3>7, <3>8, <3>9
  <2> QED  BY <2>2, <2>3
<1>13. PassedDue(u, now)
  <2>1. ASSUME NEW t \in Timers, NEW v \in Timers, u.passed[t][v] > 1
        PROVE  u.passed[t][v] # 0
    BY <1>7, <2>1
  <2> QED  BY <1>12, <2>1 DEF PassedDue
<1>14. PassedOnce(u, pass)
  BY <1>12 DEF PassedOnce
<1> QED  BY <1>13, <1>14 DEF u

LEMMA SameStarves ==
    ASSUME NEW s, NEW u, u.fire = s.fire, u.heap = s.heap, u.passed = s.passed
    PROVE  /\ \A time : PassedDue(s, time) => PassedDue(u, time)
           /\ \A time : PassedOnce(s, time) => PassedOnce(u, time)
BY DEF PassedDue, PassedOnce, Behind

\* When a pass begins, whatever has been passed is due.
LEMMA BeginStarvesNobody ==
    ASSUME NEW s, NEW time, PassedDue(s, time) PROVE PassedOnce(s, time)
<1>1. ASSUME NEW t \in Timers, NEW u \in Timers, s.passed[t][u] = 1
      PROVE  s.fire[t] <= time
  <2>1. s.passed[t][u] # 0
    BY <1>1
  <2> QED  BY <2>1 DEF PassedDue
<1> QED  BY <1>1 DEF PassedOnce

LEMMA FiringStarvesNobody ==
    ASSUME StarveInv, NEW s, Heaped(s), NEW rest \in Seq(Frames), NEW pass \in Start..MaxTime,
           NEW manual \in BOOLEAN, PassedDue(s, now), PassedOnce(s, pass),
           Fires(s, rest, pass, manual), TypeOK', now' = now
    PROVE  StarveInv'
<1>1. s.heap # <<>> /\ s.fire[First(s)] <= pass /\ timers' = TakeFirst(s, pass)
  BY DEF Fires
<1>2. TypeOK /\ pass \in Nat
  BY ConstantsAssumption DEF StarveInv, Start
<1>3. PassedDue(timers', now) /\ PassedOnce(timers', pass)
  BY <1>1, <1>2, TakeStarvesNobody
<1>4. \A g : Innermost(stack', g) => g.pass = pass
  BY FiresPasses
<1>5. PassedDue(timers', now')
  BY <1>3
<1> QED  BY <1>3, <1>4, <1>5 DEF StarveInv, PassedDue, PassedOnce, Behind, Precedes

LEMMA RestStarvesNobody ==
    ASSUME StarveInv, NEW s, NEW rest, NEW manual, PassedDue(s, now), Rests(s, rest, manual),
           TypeOK', now' = now
    PROVE  StarveInv'
<1>1. timers'.firing # TRUE /\ PassedDue(timers', now')
  BY SameStarves DEF Rests
<1> QED  BY <1>1 DEF StarveInv, PassedDue, Behind, Precedes

LEMMA MessagesStarveNobody ==
    ASSUME StarveInv, TakeTimerMessage \/ TakeUserMessage, TypeOK' PROVE StarveInv'
<1>0. TypeOK /\ stack \in Seq(Frames) /\ now \in Start..MaxTime /\ PassedDue(timers, now)
  BY DEF StarveInv, TypeOK
<1>1. now' = now
  BY DEF TakeTimerMessage, TakeUserMessage
<1>2. \E s : \E manual \in BOOLEAN :
          /\ Heaped(s) /\ s.fire = timers.fire /\ s.heap = timers.heap
          /\ s.passed = timers.passed /\ s.firing = timers.firing
          /\ SharedTimerFired(s, manual)
  <2>1. CASE TakeTimerMessage
    <3>1. SharedTimerFired(timers, FALSE) /\ Heaped(timers) /\ FALSE \in BOOLEAN
      BY <1>0, <2>1, TypedHeap DEF TakeTimerMessage
    <3> QED  BY <3>1
  <2>2. CASE TakeUserMessage
    <3> DEFINE s == UserMessage(timers)
    <3>1. SharedTimerFired(s, TRUE) /\ TRUE \in BOOLEAN
      BY <2>2 DEF TakeUserMessage
    <3>2. /\ Heaped(s) /\ s.fire = timers.fire /\ s.heap = timers.heap
          /\ s.passed = timers.passed /\ s.firing = timers.firing
      BY <1>0, UserMessageTaken
    <3> HIDE DEF s
    <3> QED  BY <3>1, <3>2
  <2> QED  BY <2>1, <2>2
<1>3. PICK s : \E manual \in BOOLEAN :
          /\ Heaped(s) /\ s.fire = timers.fire /\ s.heap = timers.heap
          /\ s.passed = timers.passed /\ s.firing = timers.firing
          /\ SharedTimerFired(s, manual)
  BY <1>2
<1>4. PICK manual \in BOOLEAN : SharedTimerFired(s, manual)
  BY <1>3
<1>5. CASE /\ timers'.fire = s.fire /\ timers'.heap = s.heap /\ timers'.passed = s.passed
           /\ s.firing = TRUE /\ stack' = stack
  <2>1. /\ timers'.fire = timers.fire /\ timers'.heap = timers.heap
        /\ timers'.passed = timers.passed /\ timers.firing = TRUE
    BY <1>3, <1>5
  <2>2. /\ PassedDue(timers', now')
        /\ \A time : PassedOnce(timers, time) => PassedOnce(timers', time)
    BY <1>0, <1>1, <2>1, SameStarves
  <2> QED  BY <1>5, <2>1, <2>2 DEF StarveInv, PassedDue, PassedOnce, Behind, Precedes
<1>6. CASE PassBegins(s, manual)
  <2>1. PICK b : /\ Heaped(b) /\ b.fire = s.fire /\ b.heap = s.heap /\ b.passed = s.passed
                 /\ Fires(b, stack, now, manual) \/ Rests(b, stack, manual)
    BY <1>6 DEF PassBegins
  <2>2. PassedDue(b, now)
    <3>1. b.fire = timers.fire /\ b.heap = timers.heap /\ b.passed = timers.passed
      BY <1>3, <2>1
    <3> QED  BY <1>0, <3>1, SameStarves
  <2>3. PassedOnce(b, now)
    BY <2>2, BeginStarvesNobody
  <2> QED  BY <1>0, <1>1, <2>1, <2>2, <2>3, FiringStarvesNobody, RestStarvesNobody
<1> QED  BY <1>0, <1>3, <1>4, <1>5, <1>6, MessageTaken

\* A pass goes on with its own time: had another one begun since, it would be over now,
\* and with it the firing of timers.
LEMMA ReturnStarvesNobody ==
    ASSUME StarveInv, TimerReturns, TypeOK'
    PROVE  StarveInv'
<1> DEFINE f == Head(stack)
           r == Tail(stack)
<1>0. TypeOK /\ stack \in Seq(Frames) /\ PassedDue(timers, now) /\ Heaped(timers)
  BY TypedHeap DEF StarveInv, TypeOK
<1>1. /\ stack # <<>> /\ f \in Frames /\ f.kind = "timer"
      /\ f.pass \in Start..MaxTime /\ f.manual \in BOOLEAN /\ OnlyTimers
      /\ \/ Rests(timers, r, f.manual)
         \/ timers.firing = TRUE /\ Fires(timers, r, f.pass, f.manual)
  BY <1>0, TimerReturned
<1>2. r \in Seq(Frames) /\ Innermost(stack, f) /\ now' = now
  BY <1>0, <1>1, PopOff, PopInnermost DEF OnlyTimers
<1> HIDE DEF f, r
<1>4. CASE Rests(timers, r, f.manual)
  BY <1>0, <1>2, <1>4, RestStarvesNobody
<1>5. CASE timers.firing = TRUE /\ Fires(timers, r, f.pass, f.manual)
  <2>1. PassedOnce(timers, f.pass)
    BY <1>2, <1>5 DEF StarveInv
  <2> QED  BY <1>0, <1>1, <1>2, <1>5, <2>1, FiringStarvesNobody
<1> QED  BY <1>1, <1>4, <1>5

LEMMA CodeStarvesNobody ==
    ASSUME StarveInv, NEW t \in Timers, StartTimer(t) \/ StopTimer(t), TypeOK'
    PROVE  StarveInv'
<1>0. TypeOK /\ PassedDue(timers, now) /\ now \in Nat /\ stack \in Seq(Frames)
  BY DEF StarveInv, TypeOK, Start
<1>1. OnlyTimers /\ stack' = stack
  BY <1>0, CodeSetsTimer
<1>2. PICK s : \E time \in Nat :
          /\ Heaped(s) /\ s.fire = timers.fire /\ s.heap = timers.heap
          /\ s.passed = timers.passed /\ s.firing = timers.firing
          /\ timers' = SetNextFireTime(s, t, time) /\ (time = 0 \/ time >= now)
  BY <1>0, CodeSetsTimer
<1>3. PICK time \in Nat : timers' = SetNextFireTime(s, t, time) /\ (time = 0 \/ time >= now)
  BY <1>2
<1>4. /\ PassedDue(s, now)
      /\ \A pass : PassedOnce(timers, pass) => PassedOnce(s, pass)
  BY <1>0, <1>2, SameStarves
<1>5. /\ PassedDue(timers', now) /\ timers'.firing = timers.firing
      /\ \A pass \in Nat : PassedOnce(s, pass) => PassedOnce(timers', pass)
  BY <1>0, <1>2, <1>3, <1>4, SetStarvesNobody, FireTimeSet
<1>6. ASSUME NEW f, Innermost(stack, f) PROVE f.pass \in Nat
  <2>1. f \in Frames /\ f.kind = "timer"
    BY <1>0, <1>6, ElementOfSeq DEF Innermost
  <2>2. f.pass \in Start..MaxTime
    BY <2>1 DEF Frames
  <2> QED  BY <2>2, ConstantsAssumption DEF Start
<1>7. PassedDue(timers', now')
  BY <1>1, <1>5 DEF OnlyTimers
<1>8. ASSUME NEW f, timers'.firing = TRUE, Innermost(stack', f) PROVE PassedOnce(timers', f.pass)
  BY <1>1, <1>4, <1>5, <1>6, <1>8 DEF StarveInv
<1> QED  BY <1>7, <1>8 DEF StarveInv, PassedDue, PassedOnce, Behind, Precedes

LEMMA OthersStarveNobody ==
    ASSUME StarveInv, TypeOK', KeepsTimers, now' \in {now, now + 1},
           timers' = timers \/ timers' = FireInNestedLoop(timers)
    PROVE  StarveInv'
<1>0. TypeOK /\ PassedDue(timers, now) /\ now \in Nat /\ now' >= now
  BY DEF StarveInv, TypeOK, Start
<1>1. /\ timers'.fire = timers.fire /\ timers'.heap = timers.heap
      /\ timers'.passed = timers.passed
      /\ timers'.firing = TRUE => timers.firing = TRUE
  BY <1>0, NestedLoopFires
<1>2. /\ PassedDue(timers', now)
      /\ \A pass : PassedOnce(timers, pass) => PassedOnce(timers', pass)
  BY <1>0, <1>1, SameStarves
<1>3. timers.fire \in [Timers -> Nat] /\ now' \in Nat
  BY <1>0 DEF TypeOK, TimerRecords
<1>4. \A t \in Timers : timers'.fire[t] <= now => timers'.fire[t] <= now'
  BY <1>0, <1>1, <1>3
<1>5. PassedDue(timers', now')
  BY <1>2, <1>4 DEF PassedDue
<1>6. ASSUME NEW f, timers'.firing = TRUE, Innermost(stack', f) PROVE PassedOnce(timers', f.pass)
  BY <1>1, <1>2, <1>6 DEF StarveInv, KeepsTimers
<1> QED  BY <1>5, <1>6 DEF StarveInv, PassedDue, PassedOnce, Behind, Precedes

LEMMA StarveNext == StarveInv /\ [Next]_vars => StarveInv'
<1> SUFFICES ASSUME StarveInv, [Next]_vars PROVE StarveInv'
  OBVIOUS
<1>1. TypeOK /\ TypeOK'
  BY TypeNext DEF StarveInv
<1>2. CASE \E t \in Timers : StartTimer(t) \/ StopTimer(t)
  BY <1>1, <1>2, CodeStarvesNobody
<1>3. CASE TakeTimerMessage \/ TakeUserMessage \/ TimerReturns
  BY <1>1, <1>3, MessagesStarveNobody, ReturnStarvesNobody
<1> QED  BY <1>1, <1>2, <1>3, OthersKeepTimers, OthersStarveNobody

LEMMA StarveInit == Init => StarveInv
<1> SUFFICES ASSUME Init PROVE StarveInv
  OBVIOUS
<1>1. timers.firing # TRUE /\ \A t, u \in Timers : timers.passed[t][u] = 0
  BY DEF Init
<1>2. PassedDue(timers, now)
  BY <1>1 DEF PassedDue
<1> QED  BY <1>1, <1>2, TypeInit DEF StarveInv

LEMMA StarveFollows == StarveInv => NobodyStarves
<1> SUFFICES ASSUME StarveInv, NEW t \in Timers, NEW u \in Timers PROVE timers.passed[t][u] <= 2
  BY DEF NobodyStarves
<1>1. timers.passed[t][u] \in 0..3
  BY DEF StarveInv, TypeOK, TimerRecords
<1>2. timers.passed[t][u] > 1 => timers.passed[t][u] = 2
  BY DEF StarveInv, PassedDue
<1> QED  BY <1>1, <1>2

(***************************************************************************)
(* While a timer is due, any other fires at most twice before it, however  *)
(* often the other repeats, is started again by what fires, or nested      *)
(* loops begin passes of their own (ThreadTimers::sharedTimerFiredInternal,*)
(* TimerBase::setNextFireTime, the order of the heap).                     *)
(***************************************************************************)
THEOREM TimersDoNotStarve == Spec => []NobodyStarves
<1> QED  BY StarveInit, StarveNext, StarveFollows, PTL DEF Spec

(***************************************************************************)
(* The type of the state, and in particular: a timer is in the heap, once, *)
(* exactly when it has a time to fire (TimerBase::checkConsistency).       *)
(***************************************************************************)
THEOREM TypeCorrect == Spec => []TypeOK
<1> QED  BY TypeInit, TypeNext, PTL DEF Spec

(***************************************************************************)
(* Who waits for a call is waited for: the call is queued, or runs. The    *)
(* mutex of the queue is kept until the thread waits, so that the call     *)
(* cannot be taken, and its end signalled, before.                         *)
(***************************************************************************)
QueuedFor(w) == \E c \in ToSet(functions) : c.waiter = w

RunsFor(w) == \E f \in ToSet(stack) : f.kind = "function" /\ f.waiter = w

WaitInv ==
    /\ TypeOK
    /\ \A w \in Threads :
           /\ thread[w] = "called" => lock = w /\ QueuedFor(w)
           /\ thread[w] = "waiting" => QueuedFor(w) \/ RunsFor(w)

KeepsFunctions == \A f \in ToSet(stack) : f.kind = "function" => f \in ToSet(stack')

LEMMA SameWaits ==
    ASSUME WaitInv, TypeOK', UNCHANGED <<functions, lock, thread>>, KeepsFunctions
    PROVE  WaitInv'
BY DEF WaitInv, QueuedFor, RunsFor, KeepsFunctions

LEMMA PushKeepsFunctions ==
    ASSUME stack \in Seq(Frames), NEW f \in Frames, stack' = <<f>> \o stack
    PROVE  KeepsFunctions
BY PushOn DEF KeepsFunctions

LEMMA PopKeepsFunctions ==
    ASSUME stack \in Seq(Frames), stack # <<>>, Head(stack).kind # "function",
           stack' = Tail(stack)
    PROVE  KeepsFunctions
BY PopOff DEF KeepsFunctions

LEMMA TimersKeepFunctions ==
    ASSUME TypeOK, TakeTimerMessage \/ TakeUserMessage \/ TimerReturns
    PROVE  KeepsFunctions
<1>0. stack \in Seq(Frames) /\ Heaped(timers)
  BY TypedHeap DEF TypeOK
<1>1. ASSUME NEW b, NEW time, NEW manual, Fires(b, stack, time, manual) \/ Rests(b, stack, manual)
      PROVE  KeepsFunctions
  <2> DEFINE f == TimerFrame(First(b), time, manual)
  <2>1. CASE stack' = stack
    BY <2>1 DEF KeepsFunctions
  <2>2. CASE f \in Frames /\ stack' = <<f>> \o stack
    <3> HIDE DEF f
    <3> QED  BY <1>0, <2>2, PushKeepsFunctions
  <2> QED  BY <1>1, <2>1, <2>2 DEF Fires, Rests
<1>2. ASSUME NEW s, Heaped(s), NEW manual \in BOOLEAN, SharedTimerFired(s, manual)
      PROVE  KeepsFunctions
  <2>1. CASE stack' = stack
    BY <2>1 DEF KeepsFunctions
  <2>2. CASE PassBegins(s, manual)
    BY <1>1, <2>2 DEF PassBegins
  <2> QED  BY <1>2, <2>1, <2>2, MessageTaken
<1>3. CASE TakeTimerMessage
  <2>1. SharedTimerFired(timers, FALSE) /\ FALSE \in BOOLEAN
    BY <1>3 DEF TakeTimerMessage
  <2> QED  BY <1>0, <1>2, <2>1
<1>4. CASE TakeUserMessage
  <2> DEFINE s == UserMessage(timers)
  <2>1. SharedTimerFired(s, TRUE) /\ TRUE \in BOOLEAN
    BY <1>4 DEF TakeUserMessage
  <2>2. Heaped(s)
    BY UserMessageTaken
  <2> HIDE DEF s
  <2> QED  BY <1>2, <2>1, <2>2
<1>5. CASE TimerReturns
  <2> DEFINE f == Head(stack)
             r == Tail(stack)
             g == TimerFrame(First(timers), f.pass, f.manual)
  <2>1. /\ stack # <<>> /\ f.kind = "timer"
        /\ stack' = r \/ (g \in Frames /\ stack' = <<g>> \o r)
    BY <1>5, TimerReturned DEF Fires, Rests
  <2>2. r \in Seq(Frames) /\ ToSet(stack) = {f} \cup ToSet(r)
    BY <1>0, <2>1, PopOff
  <2> HIDE DEF f, r, g
  <2>3. ToSet(r) \subseteq ToSet(stack')
    <3>1. CASE stack' = r
      BY <3>1
    <3>2. CASE g \in Frames /\ stack' = <<g>> \o r
      <4>1. ToSet(<<g>> \o r) = {g} \cup ToSet(r)
        BY <2>2, <3>2, PushOn
      <4> QED  BY <3>2, <4>1
    <3> QED  BY <2>1, <3>1, <3>2
  <2> QED  BY <2>1, <2>2, <2>3 DEF KeepsFunctions
<1> QED  BY <1>3, <1>4, <1>5

LEMMA LoopsKeepFunctions ==
    ASSUME TypeOK, EnterModalLoop \/ LeaveModalLoop \/ EnterDebugger \/ LeaveDebugger
    PROVE  KeepsFunctions
<1>0. stack \in Seq(Frames)
  BY DEF TypeOK
<1>1. \/ \E k \in {"modal", "debugger"} : stack' = <<LoopFrame(k)>> \o stack
      \/ stack # <<>> /\ Head(stack).kind \in {"modal", "debugger"} /\ stack' = Tail(stack)
  BY DEF EnterModalLoop, LeaveModalLoop, EnterDebugger, LeaveDebugger
<1>2. ASSUME NEW k \in {"modal", "debugger"}, stack' = <<LoopFrame(k)>> \o stack
      PROVE  KeepsFunctions
  <2> DEFINE f == LoopFrame(k)
  <2>1. f \in Frames /\ stack' = <<f>> \o stack
    BY <1>2, LoopFrameTyped
  <2> HIDE DEF f
  <2> QED  BY <1>0, <2>1, PushKeepsFunctions
<1>3. ASSUME stack # <<>>, Head(stack).kind \in {"modal", "debugger"}, stack' = Tail(stack)
      PROVE  KeepsFunctions
  <2>1. Head(stack).kind # "function"
    BY <1>3
  <2> QED  BY <1>0, <1>3, <2>1, PopKeepsFunctions
<1> QED  BY <1>1, <1>2, <1>3

\* The function taken from the queue runs for whoever waits for it; that the queue is
\* not locked means that whoever called waits.
LEMMA NextFunctionServes ==
    ASSUME TypeOK, NEW rest \in Seq(Frames), NextFunction(rest)
    PROVE  /\ lock = None
           /\ ToSet(rest) \subseteq ToSet(stack')
           /\ \A w \in Threads : QueuedFor(w) => QueuedFor(w)' \/ RunsFor(w)'
<1>0. lock = None /\ functions \in Seq(Calls)
  BY DEF NextFunction, TypeOK
<1>1. CASE functions = <<>>
  BY <1>0, <1>1 DEF NextFunction, QueuedFor
<1>2. CASE functions # <<>>
  <2> DEFINE c == Head(functions)
             f == FunctionFrame(c)
  <2>1. stack' = <<f>> \o rest /\ functions' = Tail(functions)
    BY <1>2 DEF NextFunction
  <2>2. c \in Calls /\ ToSet(functions) = {c} \cup ToSet(functions')
    BY <1>0, <1>2, <2>1, PopOff
  <2> HIDE DEF c
  <2>3. f \in Frames /\ f.kind = "function" /\ f.waiter = c.waiter
    BY <2>2, FunctionFrameTyped
  <2> HIDE DEF f
  <2>4. ToSet(stack') = {f} \cup ToSet(rest)
    BY <2>1, <2>3, PushOn
  <2> QED  BY <1>0, <2>2, <2>3, <2>4 DEF QueuedFor, RunsFor
<1> QED  BY <1>1, <1>2

LEMMA DispatchServes ==
    ASSUME WaitInv, TypeOK', TakeDispatchMessage
    PROVE  WaitInv'
<1>1. UNCHANGED <<lock, thread>> /\ (UNCHANGED <<functions, stack>> \/ NextFunction(stack))
  BY DEF TakeDispatchMessage
<1>2. CASE UNCHANGED <<functions, stack>>
  BY <1>1, <1>2, SameWaits DEF KeepsFunctions
<1>3. CASE NextFunction(stack)
  <2>1. /\ lock = None /\ ToSet(stack) \subseteq ToSet(stack')
        /\ \A w \in Threads : QueuedFor(w) => QueuedFor(w)' \/ RunsFor(w)'
    BY <1>3, NextFunctionServes DEF WaitInv, TypeOK
  <2>2. ASSUME NEW w \in Threads PROVE RunsFor(w) => RunsFor(w)'
    BY <2>1 DEF RunsFor
  <2> QED  BY <1>1, <2>1, <2>2, ConstantsAssumption DEF WaitInv
<1> QED  BY <1>1, <1>2, <1>3

\* The thread that is signalled does not wait any more; nobody else's call ends.
LEMMA ReturnServes ==
    ASSUME WaitInv, TypeOK', FunctionReturns
    PROVE  WaitInv'
<1> DEFINE f == Head(stack)
           r == Tail(stack)
<1>0. /\ stack \in Seq(Frames) /\ TypeOK
      /\ thread \in [Threads -> {"running", "posting", "called", "waiting"}]
  BY DEF WaitInv, TypeOK
<1>1. /\ stack # <<>> /\ lock' = lock /\ thread' = Signalled(f.waiter)
      /\ (stack' = r /\ functions' = functions) \/ NextFunction(r)
  BY DEF FunctionReturns
<1>2. r \in Seq(Frames) /\ ToSet(stack) = {f} \cup ToSet(r)
  BY <1>0, <1>1, PopOff
<1> HIDE DEF f, r
<1>3. /\ NextFunction(r) => lock = None
      /\ ToSet(r) \subseteq ToSet(stack')
      /\ \A w \in Threads : QueuedFor(w) => QueuedFor(w)' \/ RunsFor(w)'
  <2>1. CASE stack' = r /\ functions' = functions
    BY <2>1 DEF QueuedFor, NextFunction
  <2>2. CASE NextFunction(r)
    BY <1>0, <1>2, <2>2, NextFunctionServes
  <2> QED  BY <1>1, <2>1, <2>2
<1>4. ASSUME NEW w \in Threads
      PROVE  /\ thread'[w] = "called" => thread[w] = "called"
             /\ thread'[w] = "waiting" => thread[w] = "waiting" /\ w # f.waiter
  BY <1>0, <1>1 DEF Signalled
<1>5. ASSUME NEW w \in Threads, thread'[w] = "called"
      PROVE  lock' = w /\ QueuedFor(w)'
  <2>1. thread[w] = "called" /\ lock = w /\ QueuedFor(w) /\ w # None
    BY <1>4, <1>5, ConstantsAssumption DEF WaitInv
  <2>2. functions' = functions
    BY <1>1, <1>3, <2>1
  <2> QED  BY <1>1, <2>1, <2>2 DEF QueuedFor
<1>6. ASSUME NEW w \in Threads, thread'[w] = "waiting"
      PROVE  QueuedFor(w)' \/ RunsFor(w)'
  <2>1. thread[w] = "waiting" /\ w # f.waiter
    BY <1>4, <1>6
  <2>2. RunsFor(w) => RunsFor(w)'
    BY <1>2, <1>3, <2>1 DEF RunsFor
  <2> QED  BY <1>3, <2>1, <2>2 DEF WaitInv
<1> QED  BY <1>5, <1>6 DEF WaitInv

\* A call is added, or a call that nobody waits for is cancelled.
LEMMA CallsServe ==
    ASSUME WaitInv, TypeOK', NEW f \in Functions,
           CallOnMainThread(f) \/ CancelCall(f)
           \/ \E w \in Threads : CallFromThread(w, f) \/ CallAndWait(w, f)
    PROVE  WaitInv'
<1>0. /\ functions \in Seq(Calls) /\ None \notin Threads
      /\ thread \in [Threads -> {"running", "posting", "called", "waiting"}]
  BY ConstantsAssumption DEF WaitInv, TypeOK
<1>1. ASSUME NEW w \in Threads \cup {None}, functions' = Append(functions, Call(f, w))
      PROVE  /\ \A v \in Threads : QueuedFor(v) => QueuedFor(v)'
             /\ QueuedFor(w)'
  <2> DEFINE c == Call(f, w)
  <2>1. c \in Calls /\ c.waiter = w /\ functions' = Append(functions, c)
    BY <1>1, CallTyped DEF Call
  <2> HIDE DEF c
  <2>2. ToSet(functions') = ToSet(functions) \cup {c}
    BY <1>0, <2>1, Appended
  <2> QED  BY <2>1, <2>2 DEF QueuedFor
<1>2. ASSUME CancelCall(f) \/ CallOnMainThread(f) PROVE WaitInv'
  <2>1. UNCHANGED <<lock, thread, stack>>
    BY <1>2 DEF CancelCall, CallOnMainThread
  <2>2. ASSUME NEW v \in Threads, QueuedFor(v) PROVE QueuedFor(v)'
    <3>1. CASE CallOnMainThread(f)
      BY <1>1, <2>2, <3>1 DEF CallOnMainThread
    <3>2. CASE CancelCall(f)
      <4> DEFINE c == Call(f, None)
      <4>1. functions' = Without(functions, c) /\ c.waiter = None
        BY <3>2 DEF CancelCall, Call
      <4> HIDE DEF c
      <4>2. ToSet(functions') = ToSet(functions) \ {c}
        BY <1>0, <4>1, WithoutProperties
      <4> QED  BY <1>0, <2>2, <4>1, <4>2 DEF QueuedFor
    <3> QED  BY <1>2, <3>1, <3>2
  <2> QED  BY <2>1, <2>2 DEF WaitInv, RunsFor
<1>3. ASSUME NEW w \in Threads, CallFromThread(w, f) PROVE WaitInv'
  <2>1. /\ functions' = Append(functions, Call(f, None)) /\ UNCHANGED <<lock, stack>>
        /\ thread' = [thread EXCEPT ![w] = IF functions = <<>> THEN "posting" ELSE @]
        /\ thread[w] = "running"
    BY <1>3 DEF CallFromThread
  <2>2. \A v \in Threads : thread'[v] \in {"called", "waiting"} => thread'[v] = thread[v]
    BY <1>0, <2>1
  <2>3. \A v \in Threads : QueuedFor(v) => QueuedFor(v)'
    BY <1>1, <2>1
  <2> QED  BY <2>1, <2>2, <2>3 DEF WaitInv, RunsFor
<1>4. ASSUME NEW w \in Threads, CallAndWait(w, f) PROVE WaitInv'
  <2>1. /\ functions' = Append(functions, Call(f, w)) /\ stack' = stack
        /\ thread' = [thread EXCEPT ![w] = "called"] /\ lock' = w
        /\ lock = None /\ thread[w] = "running"
    BY <1>4 DEF CallAndWait, KeptLock, CanCall
  <2>2. \A v \in Threads : QueuedFor(v) => QueuedFor(v)'
    BY <1>1, <2>1
  <2>3. QueuedFor(w)'
    BY <1>1, <2>1
  <2>4. ASSUME NEW v \in Threads, v # w, thread'[v] \in {"called", "waiting"}
        PROVE  thread'[v] = "waiting" /\ thread[v] = "waiting"
    BY <1>0, <2>1, <2>4 DEF WaitInv
  <2>5. ASSUME NEW v \in Threads, v # w
        PROVE  /\ thread'[v] # "called"
               /\ thread'[v] = "waiting" => QueuedFor(v)' \/ RunsFor(v)'
    BY <2>1, <2>2, <2>4, <2>5 DEF WaitInv, RunsFor
  <2>6. thread'[w] = "called"
    BY <1>0, <2>1
  <2> QED  BY <2>1, <2>3, <2>5, <2>6 DEF WaitInv
<1> QED  BY <1>2, <1>3, <1>4

LEMMA ThreadsServe ==
    ASSUME WaitInv, TypeOK', NEW w \in Threads, PostFromThread(w) \/ WaitForSignal(w)
    PROVE  WaitInv'
<1>0. thread \in [Threads -> {"running", "posting", "called", "waiting"}]
  BY DEF WaitInv, TypeOK
<1>1. UNCHANGED <<functions, stack>>
  BY DEF PostFromThread, WaitForSignal
<1>2. \A v \in Threads : (QueuedFor(v) <=> QueuedFor(v)') /\ (RunsFor(v) <=> RunsFor(v)')
  BY <1>1 DEF QueuedFor, RunsFor
<1>3. CASE PostFromThread(w)
  <2>1. lock' = lock /\ thread' = [thread EXCEPT ![w] = "running"]
    BY <1>3 DEF PostFromThread
  <2>2. \A v \in Threads : thread'[v] \in {"called", "waiting"} => thread'[v] = thread[v]
    BY <1>0, <2>1
  <2> QED  BY <1>2, <2>1, <2>2 DEF WaitInv
<1>4. CASE WaitForSignal(w)
  <2>1. thread[w] = "called" /\ thread' = [thread EXCEPT ![w] = "waiting"]
    BY <1>4 DEF WaitForSignal
  <2>2. lock = w /\ QueuedFor(w)
    BY <2>1 DEF WaitInv
  <2>3. ASSUME NEW v \in Threads
        PROVE  /\ thread'[v] # "called"
               /\ thread'[v] = "waiting" => v = w \/ thread[v] = "waiting"
    BY <1>0, <2>1, <2>2, <2>3 DEF WaitInv
  <2> QED  BY <1>2, <2>2, <2>3 DEF WaitInv
<1> QED  BY <1>3, <1>4

LEMMA WaitNext == WaitInv /\ [Next]_vars => WaitInv'
<1> SUFFICES ASSUME WaitInv, [Next]_vars PROVE WaitInv'
  OBVIOUS
<1>1. TypeOK /\ TypeOK'
  BY TypeNext DEF WaitInv
<1>2. CASE TakeTimerMessage \/ TakeUserMessage \/ TimerReturns
  <2>1. UNCHANGED <<functions, lock, thread>>
    BY <1>2 DEF TakeTimerMessage, TakeUserMessage, TimerReturns
  <2> QED  BY <1>1, <1>2, <2>1, TimersKeepFunctions, SameWaits
<1>3. CASE EnterModalLoop \/ LeaveModalLoop \/ EnterDebugger \/ LeaveDebugger
  <2>1. UNCHANGED <<functions, lock, thread>>
    BY <1>3 DEF EnterModalLoop, LeaveModalLoop, EnterDebugger, LeaveDebugger
  <2> QED  BY <1>1, <1>3, <2>1, LoopsKeepFunctions, SameWaits
<1>4. CASE TakeDispatchMessage \/ FunctionReturns
  BY <1>1, <1>4, DispatchServes, ReturnServes
<1>5. CASE \E f \in Functions : CallOnMainThread(f) \/ CancelCall(f)
  BY <1>1, <1>5, CallsServe
<1>6. CASE \E w \in Threads : OtherThread(w)
  BY <1>1, <1>6, CallsServe, ThreadsServe DEF OtherThread
<1>7. CASE (\E t \in Timers : StartTimer(t) \/ StopTimer(t)) \/ Tick \/ SystemTimers \/ UNCHANGED vars
  <2>1. UNCHANGED <<functions, lock, thread, stack>>
    BY <1>7 DEF StartTimer, StopTimer, Tick, SystemTimers, vars
  <2> QED  BY <1>1, <2>1, SameWaits DEF KeepsFunctions
<1> QED  BY <1>2, <1>3, <1>4, <1>5, <1>6, <1>7 DEF Next, Code, Loop, Return

LEMMA WaitInit == Init => WaitInv
BY TypeInit DEF Init, WaitInv

LEMMA WaitFollows == WaitInv => WaitersAreServed
<1> SUFFICES ASSUME WaitInv, NEW w \in Threads, thread[w] \in {"called", "waiting"}
             PROVE  \/ \E i \in DOMAIN functions : functions[i].waiter = w
                    \/ \E i \in DOMAIN stack : stack[i].kind = "function" /\ stack[i].waiter = w
  BY DEF WaitersAreServed
<1>1. QueuedFor(w) \/ RunsFor(w)
  BY DEF WaitInv
<1>2. CASE QueuedFor(w)
  BY <1>2 DEF QueuedFor, ToSet
<1>3. CASE RunsFor(w)
  BY <1>3 DEF RunsFor, ToSet
<1> QED  BY <1>1, <1>2, <1>3

(***************************************************************************)
(* No lost signal: the call of a thread that waits, or is about to, is     *)
(* queued or runs (callOnMainThreadAndWait, cancelCallOnMainThread).       *)
(***************************************************************************)
THEOREM WaitersAreHeard == Spec => []WaitersAreServed
<1> QED  BY WaitInit, WaitNext, WaitFollows, PTL DEF Spec
=============================================================================
