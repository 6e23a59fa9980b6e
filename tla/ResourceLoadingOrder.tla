------------------------- MODULE ResourceLoadingOrder -------------------------
(***************************************************************************)
(* Proofs about the calls under way in ResourceLoading.  When the embedder *)
(* does not clear requests, loads start in order and end once, hosts that  *)
(* are being served stay on the map, and no load that could be served is   *)
(* forgotten.  If no client spins an event loop of its own, the hosts stay *)
(* for every embedder.                                                     *)
(***************************************************************************)
EXTENDS ResourceLoadingProofs

(***************************************************************************)
(* The shape of the call stack: below a host that is served is at most a   *)
(* sweep, and below that are calls to code outside.                        *)
(***************************************************************************)
CallsOnly(s) == \A f \in ToSet(s) : f.op \notin {"serve", "snapshot", "sweep"}

SweepAtMost(s) ==
    \/ CallsOnly(s)
    \/ s # <<>> /\ Head(s).op \in {"snapshot", "sweep"} /\ CallsOnly(Tail(s))

ServesOnTop ==
    \/ SweepAtMost(stack)
    \/ stack # <<>> /\ Top.op = "serve" /\ SweepAtMost(Tail(stack))

LEMMA PushParts ==
    ASSUME NEW f \in Frame, NEW s \in Seq(Frame)
    PROVE  /\ <<f>> \o s \in Seq(Frame) /\ <<f>> \o s # <<>>
           /\ Head(<<f>> \o s) = f /\ Tail(<<f>> \o s) = s
<1> DEFINE t == <<f>> \o s
<1>0. <<f>> \in Seq(Frame) /\ Len(<<f>>) = 1 /\ <<f>>[1] = f
  OBVIOUS
<1>1. /\ t \in Seq(Frame) /\ Len(t) = 1 + Len(s)
      /\ \A i \in 1..(1 + Len(s)) : t[i] = IF i <= 1 THEN f ELSE s[i - 1]
  BY <1>0, ConcatProperties
<1> HIDE DEF t
<1>2. Len(s) \in Nat
  OBVIOUS
<1>3. t # <<>>
  BY <1>1, <1>2, EmptySeq
<1>4. /\ Head(t) = t[1] /\ Tail(t) \in Seq(Frame) /\ Len(Tail(t)) = Len(s)
      /\ \A i \in 1..Len(s) : Tail(t)[i] = t[i + 1]
  BY <1>1, <1>2, <1>3, HeadTailProperties
<1>5. \A i \in 1..Len(s) : Tail(t)[i] = s[i]
  BY <1>1, <1>2, <1>4
<1>6. Tail(t) = s
  BY <1>4, <1>5, SeqEqual
<1>7. Head(t) = f
  BY <1>1, <1>2, <1>4
<1> QED  BY <1>1, <1>3, <1>6, <1>7 DEF t

\* A stack with something on top, and what is on it.
LEMMA TopParts ==
    ASSUME stack \in Seq(Frame), stack # <<>>, ServesOnTop
    PROVE  /\ Tail(stack) \in Seq(Frame)
           /\ Top.op = "serve" => SweepAtMost(Tail(stack))
           /\ Top.op # "serve" => CallsOnly(Tail(stack))
           /\ Top.op \notin {"serve", "snapshot", "sweep"} => CallsOnly(stack)
<1>1. Tail(stack) \in Seq(Frame) /\ ToSet(Tail(stack)) \subseteq ToSet(stack) /\ Top \in ToSet(stack)
  BY PopElements, StackTop
<1>2. CallsOnly(stack) => CallsOnly(Tail(stack)) /\ Top.op \notin {"serve", "snapshot", "sweep"}
  BY <1>1 DEF CallsOnly
<1> QED  BY <1>1, <1>2 DEF ServesOnTop, SweepAtMost, Top

LEMMA ControlParts ==
    ASSUME stack \in Seq(Frame), InControl, ServesOnTop
    PROVE  CallsOnly(stack)
<1>1. CASE stack = <<>>
  BY <1>1 DEF CallsOnly, ToSet
<1>2. CASE stack # <<>>
  <2>1. Top.op \notin {"serve", "snapshot", "sweep"}
    BY <1>2 DEF InControl, EndOps
  <2> QED  BY <1>2, <2>1, TopParts
<1> QED  BY <1>1, <1>2

(***************************************************************************)
(* The loop of the host on top has left nothing behind at the priorities   *)
(* above its own, and no host that a sweep has yet to serve is dropped.    *)
(***************************************************************************)
AboveServed ==
    Running("serve") => \A q \in Priority : q > Top.prio => pending[Top.host][q] = <<>>

HostsKept ==
    /\ Running("serve") => Known(Top.host)
    /\ \A f \in ToSet(stack) : f.op = "sweep" => f.todo \subseteq hostMap

CallsInv == ServesOnTop /\ AboveServed /\ HostsKept

OrderInv == QueueInv /\ CallsInv

\* Calls to code outside, with nothing or one more of them on top.
LEMMA CallsKept ==
    ASSUME stack \in Seq(Frame), NEW s \in Seq(Frame), CallsOnly(s),
           \/ stack' = s
           \/ \E f \in Frame : f.op \notin {"serve", "snapshot", "sweep"} /\ stack' = <<f>> \o s
    PROVE  CallsInv'
<1>1. CallsOnly(stack') /\ stack' \in Seq(Frame)
  <2>1. CASE stack' = s
    BY <2>1
  <2>2. ASSUME NEW f \in Frame, f.op \notin {"serve", "snapshot", "sweep"}, stack' = <<f>> \o s
        PROVE  CallsOnly(stack') /\ stack' \in Seq(Frame)
    <3>1. ToSet(stack') \subseteq {f} \cup ToSet(s) /\ stack' \in Seq(Frame)
      BY <2>2, PushElements, PushParts
    <3> QED  BY <2>2, <3>1 DEF CallsOnly
  <2> QED  BY <2>1, <2>2
<1>2. \A f \in ToSet(stack') : f.op \notin {"serve", "snapshot", "sweep"}
  BY <1>1 DEF CallsOnly
<1>3. ~Running("serve")'
  <2>1. stack' # <<>> => Head(stack') = stack'[1] /\ 1 \in DOMAIN stack'
    BY <1>1, EmptySeq
  <2> QED  BY <1>2, <2>1 DEF Running, Top, ToSet
<1>4. ServesOnTop'
  BY <1>1 DEF ServesOnTop, SweepAtMost
<1> QED  BY <1>2, <1>3, <1>4 DEF CallsInv, AboveServed, HostsKept

\* A host begins to be served.
LEMMA ServeBegins ==
    ASSUME stack \in Seq(Frame), NEW s \in Seq(Frame), SweepAtMost(s),
           NEW h \in AllHosts, NEW p \in Priority,
           stack' = <<Serve(h, p)>> \o s, Known(h)',
           \A f \in ToSet(s) : f.op = "sweep" => f.todo \subseteq hostMap'
    PROVE  CallsInv'
<1> DEFINE f == Serve(h, p)
<1>0. f \in Frame /\ f.op = "serve" /\ f.host = h /\ f.prio = High
  BY FrameTypes DEF Serve
<1> HIDE DEF f
<1>1. /\ stack' # <<>> /\ Top' = f /\ Tail(stack') = s
      /\ ToSet(stack') \subseteq {f} \cup ToSet(s)
  BY <1>0, PushElements, PushParts DEF Top, f
<1>2. ServesOnTop'
  BY <1>0, <1>1 DEF ServesOnTop, Top, SweepAtMost
<1>3. AboveServed'
  BY <1>0, <1>1 DEF AboveServed, Priority, High
<1>4. HostsKept'
  BY <1>0, <1>1 DEF HostsKept
<1> QED  BY <1>2, <1>3, <1>4 DEF CallsInv

\* A sweep is on top.
LEMMA SweepOnTop ==
    ASSUME stack \in Seq(Frame), NEW s \in Seq(Frame), CallsOnly(s), NEW f \in Frame,
           f.op \in {"snapshot", "sweep"}, f.op = "sweep" => f.todo \subseteq hostMap',
           stack' = <<f>> \o s
    PROVE  CallsInv'
<1>1. /\ stack' # <<>> /\ Top' = f /\ Tail(stack') = s /\ Head(stack') = f
      /\ ToSet(stack') \subseteq {f} \cup ToSet(s)
  BY PushElements, PushParts DEF Top
<1>2. ServesOnTop'
  BY <1>1 DEF ServesOnTop, SweepAtMost
<1>3. AboveServed'
  BY <1>1 DEF AboveServed, Running
<1>4. HostsKept'
  BY <1>1 DEF HostsKept, Running, CallsOnly
<1> QED  BY <1>2, <1>3, <1>4 DEF CallsInv

LEMMA CallsStep ==
    ASSUME "null" \notin InitialSend, OrderInv, [Next]_vars
    PROVE  CallsInv'
<1>0. /\ TypeOK /\ stack \in Seq(Frame) /\ ServesOnTop /\ AboveServed /\ HostsKept
      /\ hostMap \subseteq Hosts
  BY DEF OrderInv, CallsInv, QueueInv, TypeOK
<1> USE DEF schedulerVars, loaderVars
<1>1. ASSUME NEW l \in Loaders, NEW h \in AllHosts, NEW p \in Priorities,
             NEW d \in Deferrals, ScheduleLoad(l, h, p, d)
      PROVE  CallsInv'
  <2>1. CallsOnly(stack) /\ p \in Priority
    BY <1>0, <1>1, ControlParts, PrioritiesAssumption DEF ScheduleLoad
  <2>2. CASE stack' = stack
    BY <1>0, <2>1, <2>2, CallsKept
  <2>3. CASE stack' = <<Serve(h, p)>> \o stack
    <3>1. Known(h)'
      BY <1>1 DEF ScheduleLoad, WithHost, Known, AllHosts
    <3>2. SweepAtMost(stack) /\ \A f \in ToSet(stack) : f.op # "sweep"
      BY <2>1 DEF SweepAtMost, CallsOnly
    <3> QED  BY <1>0, <2>1, <2>3, <3>1, <3>2, ServeBegins
  <2> QED  BY <1>1, <2>2, <2>3 DEF ScheduleLoad, Push
<1>2. ASSUME \/ \E l \in Loaders, h \in AllHosts : AddMainResourceLoad(l, h) \/ Redirect(l, h)
             \/ \E l \in Loaders, b \in Deferrals : SetDefersLoading(l, b)
             \/ \E b \in BOOLEAN : SetParsing(b)
      PROVE  CallsInv'
  <2>1. InControl /\ stack' = stack
    BY <1>2 DEF AddMainResourceLoad, Redirect, SetDefersLoading, SetParsing, Start, InControl
  <2> QED  BY <1>0, <2>1, ControlParts, CallsKept
<1>3. ASSUME \/ \E l \in Loaders : DidFinishLoading(l) \/ DidFail(l) \/ Cancel(l)
             \/ SuspendPendingRequests
      PROVE  CallsInv'
  <2>1. InControl
    BY <1>3 DEF DidFinishLoading, DidFail, Cancel, SuspendPendingRequests, HandleReports, InControl
  <2>2. \E f \in Frame : f.op \notin {"serve", "snapshot", "sweep"} /\ stack' = <<f>> \o stack
    <3>1. CASE SuspendPendingRequests
      BY <3>1, FrameTypes DEF SuspendPendingRequests, Push
    <3>2. ASSUME NEW l \in Loaders, DidFinishLoading(l) \/ DidFail(l) \/ Cancel(l)
          PROVE  \E f \in Frame : f.op \notin {"serve", "snapshot", "sweep"}
                                  /\ stack' = <<f>> \o stack
      <4>1. PICK op \in EndOps, t \in {"told", "removed"} : stack' = <<End(op, l, t)>> \o stack
        BY <3>2 DEF DidFinishLoading, DidFail, Cancel, EndOps, FailStage, Push
      <4>2. End(op, l, t) \in Frame /\ End(op, l, t).op \notin {"serve", "snapshot", "sweep"}
        BY FrameTypes DEF End, EndOps
      <4> QED  BY <4>1, <4>2
    <3> QED  BY <1>3, <3>1, <3>2
  <2> QED  BY <1>0, <2>1, <2>2, ControlParts, CallsKept
<1>4. ASSUME NEW l \in Loaders, Ending(l)
      PROVE  CallsInv'
  <2>1. PICK op \in EndOps, t \in {"told", "removed"} :
            /\ stack # <<>> /\ Top = End(op, l, t)
            /\ stack' = Tail(stack) \/ stack' = <<End(op, l, "removed")>> \o Tail(stack)
    BY <1>4
    DEF Ending, EndReturnsEarly, LeaveDocumentLoader, ReleaseResources, Running, Pop
  <2>2. /\ End(op, l, "removed") \in Frame
        /\ End(op, l, "removed").op \notin {"serve", "snapshot", "sweep"}
        /\ End(op, l, t).op # "serve"
    BY FrameTypes DEF End, EndOps
  <2>3. CallsOnly(Tail(stack)) /\ Tail(stack) \in Seq(Frame)
    BY <1>0, <2>1, <2>2, TopParts
  <2> QED  BY <1>0, <2>1, <2>2, <2>3, CallsKept
<1>5. ASSUME SweepReturn \/ ResumePendingRequests
      PROVE  CallsInv'
  <2>1. stack # <<>> /\ Top.op # "serve" /\ stack' = Tail(stack)
    BY <1>5 DEF SweepReturn, ResumePendingRequests, Running, Pop
  <2> QED  BY <1>0, <2>1, TopParts, CallsKept
<1>6. ASSUME ServeReturn
      PROVE  CallsInv'
  <2>1. stack # <<>> /\ Top.op = "serve" /\ stack' = Tail(stack) /\ hostMap' = hostMap
    BY <1>6 DEF ServeReturn, Running, Pop
  <2>2. SweepAtMost(stack') /\ stack' \in Seq(Frame) /\ ToSet(stack') \subseteq ToSet(stack)
    BY <1>0, <2>1, TopParts, PopElements
  <2>3. ~Running("serve")'
    <3>1. stack' # <<>> => Head(stack') = stack'[1] /\ 1 \in DOMAIN stack'
      BY <2>2, EmptySeq
    <3> QED  BY <2>2, <3>1 DEF SweepAtMost, CallsOnly, Running, Top, ToSet
  <2> QED  BY <1>0, <2>1, <2>2, <2>3 DEF CallsInv, ServesOnTop, AboveServed, HostsKept
<1>7. ASSUME ServeStart
      PROVE  CallsInv'
  <2>1. PICK p \in Waiting(Top) :
            LET h == Top.host
                l == Head(pending[h][p])
            IN /\ \A q \in Waiting(Top) : q <= p
               /\ pending' = [pending EXCEPT ![h][p] = Tail(@)]
               /\ stack' = <<[Top EXCEPT !.prio = p]>> \o Tail(stack)
               /\ hostMap' = hostMap
    BY <1>7 DEF ServeStart, Start
  <2> DEFINE f == [Top EXCEPT !.prio = p]
             h == Top.host
  <2>2. stack # <<>> /\ Top \in ServeFrame /\ Top.op = "serve"
    BY <1>0, <1>7, ServeTop DEF ServeStart, Running
  <2>3. h \in AllHosts /\ p \in Priority /\ Top.min \in Priority /\ Top.prio \in Priority
        /\ p <= Top.prio /\ Top.min <= p
    BY <2>2 DEF Waiting, ServeFrame, Priority, VeryLow, High
  <2>4. f \in ServeFrame /\ f.op = "serve" /\ f.prio = p /\ f.host = h
    BY <2>2, <2>3 DEF ServeFrame
  <2>5. f \in Frame
    BY <2>4 DEF Frame
  <2>6. SweepAtMost(Tail(stack)) /\ Tail(stack) \in Seq(Frame) /\ ToSet(Tail(stack)) \subseteq ToSet(stack)
    BY <1>0, <2>2, TopParts, PopElements
  <2> HIDE DEF f
  <2>7. /\ stack' # <<>> /\ Top' = f /\ Tail(stack') = Tail(stack)
        /\ ToSet(stack') \subseteq {f} \cup ToSet(stack)
    BY <2>1, <2>5, <2>6, PushElements, PushParts DEF Top, f
  <2>8. ServesOnTop'
    BY <2>4, <2>6, <2>7 DEF ServesOnTop, SweepAtMost, Top
  <2>9. AboveServed'
    <3>1. ASSUME NEW q \in Priority, q > p PROVE pending'[h][q] = <<>>
      <4>1. pending'[h][q] = pending[h][q]
        BY <1>0, <2>1, <2>3, <3>1 DEF TypeOK, Priority
      <4>2. CASE q > Top.prio
        BY <1>0, <2>2, <4>1, <4>2, <3>1 DEF AboveServed, Running
      <4>3. CASE ~(q > Top.prio)
        <5>1. q \in Top.min..Top.prio
          BY <2>3, <3>1, <4>3 DEF Priority, VeryLow, High
        <5>2. q \notin Waiting(Top)
          BY <2>1, <2>3, <3>1 DEF Priority, VeryLow, High
        <5> QED  BY <4>1, <5>1, <5>2 DEF Waiting
      <4> QED  BY <4>2, <4>3
    <3> QED  BY <2>4, <2>7, <3>1 DEF AboveServed
  <2>10. HostsKept'
    BY <1>0, <2>1, <2>2, <2>4, <2>7 DEF HostsKept, Running, Known
  <2> QED  BY <2>8, <2>9, <2>10 DEF CallsInv
<1>8. ASSUME SnapshotHosts
      PROVE  CallsInv'
  <2>1. /\ stack # <<>> /\ Top.op = "snapshot" /\ hostMap' = hostMap
        /\ stack' = <<[op |-> "sweep", todo |-> hostMap]>> \o Tail(stack)
    BY <1>8 DEF SnapshotHosts, Running
  <2>2. CallsOnly(Tail(stack)) /\ Tail(stack) \in Seq(Frame)
    BY <1>0, <2>1, TopParts
  <2>3. [op |-> "sweep", todo |-> hostMap] \in Frame
    BY <1>0, FrameTypes
  <2> QED  BY <1>0, <2>1, <2>2, <2>3, SweepOnTop
<1>9. ASSUME NEW h \in Hosts, SweepHost(h)
      PROVE  CallsInv'
  <2> DEFINE f == [Top EXCEPT !.todo = @ \ {h}]
             rest == <<f>> \o Tail(stack)
  <2>1. /\ stack # <<>> /\ Top \in SweepFrame /\ Top.op = "sweep" /\ h \in Top.todo
        /\ Top \in ToSet(stack)
    BY <1>0, <1>9, SweepTop, PopElements DEF SweepHost, Running
  <2>2. Top.todo \subseteq hostMap
    BY <1>0, <2>1 DEF HostsKept
  <2>3. f \in Frame /\ f.op = "sweep" /\ f.todo = Top.todo \ {h}
    BY <2>1 DEF SweepFrame, Frame
  <2>4. \/ stack' = rest /\ hostMap' = hostMap \ {h}
        \/ stack' = <<Serve(h, VeryLow)>> \o rest /\ hostMap' = hostMap
    BY <1>9 DEF SweepHost
  <2>5. CallsOnly(Tail(stack)) /\ Tail(stack) \in Seq(Frame)
    BY <1>0, <2>1, TopParts
  <2> HIDE DEF f
  <2>6. CASE stack' = rest /\ hostMap' = hostMap \ {h}
    BY <1>0, <2>2, <2>3, <2>5, <2>6, SweepOnTop
  <2>7. CASE stack' = <<Serve(h, VeryLow)>> \o rest /\ hostMap' = hostMap
    <3>1. /\ rest \in Seq(Frame) /\ rest # <<>> /\ Head(rest) = f /\ Tail(rest) = Tail(stack)
          /\ ToSet(rest) \subseteq {f} \cup ToSet(Tail(stack))
      BY <2>3, <2>5, PushParts, PushElements
    <3> HIDE DEF rest
    <3>2. SweepAtMost(rest)
      BY <2>3, <2>5, <3>1 DEF SweepAtMost
    <3>3. \A g \in ToSet(rest) : g.op = "sweep" => g.todo \subseteq hostMap'
      BY <2>2, <2>3, <2>5, <2>7, <3>1 DEF CallsOnly
    <3>4. Known(h)' /\ h \in AllHosts /\ VeryLow \in Priority
      BY <2>1, <2>2, <2>7 DEF Known, AllHosts, VeryLow, High, Priority
    <3> QED  BY <1>0, <2>7, <3>1, <3>2, <3>3, <3>4, ServeBegins
  <2> QED  BY <2>4, <2>6, <2>7
<1>10. ASSUME TimerFires
       PROVE  CallsInv'
  <2>1. InControl /\ hostMap' = hostMap
    BY <1>10 DEF TimerFires, TimersRun, InControl
  <2>2. CallsOnly(stack)
    BY <1>0, <2>1, ControlParts
  <2>3. CASE stack' = stack
    BY <1>0, <2>2, <2>3, CallsKept
  <2>4. CASE stack' = <<Serve(NonHTTP, VeryLow), [op |-> "snapshot"]>> \o stack
    <3> DEFINE n == [op |-> "snapshot"]
               v == Serve(NonHTTP, VeryLow)
               rest == <<n>> \o stack
    <3>0. n \in Frame /\ n.op = "snapshot" /\ NonHTTP \in AllHosts /\ VeryLow \in Priority
      BY FrameTypes DEF AllHosts, VeryLow, High, Priority
    <3>v. v \in Frame
      BY <3>0, FrameTypes
    <3> HIDE DEF n, v
    <3>1. /\ rest \in Seq(Frame) /\ rest # <<>> /\ Head(rest) = n /\ Tail(rest) = stack
          /\ ToSet(rest) \subseteq {n} \cup ToSet(stack)
      BY <1>0, <3>0, PushParts, PushElements
    <3>2. stack' = <<v>> \o rest
      <4>1. <<v, n>> = <<v>> \o <<n>> /\ <<v>> \in Seq(Frame) /\ <<n>> \in Seq(Frame)
        BY <3>0, <3>v
      <4>2. (<<v>> \o <<n>>) \o stack = <<v>> \o (<<n>> \o stack)
        BY <1>0, <4>1, ConcatAssociative
      <4> QED  BY <2>4, <4>1, <4>2 DEF v, n
    <3> HIDE DEF rest
    <3>3. SweepAtMost(rest)
      BY <2>2, <3>0, <3>1 DEF SweepAtMost
    <3>4. (\A g \in ToSet(rest) : g.op = "sweep" => g.todo \subseteq hostMap') /\ Known(NonHTTP)'
      BY <2>2, <3>0, <3>1 DEF CallsOnly, Known
    <3> QED  BY <1>0, <3>0, <3>1, <3>2, <3>3, <3>4, ServeBegins DEF v
  <2> QED  BY <1>10, <2>3, <2>4 DEF TimerFires
<1>11. ASSUME UNCHANGED vars
       PROVE  CallsInv'
  BY <1>0, <1>11
  DEF vars, CallsInv, ServesOnTop, AboveServed, HostsKept, Running, Top, Known
<1> QED
  BY <1>1, <1>2, <1>3, <1>4, <1>5, <1>6, <1>7, <1>8, <1>9, <1>10, <1>11
  DEF Next, Callers, Network, Scheduler

LEMMA OrderInit == Init => OrderInv
<1> SUFFICES ASSUME Init PROVE OrderInv
  OBVIOUS
<1>1. QueueInv
  BY InitQueues
<1>2. stack = <<>> /\ ToSet(stack) = {}
  BY DEF Init, ToSet
<1>3. ServesOnTop
  BY <1>2 DEF ServesOnTop, SweepAtMost, CallsOnly
<1>4. AboveServed /\ HostsKept
  BY <1>2 DEF AboveServed, HostsKept, Running
<1> QED  BY <1>1, <1>3, <1>4 DEF OrderInv, CallsInv

\* The sweep's pointers do not dangle: servePendingRequests drops an idle host
\* only when no host list that it copied still names it.  Here clients may spin event
\* loops; the embedder does not clear requests, so that serving calls no client.
THEOREM ServedHostsStay ==
    "null" \notin InitialSend => (Spec => []ServedHostsExist)
<1> SUFFICES ASSUME "null" \notin InitialSend
             PROVE  Spec => []ServedHostsExist
  OBVIOUS
<1>1. OrderInv /\ [Next]_vars => OrderInv'
  BY QueueStep, CallsStep DEF OrderInv
<1>2. OrderInv => ServedHostsExist
  <2> SUFFICES ASSUME OrderInv, NEW i \in DOMAIN stack
               PROVE  /\ stack[i].op = "serve" => Known(stack[i].host)
                      /\ stack[i].op = "sweep" => stack[i].todo \subseteq hostMap
    BY DEF ServedHostsExist
  <2>0. stack \in Seq(Frame) /\ ServesOnTop /\ HostsKept
    BY DEF OrderInv, CallsInv, QueueInv, TypeOK
  <2>1. stack[i] \in ToSet(stack)
    BY DEF ToSet
  <2>2. stack[i].op = "sweep" => stack[i].todo \subseteq hostMap
    BY <2>0, <2>1 DEF HostsKept
  <2>3. ASSUME stack[i].op = "serve" PROVE Known(stack[i].host)
    <3>1. stack # <<>> /\ Len(stack) \in Nat \ {0} /\ i \in 1..Len(stack)
      BY <2>0, EmptySeq
    <3>2. /\ Top = stack[1] /\ DOMAIN Tail(stack) = 1..(Len(stack) - 1)
          /\ \A j \in 1..(Len(stack) - 1) : Tail(stack)[j] = stack[j + 1]
      <4>1. /\ Tail(stack) \in Seq(Frame) /\ Len(Tail(stack)) = Len(stack) - 1
            /\ \A j \in 1..(Len(stack) - 1) : Tail(stack)[j] = stack[j + 1]
            /\ Head(stack) = stack[1]
        BY <2>0, <3>1, HeadTailProperties
      <4> QED  BY <4>1 DEF Top
    <3>3. CASE i = 1
      BY <2>0, <2>3, <3>1, <3>2, <3>3 DEF HostsKept, Running
    <3>4. CASE i # 1
      <4>1. i - 1 \in 1..(Len(stack) - 1) /\ (i - 1) + 1 = i
        BY <3>1, <3>4
      <4>2. Tail(stack)[i - 1] = stack[i] /\ i - 1 \in DOMAIN Tail(stack)
        BY <3>2, <4>1
      <4>3. stack[i] \in ToSet(Tail(stack))
        BY <4>2 DEF ToSet
      <4>4. Top.op = "serve" /\ SweepAtMost(Tail(stack))
        BY <2>0, <2>3, <3>1, <4>3, TopParts DEF CallsOnly
      <4>5. ~CallsOnly(Tail(stack))
        BY <2>3, <4>3 DEF CallsOnly
      <4>6. i # 2
        BY <2>3, <3>1, <3>4, <4>2, <4>4, <4>5 DEF SweepAtMost
      <4>7. Tail(stack) \in Seq(Frame) /\ Tail(stack) # <<>> /\ CallsOnly(Tail(Tail(stack)))
        BY <2>0, <3>1, <4>4, <4>5, TopParts DEF SweepAtMost
      <4>8. /\ Len(Tail(Tail(stack))) = Len(stack) - 2 /\ Tail(Tail(stack)) \in Seq(Frame)
            /\ \A j \in 1..(Len(stack) - 2) : Tail(Tail(stack))[j] = Tail(stack)[j + 1]
        <5>1. Len(Tail(stack)) = Len(stack) - 1
          BY <2>0, <3>1, HeadTailProperties
        <5>2. /\ Len(Tail(Tail(stack))) = Len(Tail(stack)) - 1 /\ Tail(Tail(stack)) \in Seq(Frame)
              /\ \A j \in 1..(Len(Tail(stack)) - 1) : Tail(Tail(stack))[j] = Tail(stack)[j + 1]
          BY <4>7, HeadTailProperties
        <5> QED  BY <3>1, <5>1, <5>2
      <4>9. i - 2 \in 1..(Len(stack) - 2) /\ (i - 2) + 1 = i - 1
        BY <3>1, <3>4, <4>6
      <4>10. DOMAIN Tail(Tail(stack)) = 1..(Len(stack) - 2)
        BY <4>8
      <4>11. stack[i] \in ToSet(Tail(Tail(stack)))
        BY <4>2, <4>8, <4>9, <4>10 DEF ToSet
      <4> QED  BY <2>3, <4>7, <4>11 DEF CallsOnly
    <3> QED  BY <3>3, <3>4
  <2> QED  BY <2>2, <2>3
<1> QED  BY <1>1, <1>2, OrderInit, PTL DEF Spec

(***************************************************************************)
(* Loads take their slots in order.                                        *)
(***************************************************************************)
InOrder ==
    \A h \in AllHosts, p \in Priority : \A i \in DOMAIN pending[h][p] :
        pending[h][p][i] \in loading'[h] =>
            /\ i = 1
            /\ \A q \in Priority : q > p => pending[h][q] = <<>>

LEMMA OrderKept ==
    ASSUME "null" \notin InitialSend, OrderInv, [Next]_vars
    PROVE  InOrder
<1>0. TypeOK /\ stack \in Seq(Frame) /\ QueuedOnce /\ SlotsStarted /\ AboveServed
  BY DEF OrderInv, CallsInv, QueueInv, TypeOK
<1> USE DEF schedulerVars, loaderVars
<1>q. ASSUME NEW h \in AllHosts, NEW p \in Priority, NEW i \in DOMAIN pending[h][p]
      PROVE  /\ pending[h][p][i] \in Loaders /\ phase[pending[h][p][i]] = "pending"
             /\ pending[h][p][i] \notin loading[h]
  <2>1. pending[h][p][i] \in ToSet(pending[h][p]) /\ ToSet(pending[h][p]) \subseteq Loaders
    BY <1>0 DEF TypeOK, ToSet
  <2> QED  BY <1>0, <2>1 DEF QueuedOnce, SlotsStarted
\* A step by which no load that waits takes a slot.
<1>a. ASSUME \A h \in AllHosts : \A l \in loading'[h] \ loading[h] : phase[l] # "pending"
      PROVE  InOrder
  BY <1>a, <1>q DEF InOrder
<1>1. ASSUME NEW l \in Loaders, NEW h \in AllHosts, AddMainResourceLoad(l, h) \/ Redirect(l, h)
      PROVE  InOrder
  <2>1. phase[l] # "pending" /\ url[l] \in AllHosts
    BY <1>0, <1>1 DEF AddMainResourceLoad, Redirect, TypeOK
  <2>2. \A g \in AllHosts : loading'[g] \subseteq loading[g] \cup {l}
    <3>1. loading \in [AllHosts -> SUBSET Loaders]
      BY <1>0 DEF TypeOK
    <3>2. CASE loading' = [loading EXCEPT ![h] = @ \cup {l}]
      BY <3>1, <3>2
    <3>3. CASE loading' = [loading EXCEPT ![h] = @ \cup {l}, ![url[l]] = @ \ {l}] /\ url[l] # h
      BY <2>1, <3>1, <3>3
    <3>4. CASE loading' = loading
      BY <3>4
    <3> QED  BY <1>1, <3>2, <3>3, <3>4 DEF AddMainResourceLoad, Redirect
  <2> QED  BY <1>a, <2>1, <2>2
<1>2. ASSUME NEW l \in Loaders, ReleaseResources(l)
      PROVE  InOrder
  <2>1. \A h \in AllHosts : loading'[h] \subseteq loading[h]
    <3>1. RemoveFromHost(url[l], l)
      BY <1>2 DEF ReleaseResources
    <3>2. \A h \in AllHosts : loading'[h] = IF h = url[l] THEN loading[h] \ {l} ELSE loading[h]
      BY <3>1, RemoveQueues DEF OrderInv
    <3> QED  BY <3>2
  <2> QED  BY <1>a, <2>1
<1>3. ASSUME ServeStart
      PROVE  InOrder
  <2>1. PICK p \in Waiting(Top) :
            LET h == Top.host
                l == Head(pending[h][p])
            IN /\ \A q \in Waiting(Top) : q <= p
               /\ loading' = [loading EXCEPT ![h] = @ \cup {l}]
    BY <1>3 DEF ServeStart
  <2> DEFINE h == Top.host
             l == Head(pending[h][p])
  <2>2. Running("serve") /\ Top \in ServeFrame
    BY <1>0, <1>3, ServeTop DEF ServeStart
  <2>3. /\ h \in AllHosts /\ p \in Priority /\ pending[h][p] # <<>>
        /\ Top.min \in Priority /\ Top.prio \in Priority /\ p <= Top.prio /\ Top.min <= p
    BY <2>2 DEF Waiting, ServeFrame, Priority, VeryLow, High
  <2>4. \A q \in Priority : q > p => pending[h][q] = <<>>
    <3>1. ASSUME NEW q \in Priority, q > p PROVE pending[h][q] = <<>>
      <4>1. CASE q > Top.prio
        BY <1>0, <2>2, <4>1 DEF AboveServed
      <4>2. CASE ~(q > Top.prio)
        <5>1. q \in Top.min..Top.prio
          BY <2>3, <3>1, <4>2 DEF Priority, VeryLow, High
        <5>2. q \notin Waiting(Top)
          BY <2>1, <2>3, <3>1 DEF Priority, VeryLow, High
        <5> QED  BY <5>1, <5>2 DEF Waiting
      <4> QED  BY <4>1, <4>2
    <3> QED  BY <3>1
  <2>5. pending[h][p] \in Seq(Loaders) /\ IsInjective(pending[h][p])
    BY <1>0, <2>3 DEF TypeOK, QueuedOnce
  <2>6. l = pending[h][p][1] /\ 1 \in DOMAIN pending[h][p] /\ l \in ToSet(pending[h][p])
    <3>1. Len(pending[h][p]) \in Nat \ {0} /\ DOMAIN pending[h][p] = 1..Len(pending[h][p])
      BY <2>3, <2>5, EmptySeq
    <3>2. l = pending[h][p][1]
      BY <2>3, <2>5, HeadTailProperties
    <3> QED  BY <3>1, <3>2 DEF ToSet
  <2> HIDE DEF h, l
  <2>7. \A g \in AllHosts : loading'[g] = IF g = h THEN loading[g] \cup {l} ELSE loading[g]
    BY <1>0, <2>1, <2>3 DEF TypeOK, h, l
  <2>8. ASSUME NEW g \in AllHosts, NEW q \in Priority, NEW i \in DOMAIN pending[g][q],
               pending[g][q][i] \in loading'[g]
        PROVE  i = 1 /\ \A r \in Priority : r > q => pending[g][r] = <<>>
    <3>1. g = h /\ pending[g][q][i] = l
      <4>1. pending[g][q][i] \notin loading[g]
        BY <1>q
      <4>2. loading'[g] = IF g = h THEN loading[g] \cup {l} ELSE loading[g]
        BY <2>7
      <4> QED  BY <2>8, <4>1, <4>2
    <3>2. l \in ToSet(pending[g][q])
      BY <3>1 DEF ToSet
    <3>3. q = p
      BY <1>0, <2>3, <2>6, <3>1, <3>2 DEF QueuedOnce
    <3>4. i = 1
      BY <2>5, <2>6, <3>1, <3>3 DEF IsInjective
    <3> QED  BY <2>4, <3>1, <3>3, <3>4
  <2> QED  BY <2>8 DEF InOrder
<1>4. ASSUME loading' = loading PROVE InOrder
  BY <1>a, <1>4
<1>5. ASSUME NEW l \in Loaders,
             \/ \E h \in AllHosts, p \in Priorities, d \in Deferrals : ScheduleLoad(l, h, p, d)
             \/ \E b \in Deferrals : SetDefersLoading(l, b)
             \/ DidFinishLoading(l) \/ DidFail(l) \/ Cancel(l)
             \/ EndReturnsEarly(l) \/ LeaveDocumentLoader(l)
      PROVE  InOrder
  BY <1>4, <1>5 DEF ScheduleLoad, SetDefersLoading, DidFinishLoading, DidFail, Cancel,
     EndReturnsEarly, LeaveDocumentLoader
<1>6. ASSUME \/ SuspendPendingRequests \/ ResumePendingRequests \/ ServeReturn
             \/ TimerFires \/ SnapshotHosts \/ SweepReturn \/ UNCHANGED vars
             \/ \E h \in Hosts : SweepHost(h)
             \/ \E b \in BOOLEAN : SetParsing(b)
      PROVE  InOrder
  BY <1>4, <1>6 DEF SuspendPendingRequests, ResumePendingRequests, ServeReturn, TimerFires,
     SnapshotHosts, SweepReturn, SweepHost, SetParsing, vars
<1>7. CASE Callers
  BY <1>1, <1>5, <1>6, <1>7 DEF Callers
<1>8. CASE Network
  BY <1>1, <1>5, <1>8 DEF Network
<1>9. CASE Scheduler
  BY <1>3, <1>6, <1>9 DEF Scheduler
<1>10. CASE \E l \in Loaders : Ending(l)
  BY <1>2, <1>5, <1>10 DEF Ending
<1>11. CASE TimerFires \/ ResumePendingRequests \/ UNCHANGED vars
  BY <1>6, <1>11
<1> QED  BY <1>7, <1>8, <1>9, <1>10, <1>11 DEF Next

\* servePendingRequests gives slots in the order of priority, and among equals in
\* the order in which the loads were scheduled, whatever happens between two sweeps.
THEOREM LoadsStartInOrder ==
    "null" \notin InitialSend => (Spec => StartsInOrder)
<1> SUFFICES ASSUME "null" \notin InitialSend
             PROVE  Spec => StartsInOrder
  OBVIOUS
<1>1. OrderInv /\ [Next]_vars => OrderInv'
  BY QueueStep, CallsStep DEF OrderInv
<1>2. OrderInv /\ [Next]_vars => [InOrder]_vars
  BY OrderKept
<1> QED  BY <1>1, <1>2, OrderInit, PTL DEF Spec, StartsInOrder, InOrder

(***************************************************************************)
(* A load ends once.  The frames of its loader say so only together: the   *)
(* finish or failure that the network reports is the first call of all,    *)
(* under every cancellation, and once a loader has left the document       *)
(* loader nobody can end it again.  So when a frame ends its load, those   *)
(* of the same loader further down have been told of a cancellation.       *)
(***************************************************************************)
EndPhases ==
    \A f \in ToSet(stack) : f.op \in EndOps =>
        phase[f.loader] \in IF f.stage = "removed" THEN Active ELSE Active \cup {"cancelled"}

EndsNest(s) ==
    \A i \in DOMAIN s : s[i].op \in EndOps =>
        /\ s[i].op = "didCancel" \/ i = Len(s)
        /\ s[i].stage = "removed" =>
              \A j \in DOMAIN s : j < i /\ s[j].op \in EndOps => s[j].loader # s[i].loader

EndInv == TypeOK /\ EndPhases /\ EndsNest(stack)

LEMMA PushedAt ==
    ASSUME NEW f \in Frame, NEW s \in Seq(Frame)
    PROVE  /\ <<f>> \o s \in Seq(Frame)
           /\ Len(s) \in Nat
           /\ Len(<<f>> \o s) = Len(s) + 1
           /\ DOMAIN (<<f>> \o s) = 1..(Len(s) + 1)
           /\ DOMAIN s = 1..Len(s)
           /\ (<<f>> \o s)[1] = f
           /\ \A i \in 1..(Len(s) + 1) : i # 1 => i - 1 \in 1..Len(s) /\ (<<f>> \o s)[i] = s[i - 1]
<1>1. <<f>> \in Seq(Frame) /\ Len(<<f>>) = 1 /\ <<f>>[1] = f /\ Len(s) \in Nat
  OBVIOUS
<1> DEFINE t == <<f>>
<1>2. /\ t \o s \in Seq(Frame)
      /\ Len(t \o s) = Len(t) + Len(s)
      /\ \A i \in 1..(Len(t) + Len(s)) :
            (t \o s)[i] = IF i <= Len(t) THEN t[i] ELSE s[i - Len(t)]
  BY <1>1, ConcatProperties
<1> HIDE DEF t
<1>3. t \in Seq(Frame) /\ Len(t) = 1 /\ t[1] = f
  BY <1>1 DEF t
<1>4. /\ Len(t \o s) = Len(s) + 1
      /\ DOMAIN (t \o s) = 1..(Len(s) + 1)
      /\ (t \o s)[1] = f
      /\ \A i \in 1..(Len(s) + 1) : i # 1 => i - 1 \in 1..Len(s) /\ (t \o s)[i] = s[i - 1]
  BY <1>1, <1>2, <1>3
<1> QED  BY <1>1, <1>2, <1>4 DEF t

LEMMA PushNests ==
    ASSUME NEW f \in Frame, NEW s \in Seq(Frame), EndsNest(s),
           f.op \in EndOps =>
              /\ f.op = "didCancel" \/ s = <<>>
              /\ \A g \in ToSet(s) : g.op \in EndOps /\ g.stage = "removed" => g.loader # f.loader
    PROVE  EndsNest(<<f>> \o s)
<1> DEFINE t == <<f>> \o s
<1>1. /\ Len(s) \in Nat /\ Len(t) = Len(s) + 1
      /\ DOMAIN t = 1..(Len(s) + 1) /\ DOMAIN s = 1..Len(s)
      /\ t[1] = f
      /\ \A i \in 1..(Len(s) + 1) : i # 1 => i - 1 \in 1..Len(s) /\ t[i] = s[i - 1]
  BY PushedAt
<1> HIDE DEF t
<1>2. ASSUME NEW i \in 1..(Len(s) + 1), t[i].op \in EndOps
      PROVE  t[i].op = "didCancel" \/ i = Len(t)
  <2>1. CASE i = 1
    BY <1>1, <1>2, <2>1
  <2>2. CASE i # 1
    <3>1. i - 1 \in DOMAIN s /\ t[i] = s[i - 1]
      BY <1>1, <2>2
    <3>2. t[i].op = "didCancel" \/ i - 1 = Len(s)
      BY <1>2, <3>1 DEF EndsNest
    <3> QED  BY <1>1, <3>2
  <2> QED  BY <2>1, <2>2
<1>3. ASSUME NEW i \in 1..(Len(s) + 1), t[i].op \in EndOps, t[i].stage = "removed",
             NEW j \in 1..(Len(s) + 1), j < i, t[j].op \in EndOps
      PROVE  t[j].loader # t[i].loader
  <2>1. i # 1 /\ i - 1 \in DOMAIN s /\ t[i] = s[i - 1]
    BY <1>1, <1>3
  <2>2. CASE j = 1
    <3>1. s[i - 1] \in ToSet(s)
      BY <2>1 DEF ToSet
    <3> QED  BY <1>1, <1>3, <2>1, <2>2, <3>1
  <2>3. CASE j # 1
    <3>1. j - 1 \in DOMAIN s /\ t[j] = s[j - 1] /\ j - 1 < i - 1
      BY <1>1, <1>3, <2>3
    <3> QED  BY <1>3, <2>1, <3>1 DEF EndsNest
  <2> QED  BY <2>2, <2>3
<1>4. EndsNest(t)
  BY <1>1, <1>2, <1>3 DEF EndsNest
<1> QED  BY <1>4 DEF t

LEMMA PopNests ==
    ASSUME NEW s \in Seq(Frame), s # <<>>, EndsNest(s)
    PROVE  EndsNest(Tail(s))
<1>1. /\ Len(s) \in Nat \ {0} /\ Len(Tail(s)) = Len(s) - 1 /\ Tail(s) \in Seq(Frame)
      /\ \A i \in 1..(Len(s) - 1) : Tail(s)[i] = s[i + 1]
  BY HeadTailProperties
<1>2. /\ DOMAIN s = 1..Len(s) /\ DOMAIN Tail(s) = 1..(Len(s) - 1)
      /\ \A i \in 1..(Len(s) - 1) : i + 1 \in DOMAIN s
  BY <1>1
<1> DEFINE t == Tail(s)
<1> HIDE DEF t
<1>3. /\ DOMAIN t = 1..(Len(s) - 1) /\ Len(t) = Len(s) - 1
      /\ \A i \in 1..(Len(s) - 1) : t[i] = s[i + 1]
  BY <1>1, <1>2 DEF t
<1>4. ASSUME NEW i \in 1..(Len(s) - 1), t[i].op \in EndOps
      PROVE  t[i].op = "didCancel" \/ i = Len(t)
  <2>1. t[i].op = "didCancel" \/ i + 1 = Len(s)
    BY <1>2, <1>3, <1>4 DEF EndsNest
  <2>2. Len(t) = Len(s) - 1 /\ Len(s) \in Nat
    BY <1>1, <1>3
  <2> HIDE DEF t
  <2> QED  BY ONLY <2>1, <2>2, i \in 1..(Len(s) - 1)
<1>5. ASSUME NEW i \in 1..(Len(s) - 1), t[i].op \in EndOps, t[i].stage = "removed",
             NEW j \in 1..(Len(s) - 1), j < i, t[j].op \in EndOps
      PROVE  t[j].loader # t[i].loader
  <2>1. j + 1 < i + 1
    BY <1>5
  <2> QED  BY <1>2, <1>3, <1>5, <2>1 DEF EndsNest
<1>6. EndsNest(t)
  BY <1>3, <1>4, <1>5 DEF EndsNest
<1> QED  BY <1>6 DEF t

LEMMA EndFrames ==
    ASSUME stack \in Seq(Frame)
    PROVE  \A f \in ToSet(stack) : f.op \in EndOps =>
              f.loader \in Loaders /\ f = End(f.op, f.loader, f.stage)
                                   /\ f.stage \in {"told", "removed"}
<1>1. ToSet(stack) \subseteq Frame
  BY DEF ToSet
<1>2. ASSUME NEW f \in Frame, f.op \in EndOps
      PROVE  f \in EndFrame
  BY <1>2 DEF Frame, ServeFrame, SnapshotFrame, SweepFrame, AttachFrame, EndOps
<1> QED  BY <1>1, <1>2 DEF EndFrame, End

LEMMA EndsOnceFollows == EndInv => EndsOnce
<1> SUFFICES ASSUME EndInv, NEW l \in Loaders, NEW op \in EndOps, NEW s \in {"told", "removed"},
                    On(End(op, l, s))
             PROVE  phase[l] \in IF s = "removed" THEN Active ELSE Active \cup {"cancelled"}
  BY DEF EndsOnce, CancelFindsNoEndedLoad, EndOps, Active
<1>1. End(op, l, s) \in ToSet(stack)
  BY DEF On, ToSet
<1>2. /\ End(op, l, s).op = op /\ End(op, l, s).loader = l /\ End(op, l, s).stage = s
  BY DEF End
<1> QED  BY <1>1, <1>2 DEF EndInv, EndPhases

\* Under a frame that ends a load: nothing, unless it cancels it, and no frame of
\* the same loader that has left the document loader.
LEMMA EndsTail ==
    ASSUME stack \in Seq(Frame), stack # <<>>, EndsNest(stack), Top.op \in EndOps
    PROVE  /\ Top.op = "didCancel" \/ Tail(stack) = <<>>
           /\ \A g \in ToSet(Tail(stack)) :
                 g.op \in EndOps /\ g.stage = "removed" => g.loader # Top.loader
<1>1. /\ Len(stack) \in Nat \ {0} /\ DOMAIN stack = 1..Len(stack) /\ Top = stack[1]
      /\ Tail(stack) \in Seq(Frame) /\ Len(Tail(stack)) = Len(stack) - 1
      /\ DOMAIN Tail(stack) = 1..(Len(stack) - 1)
      /\ \A i \in 1..(Len(stack) - 1) : Tail(stack)[i] = stack[i + 1]
  BY HeadTailProperties DEF Top
<1>2. Top.op = "didCancel" \/ 1 = Len(stack)
  BY <1>1 DEF EndsNest
<1>3. Len(stack) = 1 => Tail(stack) = <<>>
  BY <1>1, EmptySeq
<1>4. ASSUME NEW i \in 1..(Len(stack) - 1), Tail(stack)[i].op \in EndOps,
             Tail(stack)[i].stage = "removed"
      PROVE  Tail(stack)[i].loader # Top.loader
  <2>1. i + 1 \in DOMAIN stack /\ 1 < i + 1 /\ Tail(stack)[i] = stack[i + 1]
    BY <1>1
  <2> QED  BY <1>1, <1>4, <2>1 DEF EndsNest
<1> QED  BY <1>1, <1>2, <1>3, <1>4 DEF ToSet

LEMMA EndStep ==
    ASSUME "null" \notin InitialSend, EndInv, [Next]_vars
    PROVE  EndPhases' /\ EndsNest(stack')
<1> DEFINE Goal == EndPhases' /\ EndsNest(stack')
           Allowed(f) == IF f.stage = "removed" THEN Active ELSE Active \cup {"cancelled"}
           Kept == \A m \in Loaders :
                      /\ phase[m] \in Active => phase'[m] \in Active
                      /\ phase[m] = "cancelled" => phase'[m] \in Active \cup {"cancelled"}
           Old(s) == \A f \in ToSet(s) : f \in ToSet(stack) \/ f.op \notin EndOps
<1> USE DEF schedulerVars, loaderVars
<1>0. /\ TypeOK /\ stack \in Seq(Frame) /\ EndPhases /\ EndsNest(stack)
      /\ \A f \in ToSet(stack) : f.op \in EndOps => phase[f.loader] \in Allowed(f)
  BY DEF EndInv, TypeOK, EndPhases
<1>b. \A f \in ToSet(stack) : f.op \in EndOps => f.loader \in Loaders
  BY <1>0, EndFrames
<1>c. ASSUME Kept,
             \A f \in ToSet(stack') :
                \/ f \in ToSet(stack) \/ f.op \notin EndOps
                \/ f.loader \in Loaders /\ phase[f.loader] \in Allowed(f)
      PROVE  EndPhases'
  <2> SUFFICES ASSUME NEW f \in ToSet(stack'), f.op \in EndOps
               PROVE  phase'[f.loader] \in Allowed(f)
    BY DEF EndPhases
  <2>1. f.loader \in Loaders /\ phase[f.loader] \in Allowed(f)
    BY <1>0, <1>b, <1>c
  <2> QED  BY <1>c, <2>1
<1>d. ASSUME Kept, NEW s \in Seq(Frame), EndsNest(s), Old(s),
             NEW f \in Frame, f.op \notin EndOps, stack' = <<f>> \o s
      PROVE  Goal
  <2>1. EndsNest(stack')
    BY <1>d, PushNests
  <2>2. ToSet(stack') \subseteq {f} \cup ToSet(s)
    BY <1>d, PushElements
  <2> QED  BY <1>c, <1>d, <2>1, <2>2
<1>e. ASSUME stack # <<>>
      PROVE  Tail(stack) \in Seq(Frame) /\ EndsNest(Tail(stack)) /\ Old(Tail(stack))
  BY <1>0, <1>e, StackTop, PopNests, PopElements
<1>f. ASSUME Kept, stack # <<>>, Pop PROVE Goal
  BY <1>c, <1>e, <1>f DEF Pop
<1>g. ASSUME Kept, stack' = stack PROVE Goal
  BY <1>0, <1>c, <1>g
<1>h. ASSUME Kept, NEW f \in Frame, f.op \notin EndOps, Push(f) PROVE Goal
  BY <1>0, <1>d, <1>h DEF Push
<1>i. phase' = phase => Kept
  OBVIOUS
<1>j. ASSUME NEW l, NEW x \in Active, phase' = [phase EXCEPT ![l] = x] PROVE Kept
  BY <1>0, <1>j DEF TypeOK
<1> SUFFICES Goal
  OBVIOUS
<1> HIDE DEF Kept, Goal
<1>1. ASSUME NEW l \in Loaders, NEW h \in AllHosts, NEW p \in Priorities,
             NEW d \in Deferrals, ScheduleLoad(l, h, p, d)
      PROVE  Goal
  <2>1. Serve(h, p) \in Frame /\ Serve(h, p).op \notin EndOps
    BY PrioritiesAssumption, FrameTypes DEF Serve, EndOps
  <2>2. Kept
    BY <1>1, <1>j DEF ScheduleLoad, Active
  <2> QED  BY <1>1, <1>g, <1>h, <2>1, <2>2 DEF ScheduleLoad
<1>2. ASSUME NEW l \in Loaders, NEW h \in AllHosts, AddMainResourceLoad(l, h)
      PROVE  Goal
  <2>1. Kept
    BY <1>2, <1>j DEF AddMainResourceLoad, Active
  <2> QED  BY <1>2, <1>g, <2>1 DEF AddMainResourceLoad
<1>3. ASSUME NEW l \in Loaders, NEW b \in Deferrals, SetDefersLoading(l, b)
      PROVE  Goal
  <2>1. stack' = stack /\ (phase' = phase \/ phase' = [phase EXCEPT ![l] = "inFlight"])
    BY <1>3 DEF SetDefersLoading, Start, SendAs
  <2> QED  BY <1>g, <1>i, <1>j, <2>1 DEF Active
<1>4. CASE ServeStart
  <2>1. PICK p \in Waiting(Top) :
            Start(Head(pending[Top.host][p]), defers[Head(pending[Top.host][p])],
                  <<[Top EXCEPT !.prio = p]>> \o Tail(stack))
    BY <1>4 DEF ServeStart
  <2>2. PICK l, h, d : SendAs(l, h, d) /\ stack' = <<[Top EXCEPT !.prio = p]>> \o Tail(stack)
    BY <2>1 DEF Start
  <2>3. Kept
    BY <1>j, <2>2 DEF SendAs, Active
  <2>4. stack # <<>> /\ Top \in ServeFrame
    BY <1>0, <1>4, ServeTop DEF ServeStart, Running
  <2>5. p \in Priority
    BY <2>4 DEF Waiting, ServeFrame, Priority, VeryLow, High
  <2>6. [Top EXCEPT !.prio = p] \in Frame /\ [Top EXCEPT !.prio = p].op \notin EndOps
    BY <2>4, <2>5 DEF ServeFrame, Frame, EndOps
  <2> QED  BY <1>d, <1>e, <2>2, <2>3, <2>4, <2>6
<1>5. ASSUME NEW h \in Hosts, SweepHost(h)
      PROVE  Goal
  <2> DEFINE f == [Top EXCEPT !.todo = @ \ {h}]
             rest == <<f>> \o Tail(stack)
  <2>1. stack # <<>> /\ Top \in SweepFrame /\ Kept
    BY <1>0, <1>5, <1>i, SweepTop DEF SweepHost, Running
  <2>2. f \in Frame /\ f.op \notin EndOps
    BY <2>1 DEF SweepFrame, Frame, EndOps
  <2>3. stack' = rest \/ stack' = <<Serve(h, VeryLow)>> \o rest
    BY <1>5 DEF SweepHost
  <2> HIDE DEF f
  <2>4. CASE stack' = rest
    BY <1>d, <1>e, <2>1, <2>2, <2>4
  <2>5. CASE stack' = <<Serve(h, VeryLow)>> \o rest
    <3>1. Serve(h, VeryLow) \in Frame /\ Serve(h, VeryLow).op \notin EndOps
      <4>1. h \in AllHosts /\ VeryLow \in Priority
        BY DEF AllHosts, VeryLow, High, Priority
      <4> QED  BY <4>1, FrameTypes DEF Serve, EndOps
    <3>2. rest \in Seq(Frame) /\ EndsNest(rest)
      BY <1>e, <2>1, <2>2, StackPush, PushNests
    <3>3. ToSet(rest) \subseteq {f} \cup ToSet(Tail(stack))
      BY <1>e, <2>1, <2>2, PushElements
    <3>4. Old(rest)
      BY <1>e, <2>1, <2>2, <3>3
    <3> HIDE DEF rest
    <3> QED  BY <1>d, <2>1, <2>5, <3>1, <3>2, <3>4
  <2> QED  BY <2>3, <2>4, <2>5
<1>6. CASE TimerFires
  <2> DEFINE f == [op |-> "snapshot"]
             rest == <<f>> \o stack
  <2>1. Serve(NonHTTP, VeryLow) \in Frame /\ f \in Frame
    BY FrameTypes DEF AllHosts, VeryLow, High, Priority
  <2>2. Serve(NonHTTP, VeryLow).op \notin EndOps /\ f.op \notin EndOps
    BY DEF Serve, EndOps
  <2>3. Kept
    BY <1>6, <1>i DEF TimerFires
  <2>4. stack' = stack \/ stack' = <<Serve(NonHTTP, VeryLow), f>> \o stack
    BY <1>6 DEF TimerFires
  <2>5. CASE stack' = <<Serve(NonHTTP, VeryLow), f>> \o stack
    <3> HIDE DEF f
    <3>1. <<Serve(NonHTTP, VeryLow), f>> = <<Serve(NonHTTP, VeryLow)>> \o <<f>>
      OBVIOUS
    <3>2. stack' = <<Serve(NonHTTP, VeryLow)>> \o rest
      BY <1>0, <2>1, <2>5, <3>1, ConcatAssociative
    <3>3. rest \in Seq(Frame) /\ EndsNest(rest) /\ ToSet(rest) \subseteq {f} \cup ToSet(stack)
      BY <1>0, <2>1, <2>2, StackPush, PushNests, PushElements
    <3>4. Old(rest)
      BY <2>2, <3>3
    <3> HIDE DEF rest
    <3> QED  BY <1>d, <2>1, <2>2, <2>3, <3>2, <3>3, <3>4
  <2> QED  BY <1>g, <2>3, <2>4, <2>5
<1>7. CASE SnapshotHosts
  <2>1. [op |-> "sweep", todo |-> hostMap] \in Frame
    BY <1>0, FrameTypes DEF TypeOK
  <2> QED  BY <1>7, <1>d, <1>e, <1>i, <2>1 DEF SnapshotHosts, Running, EndOps
<1>8. CASE SuspendPendingRequests
  BY <1>8, <1>h, <1>i, FrameTypes DEF SuspendPendingRequests, EndOps
<1>9. CASE ServeReturn \/ SweepReturn \/ ResumePendingRequests
  BY <1>9, <1>f, <1>i DEF ServeReturn, SweepReturn, ResumePendingRequests, Running
<1>10. ASSUME NEW l \in Loaders, DidFinishLoading(l) \/ DidFail(l) \/ Cancel(l)
       PROVE  Goal
  <2>1. PICK op \in EndOps, t \in {"told", "removed"} :
            /\ Push(End(op, l, t)) /\ phase' = phase /\ phase[l] \in Active
            /\ op = "didCancel" \/ stack = <<>>
            /\ stack # <<>> => Attached(l)
    BY <1>10 DEF DidFinishLoading, DidFail, Cancel, HandleReports, Attached, Active, EndOps, FailStage
  <2> DEFINE f == End(op, l, t)
  <2>2. f \in Frame /\ f.op = op /\ f.loader = l /\ f.stage = t
    BY FrameTypes DEF End
  <2>3. ASSUME NEW g \in ToSet(stack), g.op \in EndOps, g.stage = "removed" PROVE g.loader # l
    <3>1. stack # <<>> /\ g = End(g.op, g.loader, "removed")
      BY <1>0, <2>3, EndFrames DEF ToSet
    <3>2. On(g)
      BY <2>3 DEF On, ToSet
    <3> QED  BY <2>1, <2>3, <3>1, <3>2 DEF Attached
  <2> HIDE DEF f
  <2>4. stack' = <<f>> \o stack /\ Kept
    BY <1>i, <2>1 DEF Push, f
  <2>5. EndsNest(stack')
    BY <1>0, <2>1, <2>2, <2>3, <2>4, PushNests
  <2>6. ToSet(stack') \subseteq {f} \cup ToSet(stack)
    BY <1>0, <2>2, <2>4, PushElements
  <2>7. EndPhases'
    BY <1>c, <2>1, <2>2, <2>4, <2>6
  <2> QED  BY <2>5, <2>7 DEF Goal
<1>11. ASSUME NEW l \in Loaders, LeaveDocumentLoader(l)
       PROVE  Goal
  <2>1. PICK op \in EndOps :
            /\ stack # <<>> /\ Top = End(op, l, "told") /\ phase' = phase
            /\ phase[l] # "cancelled"
            /\ stack' = <<End(op, l, "removed")>> \o Tail(stack)
    BY <1>11 DEF LeaveDocumentLoader, Running
  <2> DEFINE f == End(op, l, "removed")
  <2>2. f \in Frame /\ f.op = op /\ f.loader = l /\ f.stage = "removed"
    BY FrameTypes DEF End
  <2>3. Top \in ToSet(stack) /\ Top.op = op /\ Top.loader = l /\ Top.stage = "told"
    BY <1>0, <2>1, PopElements DEF End
  <2>4. phase[l] \in Active
    BY <1>0, <2>1, <2>3
  <2>5. op = "didCancel" \/ Tail(stack) = <<>>
    BY <1>0, <2>1, <2>3, EndsTail
  <2>6. ASSUME NEW g \in ToSet(Tail(stack)), g.op \in EndOps, g.stage = "removed"
        PROVE  g.loader # l
    BY <1>0, <2>1, <2>3, <2>6, EndsTail
  <2> HIDE DEF f
  <2>7. Kept /\ stack' = <<f>> \o Tail(stack)
    BY <1>i, <2>1 DEF f
  <2>8. EndsNest(stack')
    BY <1>e, <2>1, <2>2, <2>5, <2>6, <2>7, PushNests
  <2>9. ToSet(stack') \subseteq {f} \cup ToSet(Tail(stack))
    BY <1>e, <2>1, <2>2, <2>7, PushElements
  <2>10. EndPhases'
    BY <1>c, <1>e, <2>1, <2>2, <2>4, <2>7, <2>9
  <2> QED  BY <2>8, <2>10 DEF Goal
<1>12. ASSUME NEW l \in Loaders, EndReturnsEarly(l)
       PROVE  Goal
  BY <1>12, <1>f, <1>i DEF EndReturnsEarly, Running
<1>13. ASSUME NEW l \in Loaders, ReleaseResources(l)
       PROVE  Goal
  <2>1. PICK op \in EndOps :
            /\ stack # <<>> /\ Top = End(op, l, "removed") /\ stack' = Tail(stack)
            /\ phase' = [phase EXCEPT ![l] = IF op = "didCancel" THEN "cancelled" ELSE "ended"]
    BY <1>13 DEF ReleaseResources, Running, Pop
  <2>2. Top.op = op /\ Top.loader = l /\ Top.stage = "removed"
    BY <2>1 DEF End
  <2>3. /\ op = "didCancel" \/ stack' = <<>>
        /\ \A g \in ToSet(stack') : g.op \in EndOps /\ g.stage = "removed" => g.loader # l
    BY <1>0, <2>1, <2>2, EndsTail
  <2>4. ASSUME NEW f \in ToSet(stack'), f.op \in EndOps
        PROVE  phase'[f.loader] \in Allowed(f)
    <3>1. f \in ToSet(stack) /\ f.loader \in Loaders /\ phase[f.loader] \in Allowed(f)
      BY <1>0, <1>b, <1>e, <2>1, <2>4
    <3>2. CASE f.loader = l
      <4>1. f.stage # "removed" /\ stack' # <<>>
        BY <2>3, <2>4, <3>2 DEF ToSet
      <4>2. phase'[l] = "cancelled"
        BY <1>0, <2>1, <2>3, <4>1 DEF TypeOK
      <4> QED  BY <3>2, <4>1, <4>2
    <3>3. CASE f.loader # l
      BY <1>0, <2>1, <3>1, <3>3 DEF TypeOK
    <3> QED  BY <3>2, <3>3
  <2>5. EndPhases'
    BY <2>4 DEF EndPhases
  <2>6. EndsNest(stack')
    BY <1>e, <2>1
  <2> QED  BY <2>5, <2>6 DEF Goal
<1>14. ASSUME \/ UNCHANGED vars
              \/ \E b \in BOOLEAN : SetParsing(b)
              \/ \E l \in Loaders, h \in AllHosts : Redirect(l, h)
       PROVE  Goal
  BY <1>14, <1>g, <1>i DEF vars, SetParsing, Redirect
<1> QED
  BY <1>1, <1>2, <1>3, <1>4, <1>5, <1>6, <1>7, <1>8, <1>9, <1>10, <1>11, <1>12, <1>13, <1>14
     DEF Next, Callers, Network, Scheduler, Ending

\* A load ends once: no function ends a load that has ended, whatever the calls on
\* the way did to it.  It is so for every embedder that does not clear requests;
\* one that does has a load fail from inside the call that starts it, and
\* SubresourceLoader::didCancel finds it ended (SubresourceLoader.cpp, didFail).
THEOREM LoadsEndOnce == "null" \notin InitialSend => (Spec => []EndsOnce)
<1> SUFFICES ASSUME "null" \notin InitialSend
             PROVE  Spec => []EndsOnce
  OBVIOUS
<1>1. Init => EndInv
  BY InitTypes DEF Init, EndInv, EndPhases, EndsNest, ToSet
<1>2. EndInv /\ [Next]_vars => EndInv'
  BY TypeStep, EndStep DEF EndInv
<1> QED  BY <1>1, <1>2, EndsOnceFollows, PTL DEF Spec

(***************************************************************************)
(* Elements of a stack.                                                    *)
(***************************************************************************)
LEMMA PushHolds ==
    ASSUME NEW f \in Frame, NEW s \in Seq(Frame)
    PROVE  ToSet(<<f>> \o s) = {f} \cup ToSet(s)
<1> DEFINE t == <<f>> \o s
<1>0. <<f>> \in Seq(Frame) /\ Len(<<f>>) = 1 /\ <<f>>[1] = f
  OBVIOUS
<1>1. /\ t \in Seq(Frame) /\ Len(t) = 1 + Len(s)
      /\ \A i \in 1..(1 + Len(s)) : t[i] = IF i <= 1 THEN f ELSE s[i - 1]
  BY <1>0, ConcatProperties
<1>2. Len(s) \in Nat /\ DOMAIN s = 1..Len(s)
  OBVIOUS
<1> HIDE DEF t
<1>3. DOMAIN t = 1..(1 + Len(s))
  BY <1>1
<1>4. t[1] = f /\ 1 \in DOMAIN t
  BY <1>1, <1>2, <1>3
<1>5. ASSUME NEW i \in DOMAIN s PROVE s[i] \in ToSet(t)
  <2>1. i + 1 \in 1..(1 + Len(s)) /\ ~(i + 1 <= 1) /\ (i + 1) - 1 = i
    BY <1>2
  <2>2. t[i + 1] = s[i] /\ i + 1 \in DOMAIN t
    BY <1>1, <1>3, <2>1
  <2> QED  BY <2>2 DEF ToSet
<1>6. {f} \cup ToSet(s) \subseteq ToSet(t)
  BY <1>4, <1>5 DEF ToSet
<1> QED  BY <1>6, PushElements DEF t

LEMMA PopHolds ==
    ASSUME stack \in Seq(Frame), stack # <<>>
    PROVE  ToSet(stack) = {Top} \cup ToSet(Tail(stack))
<1>1. /\ Tail(stack) \in Seq(Frame) /\ Top = stack[1]
      /\ Len(stack) \in Nat \ {0} /\ Len(Tail(stack)) = Len(stack) - 1
      /\ \A i \in 1..(Len(stack) - 1) : Tail(stack)[i] = stack[i + 1]
  BY HeadTailProperties DEF Top
<1>2. DOMAIN stack = 1..Len(stack) /\ DOMAIN Tail(stack) = 1..(Len(stack) - 1)
  BY <1>1
<1>3. ASSUME NEW i \in DOMAIN stack PROVE stack[i] \in {Top} \cup ToSet(Tail(stack))
  <2>1. CASE i = 1
    BY <1>1, <2>1
  <2>2. CASE i # 1
    <3>1. i - 1 \in 1..(Len(stack) - 1) /\ (i - 1) + 1 = i
      BY <1>1, <1>2, <2>2
    <3>2. Tail(stack)[i - 1] = stack[i] /\ i - 1 \in DOMAIN Tail(stack)
      BY <1>1, <1>2, <3>1
    <3> QED  BY <3>2 DEF ToSet
  <2> QED  BY <2>1, <2>2
<1>4. ToSet(stack) \subseteq {Top} \cup ToSet(Tail(stack))
  BY <1>3 DEF ToSet
<1> QED  BY <1>4, PopElements

(***************************************************************************)
(* The inductive invariant. A host where a load waits below the limit is   *)
(* being served, or in a sweep; or the timer is set, or will be: when the  *)
(* attach that suspended the scheduler is over, when a load in flight that *)
(* took its slot unchecked ends, or, for the host without a name, when one *)
(* of its loads ends.                                                      *)
(***************************************************************************)
Waits(h) == \E p \in Priority : pending[h][p] # <<>>
Limited(h) == ShouldLimit(h) /\ LimitRequests(h)

BeingServed(h) ==
    /\ Running("serve")
    /\ Top.host = h
    /\ \A p \in Priority : p < Top.min => pending[h][p] = <<>>

Sweeps(f, h) ==
    \/ f.op = "snapshot" /\ h # NonHTTP
    \/ f.op = "sweep" /\ h \in f.todo
InSweep(h) == \E f \in ToSet(stack) : Sweeps(f, h)

Attaching == \E f \in ToSet(stack) : f.op = "attach"
Unchecked == \E g \in AllHosts : loading[g] \ admitted # {}

WillBeServed(h) ==
    \/ timer \/ Attaching \/ Unchecked
    \/ h = NonHTTP /\ loading[h] # {}
    \/ BeingServed(h) \/ InSweep(h)

NoneForgotten == \A h \in AllHosts : Waits(h) /\ ~Limited(h) => WillBeServed(h)

ResumesLater == suspended => Attaching

WakeupInv == OrderInv /\ ResumesLater /\ NoneForgotten

\* While code outside is in control, nothing is being served.
LEMMA ControlServesNone ==
    ASSUME stack \in Seq(Frame), InControl, ServesOnTop, NEW h
    PROVE  ~BeingServed(h) /\ ~InSweep(h)
<1>1. CallsOnly(stack)
  BY ControlParts
<1>2. ~InSweep(h)
  BY <1>1 DEF CallsOnly, InSweep, Sweeps
<1>3. ~BeingServed(h)
  BY DEF BeingServed, Running, InControl, EndOps
<1> QED  BY <1>2, <1>3

\* Calls to code outside, and what follows them, touch no queue.
LEMMA CallsForgetNone ==
    ASSUME NoneForgotten, \A h \in AllHosts : ~BeingServed(h) /\ ~InSweep(h),
           Attaching => Attaching',
           UNCHANGED <<pending, loading, timer, parsing, admitted>>
    PROVE  NoneForgotten'
BY DEF NoneForgotten, Waits, Limited, ShouldLimit, LimitRequests, WillBeServed, Unchecked

\* The timer is set.
LEMMA TimerForgetsNone ==
    ASSUME timer' PROVE NoneForgotten'
BY DEF NoneForgotten, WillBeServed

(***************************************************************************)
(* What the steps of the scheduler do to the stack.                        *)
(***************************************************************************)
\* The timer fires while pending requests are not suspended.
LEMMA SweepPushed ==
    ASSUME stack \in Seq(Frame), TimerFires, ~suspended
    PROVE  /\ stack' # <<>> /\ Top' = Serve(NonHTTP, VeryLow)
           /\ [op |-> "snapshot"] \in ToSet(stack') /\ ToSet(stack) \subseteq ToSet(stack')
<1> DEFINE n == [op |-> "snapshot"]
           v == Serve(NonHTTP, VeryLow)
           rest == <<n>> \o stack
<1>1. n \in Frame /\ v \in Frame
  BY FrameTypes DEF AllHosts, VeryLow, High, Priority
<1>2. stack' = <<v, n>> \o stack
  BY DEF TimerFires
<1> HIDE DEF n, v
<1>3. rest \in Seq(Frame) /\ ToSet(rest) = {n} \cup ToSet(stack)
  BY <1>1, PushParts, PushHolds
<1>4. stack' = <<v>> \o rest
  <2>1. <<v, n>> = <<v>> \o <<n>> /\ <<v>> \in Seq(Frame) /\ <<n>> \in Seq(Frame)
    BY <1>1
  <2>2. (<<v>> \o <<n>>) \o stack = <<v>> \o (<<n>> \o stack)
    BY <2>1, ConcatAssociative
  <2> QED  BY <1>2, <2>1, <2>2
<1> HIDE DEF rest
<1>5. stack' # <<>> /\ Head(stack') = v /\ ToSet(stack') = {v} \cup ToSet(rest)
  BY <1>1, <1>3, <1>4, PushParts, PushHolds
<1> QED  BY <1>3, <1>5 DEF Top, n, v

\* A sweep takes a host from its list, and serves it if there is something to serve.
LEMMA HostTaken ==
    ASSUME stack \in Seq(Frame), NEW h \in Hosts, SweepHost(h)
    PROVE  /\ stack # <<>> /\ Top \in SweepFrame
           /\ ToSet(Tail(stack)) \cup {[Top EXCEPT !.todo = @ \ {h}]} \subseteq ToSet(stack')
           /\ HasRequests(h) => stack' # <<>> /\ Top' = Serve(h, VeryLow)
<1> DEFINE f == [Top EXCEPT !.todo = @ \ {h}]
           rest == <<f>> \o Tail(stack)
           v == Serve(h, VeryLow)
<1>1. stack # <<>> /\ Top \in SweepFrame /\ Tail(stack) \in Seq(Frame)
  BY SweepTop, StackTop DEF SweepHost, Running
<1>2. f \in Frame /\ v \in Frame
  BY <1>1, FrameTypes DEF SweepFrame, Frame, AllHosts, VeryLow, High, Priority
<1>3. IF HasRequests(h) THEN stack' = <<v>> \o rest ELSE stack' = rest
  BY DEF SweepHost
<1> HIDE DEF f, v
<1>4. rest \in Seq(Frame) /\ ToSet(rest) = {f} \cup ToSet(Tail(stack))
  BY <1>1, <1>2, PushParts, PushHolds
<1> HIDE DEF rest
<1>5. HasRequests(h) =>
          stack' # <<>> /\ Head(stack') = v /\ ToSet(stack') = {v} \cup ToSet(rest)
  BY <1>2, <1>3, <1>4, PushParts, PushHolds
<1> QED  BY <1>1, <1>3, <1>4, <1>5 DEF Top, f, v

\* The host that is served goes on being served at the priority it has reached.
LEMMA LoadTaken ==
    ASSUME "null" \notin InitialSend, TypeOK, ServeStart
    PROVE  \E p \in Waiting(Top) :
              /\ stack # <<>> /\ Top \in ServeFrame /\ Top.op = "serve" /\ p \in Priority
              /\ stack' # <<>> /\ Top' = [Top EXCEPT !.prio = p]
              /\ ToSet(Tail(stack)) \subseteq ToSet(stack')
              /\ pending' = [pending EXCEPT ![Top.host][p] = Tail(@)]
              /\ loading' = [loading EXCEPT ![Top.host] = @ \cup {Head(pending[Top.host][p])}]
              /\ admitted' \subseteq admitted \cup {Head(pending[Top.host][p])}
<1>1. stack \in Seq(Frame) /\ stack # <<>> /\ Top \in ServeFrame /\ Top.op = "serve"
      /\ Tail(stack) \in Seq(Frame)
  BY ServeTop, StackTop DEF ServeStart, Running, TypeOK
<1>2. PICK p \in Waiting(Top) :
          /\ pending' = [pending EXCEPT ![Top.host][p] = Tail(@)]
          /\ loading' = [loading EXCEPT ![Top.host] = @ \cup {Head(pending[Top.host][p])}]
          /\ admitted' \subseteq admitted \cup {Head(pending[Top.host][p])}
          /\ stack' = <<[Top EXCEPT !.prio = p]>> \o Tail(stack)
  BY DEF ServeStart, Start
<1> DEFINE f == [Top EXCEPT !.prio = p]
<1>3. p \in Priority
  BY <1>1 DEF Waiting, ServeFrame, Priority, VeryLow, High
<1>4. f \in Frame
  BY <1>1, <1>3 DEF ServeFrame, Frame
<1> HIDE DEF f
<1>5. stack' # <<>> /\ Head(stack') = f /\ ToSet(stack') = {f} \cup ToSet(Tail(stack))
  BY <1>1, <1>2, <1>4, PushParts, PushHolds DEF f
<1> QED  BY <1>1, <1>2, <1>3, <1>5 DEF Top, f

(***************************************************************************)
(* An attach under way stays until it resumes the scheduler.               *)
(***************************************************************************)
LEMMA AttachingStays ==
    ASSUME "null" \notin InitialSend, OrderInv, [Next]_vars, ~ResumePendingRequests,
           Attaching
    PROVE  Attaching'
<1>0. TypeOK /\ stack \in Seq(Frame)
  BY DEF OrderInv, QueueInv, TypeOK
\* Something is pushed, or nothing happens.
<1>a. ASSUME ToSet(stack) \subseteq ToSet(stack') PROVE Attaching'
  BY <1>a DEF Attaching
<1>b. ASSUME NEW f \in Frame, stack' = <<f>> \o stack PROVE Attaching'
  BY <1>0, <1>a, <1>b, PushHolds
\* Something else than an attach is on top and goes.
<1>c. ASSUME stack # <<>>, Top.op # "attach", ToSet(Tail(stack)) \subseteq ToSet(stack')
      PROVE  Attaching'
  BY <1>0, <1>c, PopHolds DEF Attaching
<1>1. ASSUME NEW l \in Loaders, NEW h \in AllHosts, NEW p \in Priorities,
             NEW d \in Deferrals, ScheduleLoad(l, h, p, d)
      PROVE  Attaching'
  <2>1. Serve(h, p) \in Frame
    BY FrameTypes, PrioritiesAssumption
  <2> QED  BY <1>1, <1>a, <1>b, <2>1 DEF ScheduleLoad, Push
<1>2. ASSUME \/ \E l \in Loaders, h \in AllHosts : AddMainResourceLoad(l, h) \/ Redirect(l, h)
             \/ \E l \in Loaders, b \in Deferrals : SetDefersLoading(l, b)
             \/ \E b \in BOOLEAN : SetParsing(b)
             \/ UNCHANGED vars
      PROVE  Attaching'
  <2>1. stack' = stack
    BY <1>2 DEF AddMainResourceLoad, Redirect, SetDefersLoading, SetParsing, Start, vars
  <2> QED  BY <1>a, <2>1
<1>3. ASSUME NEW l \in Loaders, DidFinishLoading(l) \/ DidFail(l) \/ Cancel(l)
      PROVE  Attaching'
  <2>1. PICK op \in EndOps, t \in {"told", "removed"} : stack' = <<End(op, l, t)>> \o stack
    BY <1>3 DEF DidFinishLoading, DidFail, Cancel, EndOps, FailStage, Push
  <2> QED  BY <1>b, <2>1, FrameTypes
<1>4. ASSUME SuspendPendingRequests PROVE Attaching'
  BY <1>4, <1>b, FrameTypes DEF SuspendPendingRequests, Push
<1>5. ASSUME NEW l \in Loaders, Ending(l) PROVE Attaching'
  <2>1. PICK op \in EndOps, t \in {"told", "removed"} :
            /\ stack # <<>> /\ Top = End(op, l, t)
            /\ stack' = Tail(stack) \/ stack' = <<End(op, l, "removed")>> \o Tail(stack)
    BY <1>5
    DEF Ending, EndReturnsEarly, LeaveDocumentLoader, ReleaseResources, Running, Pop
  <2>2. Top.op # "attach"
    BY <2>1 DEF End, EndOps
  <2>3. ToSet(Tail(stack)) \subseteq ToSet(stack')
    <3> DEFINE f == End(op, l, "removed")
    <3>1. f \in Frame
      BY FrameTypes
    <3>2. Tail(stack) \in Seq(Frame)
      BY <1>0, <2>1, StackTop
    <3>3. stack' = Tail(stack) \/ stack' = <<f>> \o Tail(stack)
      BY <2>1
    <3> HIDE DEF f
    <3> QED  BY <3>1, <3>2, <3>3, PushHolds
  <2> QED  BY <1>c, <2>1, <2>2, <2>3
<1>6. ASSUME ServeReturn \/ SweepReturn PROVE Attaching'
  <2>1. stack # <<>> /\ Top.op # "attach" /\ stack' = Tail(stack)
    BY <1>6 DEF ServeReturn, SweepReturn, Running, Pop
  <2> QED  BY <1>c, <2>1
<1>7. ASSUME ServeStart PROVE Attaching'
  <2>1. stack # <<>> /\ Top.op # "attach" /\ ToSet(Tail(stack)) \subseteq ToSet(stack')
    BY <1>0, <1>7, LoadTaken
  <2> QED  BY <1>c, <2>1
<1>8. ASSUME SnapshotHosts PROVE Attaching'
  <2>1. /\ stack # <<>> /\ Top.op # "attach"
        /\ stack' = <<[op |-> "sweep", todo |-> hostMap]>> \o Tail(stack)
    BY <1>8 DEF SnapshotHosts, Running
  <2>2. [op |-> "sweep", todo |-> hostMap] \in Frame
    BY <1>0, FrameTypes DEF TypeOK
  <2>3. ToSet(Tail(stack)) \subseteq ToSet(stack')
    BY <1>0, <2>1, <2>2, StackTop, PushHolds
  <2> QED  BY <1>c, <2>1, <2>3
<1>9. ASSUME NEW h \in Hosts, SweepHost(h) PROVE Attaching'
  <2>1. stack # <<>> /\ Top.op # "attach" /\ ToSet(Tail(stack)) \subseteq ToSet(stack')
    BY <1>0, <1>9, HostTaken DEF SweepFrame
  <2> QED  BY <1>c, <2>1
<1>10. ASSUME TimerFires PROVE Attaching'
  <2>1. CASE suspended
    BY <1>10, <1>a, <2>1 DEF TimerFires
  <2>2. CASE ~suspended
    BY <1>0, <1>10, <1>a, <2>2, SweepPushed
  <2> QED  BY <2>1, <2>2
<1> QED
  BY <1>1, <1>2, <1>3, <1>4, <1>5, <1>6, <1>7, <1>8, <1>9, <1>10
  DEF Next, Callers, Network, Scheduler

LEMMA ResumesLaterStep ==
    ASSUME "null" \notin InitialSend, OrderInv, ResumesLater, [Next]_vars
    PROVE  ResumesLater'
<1>0. stack \in Seq(Frame)
  BY DEF OrderInv, QueueInv, TypeOK
<1> USE DEF schedulerVars, loaderVars
<1>1. CASE ResumePendingRequests
  BY <1>1 DEF ResumePendingRequests, ResumesLater
<1>2. CASE SuspendPendingRequests
  <2> DEFINE f == [op |-> "attach"]
  <2>1. f \in Frame /\ f.op = "attach" /\ stack' = <<f>> \o stack
    BY <1>2, FrameTypes DEF SuspendPendingRequests, Push
  <2> HIDE DEF f
  <2>2. f \in ToSet(stack')
    BY <1>0, <2>1, PushHolds
  <2> QED  BY <2>1, <2>2 DEF Attaching, ResumesLater
<1>3. CASE ~ResumePendingRequests /\ ~SuspendPendingRequests
  <2>1. ASSUME suspended' PROVE suspended
    <3>1. CASE Callers
      BY <1>3, <2>1, <3>1
      DEF Callers, ScheduleLoad, AddMainResourceLoad, SetDefersLoading, Cancel, SetParsing
    <3>2. CASE Network \/ Scheduler
      BY <2>1, <3>2 DEF Network, DidFinishLoading, DidFail, Redirect, Scheduler, ServeStart,
         ServeReturn, SnapshotHosts, SweepReturn, SweepHost
    <3>3. CASE TimerFires \/ UNCHANGED vars
      BY <2>1, <3>3 DEF TimerFires, vars
    <3>4. CASE \E l \in Loaders : Ending(l)
      BY <2>1, <3>4 DEF Ending, EndReturnsEarly, LeaveDocumentLoader, ReleaseResources
    <3> QED  BY <1>3, <3>1, <3>2, <3>3, <3>4 DEF Next
  <2> QED  BY <1>3, <2>1, AttachingStays DEF ResumesLater
<1> QED  BY <1>1, <1>2, <1>3

(***************************************************************************)
(* No step forgets a host.                                                 *)
(***************************************************************************)
LEMMA NoneForgottenStep ==
    ASSUME "null" \notin InitialSend, WakeupInv, [Next]_vars
    PROVE  NoneForgotten'
<1>0. /\ TypeOK /\ stack \in Seq(Frame) /\ ServesOnTop /\ AboveServed /\ SlotsStarted /\ QueuedOnce
      /\ DroppedHostsAreIdle /\ NoneForgotten /\ ResumesLater /\ OrderInv
  BY DEF WakeupInv, OrderInv, CallsInv, QueueInv, TypeOK
<1> USE DEF schedulerVars, loaderVars
<1>c. ASSUME InControl, ~ResumePendingRequests,
             UNCHANGED <<pending, loading, timer, parsing, admitted>>
      PROVE  NoneForgotten'
  BY <1>0, <1>c, AttachingStays, ControlServesNone, CallsForgetNone
\* What is urgent is served at once; what else the host has waiting was not forgotten.
<1>1. ASSUME NEW l \in Loaders, NEW h \in AllHosts, NEW p \in Priorities,
             NEW d \in Deferrals, ScheduleLoad(l, h, p, d)
      PROVE  NoneForgotten'
  <2>1. CASE timer'
    BY <2>1, TimerForgetsNone
  <2>2. CASE ~timer'
    <3>1. /\ stack' = <<Serve(h, p)>> \o stack /\ timer' = timer /\ InControl
          /\ pending' = [pending EXCEPT ![h][p] = Append(@, l)]
          /\ UNCHANGED <<loading, parsing, admitted>>
      BY <1>1, <2>2 DEF ScheduleLoad, Push
    <3>2. p \in Priority /\ Serve(h, p) \in Frame
      BY PrioritiesAssumption, FrameTypes
    <3>3. stack' # <<>> /\ Top' = Serve(h, p)
      BY <1>0, <3>1, <3>2, PushParts DEF Top
    <3>4. /\ \A g \in AllHosts : g # h => pending'[g] = pending[g]
          /\ \A q \in Priority : q # p => pending'[h][q] = pending[h][q]
      BY <1>0, <3>1, <3>2 DEF TypeOK
    <3>5. Attaching => Attaching'
      BY <1>0, <1>1, <3>1, <3>2, PushHolds DEF Attaching
    <3>6. \A g \in AllHosts : ~BeingServed(g) /\ ~InSweep(g)
      BY <1>0, <3>1, ControlServesNone
    <3>7. ASSUME NEW g \in AllHosts, Waits(g), ~Limited(g)' PROVE WillBeServed(g)'
      <4>1. WillBeServed(g)
        BY <1>0, <3>1, <3>7 DEF NoneForgotten, Limited, ShouldLimit, LimitRequests
      <4> QED  BY <3>1, <3>5, <3>6, <4>1 DEF WillBeServed, Unchecked
    <3>8. ~Waits(h) => BeingServed(h)'
      BY <3>2, <3>3, <3>4 DEF Waits, BeingServed, Running, Serve, Priority
    <3>9. \A g \in AllHosts : g # h /\ Waits(g)' => Waits(g)
      BY <3>4 DEF Waits
    <3> QED  BY <3>7, <3>8, <3>9 DEF NoneForgotten, WillBeServed
  <2> QED  BY <2>1, <2>2
\* A slot is taken unchecked.
<1>2. ASSUME NEW l \in Loaders, NEW h \in AllHosts, AddMainResourceLoad(l, h)
      PROVE  NoneForgotten'
  <2>1. /\ InControl /\ stack' = stack /\ pending' = pending /\ timer' = timer
        /\ admitted' = admitted /\ parsing' = parsing
        /\ loading' = [loading EXCEPT ![h] = @ \cup {l}]
    BY <1>2 DEF AddMainResourceLoad
  <2>2. \A g \in AllHosts : loading[g] \subseteq loading'[g] /\ loading'[g] \subseteq Loaders
    BY <1>0, <2>1 DEF TypeOK
  <2>3. ASSUME NEW g \in AllHosts, Limited(g) PROVE Limited(g)'
    <3>1. Cardinality(loading[g]) <= Cardinality(loading'[g])
          /\ Cardinality(loading[g]) \in Nat /\ Cardinality(loading'[g]) \in Nat
      BY <2>2, LoadersAssumption, FS_Subset, FS_CardinalityType
    <3> QED  BY <2>1, <2>3, <3>1, LimitsAssumption DEF Limited, ShouldLimit, LimitRequests
  <2>4. \A g \in AllHosts : ~BeingServed(g) /\ ~InSweep(g)
    BY <1>0, <2>1, ControlServesNone
  <2>5. Unchecked => Unchecked'
    BY <2>1, <2>2 DEF Unchecked
  <2>6. ASSUME NEW g \in AllHosts, WillBeServed(g) PROVE WillBeServed(g)'
    BY <2>1, <2>2, <2>4, <2>5, <2>6 DEF WillBeServed, Attaching
  <2> QED  BY <1>0, <2>1, <2>3, <2>6 DEF NoneForgotten, Waits
\* The slot that comes free is not given to a load that waits, but the redirected
\* load, which was not checked at its new host, will set the timer when it ends.
<1>3. ASSUME NEW l \in Loaders, NEW h \in AllHosts, Redirect(l, h)
      PROVE  NoneForgotten'
  <2>1. CASE url[l] = h
    BY <1>3, <1>c, <2>1 DEF Redirect, InControl, ResumePendingRequests, Running
  <2>2. CASE url[l] # h
    <3>1. l \in loading'[h] /\ l \notin admitted'
      BY <1>0, <1>3, <2>2 DEF Redirect, TypeOK
    <3> QED  BY <3>1 DEF NoneForgotten, WillBeServed, Unchecked
  <2> QED  BY <2>1, <2>2
\* Parsing limits only the host without a name.
<1>4. ASSUME NEW b \in BOOLEAN, SetParsing(b) PROVE NoneForgotten'
  <2>1. InControl /\ UNCHANGED <<pending, loading, timer, admitted, stack>>
    BY <1>4 DEF SetParsing
  <2>2. \A g \in AllHosts : WillBeServed(g) => WillBeServed(g)'
    BY <1>0, <2>1, ControlServesNone DEF WillBeServed, Attaching, Unchecked
  <2>3. LimitRequests(NonHTTP) => loading[NonHTTP] # {}
    BY FS_EmptySet, LimitsAssumption DEF LimitRequests
  <2>4. ASSUME NEW g \in AllHosts, Limited(g), ~Limited(g)'
        PROVE  g = NonHTTP /\ loading[g] # {}
    BY <2>1, <2>3, <2>4 DEF Limited, ShouldLimit, LimitRequests
  <2> QED  BY <1>0, <2>1, <2>2, <2>4 DEF NoneForgotten, WillBeServed, Waits
<1>5. ASSUME \/ \E l \in Loaders : DidFinishLoading(l) \/ DidFail(l) \/ Cancel(l)
             \/ SuspendPendingRequests
             \/ \E l \in Loaders, b \in Deferrals : SetDefersLoading(l, b)
      PROVE  NoneForgotten'
  <2>1. /\ InControl /\ UNCHANGED <<pending, loading, timer, parsing, admitted>>
    BY <1>5 DEF DidFinishLoading, DidFail, Cancel, HandleReports, SuspendPendingRequests,
       SetDefersLoading, InControl
  <2>2. Attaching => Attaching'
    <3>1. CASE stack' = stack
      BY <3>1 DEF Attaching
    <3>2. ASSUME NEW f \in Frame, stack' = <<f>> \o stack PROVE Attaching => Attaching'
      BY <1>0, <3>2, PushHolds DEF Attaching
    <3>3. ASSUME NEW l \in Loaders, DidFinishLoading(l) \/ DidFail(l) \/ Cancel(l)
          PROVE  \E f \in Frame : stack' = <<f>> \o stack
      <4>1. PICK op \in EndOps, t \in {"told", "removed"} : stack' = <<End(op, l, t)>> \o stack
        BY <3>3 DEF DidFinishLoading, DidFail, Cancel, EndOps, FailStage, Push
      <4> QED  BY <4>1, FrameTypes
    <3>4. SuspendPendingRequests => \E f \in Frame : stack' = <<f>> \o stack
      BY FrameTypes DEF SuspendPendingRequests, Push
    <3>5. (\E l \in Loaders, b \in Deferrals : SetDefersLoading(l, b)) => stack' = stack
      BY DEF SetDefersLoading, Start
    <3> QED  BY <1>5, <3>1, <3>2, <3>3, <3>4, <3>5
  <2> QED  BY <1>0, <2>1, <2>2, ControlServesNone, CallsForgetNone
\* Nothing is served while a load ends, and then the timer is set.
<1>6. ASSUME NEW l \in Loaders, Ending(l) PROVE NoneForgotten'
  <2>1. CASE ReleaseResources(l)
    BY <2>1, TimerForgetsNone DEF ReleaseResources
  <2>2. CASE EndReturnsEarly(l) \/ LeaveDocumentLoader(l)
    <3>1. PICK op \in EndOps : Running(op)
      BY <2>2 DEF EndReturnsEarly, LeaveDocumentLoader
    <3>2. InControl /\ ~ResumePendingRequests
      BY <3>1 DEF InControl, Running, ResumePendingRequests, EndOps
    <3> QED  BY <1>c, <2>2, <3>2 DEF EndReturnsEarly, LeaveDocumentLoader
  <2> QED  BY <1>6, <2>1, <2>2 DEF Ending
\* What waits is at a host on the map or at the one without a name.
<1>7. ASSUME ResumePendingRequests PROVE NoneForgotten'
  <2>1. /\ timer' = (timer \/ hostMap # {} \/ HasRequests(NonHTTP)) /\ pending' = pending
    BY <1>7 DEF ResumePendingRequests
  <2>2. ASSUME NEW h \in AllHosts, Waits(h) PROVE timer'
    <3>1. CASE h = NonHTTP
      BY <2>1, <2>2, <3>1 DEF Waits, HasRequests
    <3>2. CASE h \in Hosts
      BY <1>0, <2>1, <2>2, <3>2 DEF Waits, DroppedHostsAreIdle
    <3> QED  BY <3>1, <3>2 DEF AllHosts
  <2> QED  BY <2>1, <2>2 DEF NoneForgotten, Waits, WillBeServed

\* The host that is served stays on top, and the others where they are.
<1>8. ASSUME ServeStart PROVE NoneForgotten'
  <2>h. PICK h \in AllHosts : h = Top.host
    BY <1>0, <1>8, LoadTaken DEF ServeFrame
  <2>1. PICK p \in Waiting(Top) :
            /\ stack # <<>> /\ Top \in ServeFrame /\ Top.op = "serve" /\ p \in Priority
            /\ stack' # <<>> /\ Top' = [Top EXCEPT !.prio = p]
            /\ ToSet(Tail(stack)) \subseteq ToSet(stack')
            /\ pending' = [pending EXCEPT ![h][p] = Tail(@)]
            /\ loading' = [loading EXCEPT ![h] = @ \cup {Head(pending[h][p])}]
            /\ admitted' \subseteq admitted \cup {Head(pending[h][p])}
    BY <1>0, <1>8, <2>h, LoadTaken
  <2> DEFINE l == Head(pending[h][p])
  <2>2. timer' = timer /\ parsing' = parsing
    BY <1>8 DEF ServeStart
  <2>3. h \in AllHosts /\ Top.min \in Priority /\ Top.min <= p
        /\ Top'.op = "serve" /\ Top'.host = h /\ Top'.min = Top.min
    BY <2>1, <2>h DEF ServeFrame, Waiting, Priority, VeryLow, High
  <2>4. l \in Loaders /\ \A g \in AllHosts : l \notin loading[g]
    <3>1. pending[h][p] \in Seq(Loaders) /\ pending[h][p] # <<>>
      BY <1>0, <2>1, <2>3, <2>h DEF TypeOK, Waiting
    <3>2. l \in ToSet(pending[h][p]) /\ l \in Loaders
      BY <1>0, <2>1, <2>3, <3>1, TailElements DEF QueuedOnce
    <3> QED  BY <1>0, <2>1, <2>3, <3>2 DEF QueuedOnce, SlotsStarted
  <2> HIDE DEF l
  <2>5. /\ \A g \in AllHosts : g # h => pending'[g] = pending[g] /\ loading'[g] = loading[g]
        /\ \A q \in Priority : q # p => pending'[h][q] = pending[h][q]
        /\ loading'[h] = loading[h] \cup {l}
    BY <1>0, <2>1, <2>3 DEF TypeOK, l
  <2>6. Unchecked => Unchecked'
    BY <2>1, <2>4, <2>5 DEF Unchecked, l
  <2>7. Attaching => Attaching'
    BY <1>0, <2>1, PopHolds DEF Attaching
  <2>8. \A g \in AllHosts : InSweep(g) => InSweep(g)'
    BY <1>0, <2>1, PopHolds DEF InSweep, Sweeps
  <2>9. \A g \in AllHosts : BeingServed(g) => BeingServed(g)'
    BY <2>1, <2>3, <2>5, <2>h DEF BeingServed, Running, Priority, VeryLow, High
  <2>10. Waits(h) /\ ~Limited(h)
    BY <1>8, <2>1, <2>h DEF Waits, Waiting, Limited, ServeStart
  <2>11. WillBeServed(h)'
    BY <1>0, <2>2, <2>3, <2>5, <2>6, <2>7, <2>8, <2>9, <2>10 DEF NoneForgotten, WillBeServed
  <2>12. ASSUME NEW g \in AllHosts, g # h, Waits(g)', ~Limited(g)' PROVE WillBeServed(g)'
    <3>1. Waits(g) /\ ~Limited(g)
      BY <2>2, <2>5, <2>12 DEF Waits, Limited, ShouldLimit, LimitRequests
    <3> QED
      BY <1>0, <2>2, <2>5, <2>6, <2>7, <2>8, <2>9, <2>12, <3>1 DEF NoneForgotten, WillBeServed
  <2> QED  BY <2>11, <2>12 DEF NoneForgotten
\* The loop is over: the host has reached its limit, or nothing of it waits that
\* another does not look after.
<1>9. ASSUME ServeReturn PROVE NoneForgotten'
  <2> DEFINE h == Top.host
  <2>1. /\ stack # <<>> /\ Top \in ServeFrame /\ Top.op = "serve" /\ stack' = Tail(stack)
        /\ UNCHANGED <<pending, loading, timer, parsing, admitted>>
        /\ Waiting(Top) # {} => Limited(h)
    BY <1>0, <1>9, ServeTop DEF ServeReturn, Running, Pop, Limited
  <2>2. Attaching => Attaching'
    BY <1>0, <2>1, PopHolds DEF Attaching
  <2>3. \A g \in AllHosts : InSweep(g) => InSweep(g)'
    BY <1>0, <2>1, PopHolds DEF InSweep, Sweeps
  <2>4. ASSUME NEW g \in AllHosts, BeingServed(g), ~Limited(g) PROVE ~Waits(g)
    <3>1. g = h /\ Waiting(Top) = {}
      BY <2>1, <2>4 DEF BeingServed
    <3>2. Top.min \in Priority /\ Top.prio \in Priority
      BY <2>1 DEF ServeFrame
    <3>3. ASSUME NEW q \in Priority PROVE pending[g][q] = <<>>
      <4>1. CASE q < Top.min
        BY <2>4, <4>1 DEF BeingServed
      <4>2. CASE q > Top.prio
        BY <1>0, <2>1, <3>1, <4>2 DEF AboveServed, Running
      <4>3. CASE ~(q < Top.min) /\ ~(q > Top.prio)
        <5>1. q \in Top.min..Top.prio
          BY <3>2, <4>3 DEF Priority, VeryLow, High
        <5> QED  BY <3>1, <5>1 DEF Waiting
      <4> QED  BY <4>1, <4>2, <4>3
    <3> QED  BY <3>3 DEF Waits
  <2>5. ASSUME NEW g \in AllHosts, Waits(g), ~Limited(g) PROVE WillBeServed(g)'
    BY <1>0, <2>1, <2>2, <2>3, <2>4, <2>5 DEF NoneForgotten, WillBeServed, Unchecked
  <2> QED
    BY <2>1, <2>5 DEF NoneForgotten, Waits, Limited, ShouldLimit, LimitRequests
\* The sweep copies the hosts on the map, those where something waits among them.
<1>10. ASSUME SnapshotHosts PROVE NoneForgotten'
  <2> DEFINE f == [op |-> "sweep", todo |-> hostMap]
  <2>1. /\ stack # <<>> /\ Top.op = "snapshot" /\ stack' = <<f>> \o Tail(stack)
        /\ UNCHANGED <<pending, loading, timer, parsing, admitted>>
    BY <1>10 DEF SnapshotHosts, Running
  <2>2. f \in Frame /\ f.op = "sweep" /\ f.todo = hostMap
    BY <1>0, FrameTypes DEF TypeOK
  <2> HIDE DEF f
  <2>3. ToSet(stack') = {f} \cup ToSet(Tail(stack))
    BY <1>0, <2>1, <2>2, StackTop, PushHolds
  <2>4. Attaching => Attaching'
    BY <1>0, <2>1, <2>3, PopHolds DEF Attaching
  <2>5. ASSUME NEW g \in AllHosts, Waits(g), InSweep(g) PROVE InSweep(g)'
    <3>1. CASE g = NonHTTP
      BY <1>0, <2>1, <2>3, <2>5, <3>1, PopHolds DEF InSweep, Sweeps
    <3>2. CASE g # NonHTTP
      <4>1. g \in hostMap
        BY <1>0, <2>5, <3>2 DEF Waits, DroppedHostsAreIdle, AllHosts
      <4> QED  BY <2>2, <2>3, <4>1 DEF InSweep, Sweeps
    <3> QED  BY <3>1, <3>2
  <2>6. \A g \in AllHosts : ~BeingServed(g)
    BY <2>1 DEF BeingServed, Running
  <2>7. ASSUME NEW g \in AllHosts, Waits(g), ~Limited(g) PROVE WillBeServed(g)'
    BY <1>0, <2>1, <2>4, <2>5, <2>6, <2>7 DEF NoneForgotten, WillBeServed, Unchecked
  <2> QED
    BY <2>1, <2>7 DEF NoneForgotten, Waits, Limited, ShouldLimit, LimitRequests
\* The host taken from the list is served if anything of it waits.
<1>11. ASSUME NEW h \in Hosts, SweepHost(h) PROVE NoneForgotten'
  <2> DEFINE f == [Top EXCEPT !.todo = @ \ {h}]
  <2>1. /\ stack # <<>> /\ Top \in SweepFrame
        /\ ToSet(Tail(stack)) \cup {f} \subseteq ToSet(stack')
        /\ HasRequests(h) => stack' # <<>> /\ Top' = Serve(h, VeryLow)
    BY <1>0, <1>11, HostTaken
  <2>2. UNCHANGED <<pending, loading, timer, parsing, admitted>>
    BY <1>11 DEF SweepHost
  <2>3. f.op = "sweep" /\ f.todo = Top.todo \ {h} /\ Top.op = "sweep"
    BY <2>1 DEF SweepFrame
  <2> HIDE DEF f
  <2>4. Attaching => Attaching'
    BY <1>0, <2>1, <2>3, PopHolds DEF Attaching
  <2>5. ASSUME NEW g \in AllHosts, g # h, InSweep(g) PROVE InSweep(g)'
    BY <1>0, <2>1, <2>3, <2>5, PopHolds DEF InSweep, Sweeps
  <2>6. Waits(h) => BeingServed(h)'
    BY <2>1 DEF Waits, HasRequests, BeingServed, Running, Serve, VeryLow, High, Priority
  <2>7. \A g \in AllHosts : ~BeingServed(g)
    BY <2>3 DEF BeingServed, Running
  <2>8. ASSUME NEW g \in AllHosts, Waits(g), ~Limited(g) PROVE WillBeServed(g)'
    BY <1>0, <2>2, <2>4, <2>5, <2>6, <2>7, <2>8 DEF NoneForgotten, WillBeServed, Unchecked
  <2> QED
    BY <2>2, <2>8 DEF NoneForgotten, Waits, Limited, ShouldLimit, LimitRequests
\* No list is left.
<1>12. ASSUME SweepReturn PROVE NoneForgotten'
  <2>1. /\ stack # <<>> /\ Top.op = "sweep" /\ Top.todo = {} /\ stack' = Tail(stack)
        /\ UNCHANGED <<pending, loading, timer, parsing, admitted>>
    BY <1>12 DEF SweepReturn, Running, Pop
  <2>2. Attaching => Attaching'
    BY <1>0, <2>1, PopHolds DEF Attaching
  <2>3. \A g \in AllHosts : InSweep(g) => InSweep(g)'
    BY <1>0, <2>1, PopHolds DEF InSweep, Sweeps
  <2>4. \A g \in AllHosts : ~BeingServed(g)
    BY <2>1 DEF BeingServed, Running
  <2>5. \A g \in AllHosts : WillBeServed(g) => WillBeServed(g)'
    BY <2>1, <2>2, <2>3, <2>4 DEF WillBeServed, Unchecked
  <2> QED
    BY <1>0, <2>1, <2>5 DEF NoneForgotten, Waits, Limited, ShouldLimit, LimitRequests
\* The timer fired: what waits is served now, or when the scheduler is resumed.
<1>13. ASSUME TimerFires PROVE NoneForgotten'
  <2>1. CASE suspended
    <3>1. stack' = stack
      BY <1>13, <2>1 DEF TimerFires
    <3>2. Attaching'
      BY <1>0, <2>1, <3>1 DEF ResumesLater, Attaching
    <3> QED  BY <3>2 DEF NoneForgotten, WillBeServed
  <2>2. CASE ~suspended
    <3>1. /\ stack' # <<>> /\ Top' = Serve(NonHTTP, VeryLow)
          /\ [op |-> "snapshot"] \in ToSet(stack')
      BY <1>0, <1>13, <2>2, SweepPushed
    <3>2. BeingServed(NonHTTP)'
      BY <3>1 DEF BeingServed, Running, Serve, VeryLow, High, Priority
    <3>3. \A h \in Hosts : InSweep(h)'
      BY <3>1, HostsAssumption DEF InSweep, Sweeps
    <3> QED  BY <3>2, <3>3 DEF NoneForgotten, WillBeServed, AllHosts
  <2> QED  BY <2>1, <2>2
<1>14. ASSUME UNCHANGED vars PROVE NoneForgotten'
  <2>1. \A h \in AllHosts : /\ Waits(h)' = Waits(h) /\ Limited(h)' = Limited(h)
                            /\ WillBeServed(h)' = WillBeServed(h)
    BY <1>14 DEF vars, Waits, Limited, ShouldLimit, LimitRequests, WillBeServed, Attaching,
       Unchecked, BeingServed, Running, Top, InSweep, Sweeps
  <2> QED  BY <1>0, <2>1 DEF NoneForgotten
<1> QED
  BY <1>1, <1>2, <1>3, <1>4, <1>5, <1>6, <1>7, <1>8, <1>9, <1>10, <1>11, <1>12, <1>13, <1>14
  DEF Next, Callers, Network, Scheduler

\* A load that waits at a host with a free slot is never stranded: the timer is set or
\* a load in flight will set it, although serving stops at limits and at suspensions, and
\* redirects and the end of parsing free slots without serving anybody.
THEOREM NoWakeupIsLost ==
    "null" \notin InitialSend => (Spec => []NoLostWakeup)
<1> SUFFICES ASSUME "null" \notin InitialSend
             PROVE  Spec => []NoLostWakeup
  OBVIOUS
<1>1. Init => WakeupInv
  BY OrderInit DEF Init, WakeupInv, ResumesLater, NoneForgotten, Waits
<1>2. WakeupInv /\ [Next]_vars => WakeupInv'
  BY QueueStep, CallsStep, ResumesLaterStep, NoneForgottenStep DEF WakeupInv, OrderInv
<1>3. WakeupInv => NoLostWakeup
  <2> SUFFICES ASSUME WakeupInv, stack = <<>>, NEW h \in AllHosts, Waits(h), ~Limited(h)
               PROVE  timer \/ (h = NonHTTP /\ loading[h] # {}) \/ Unchecked
    BY DEF NoLostWakeup, Waits, Limited, Unchecked
  <2>1. ToSet(stack) = {}
    BY DEF ToSet
  <2>2. ~Attaching /\ ~InSweep(h) /\ ~BeingServed(h)
    BY <2>1 DEF Attaching, InSweep, BeingServed, Running
  <2> QED  BY <2>2 DEF WakeupInv, NoneForgotten, WillBeServed
<1> QED  BY <1>1, <1>2, <1>3, PTL DEF Spec

(***************************************************************************)
(* Hosts that are served, when no client spins an event loop of its own.   *)
(* An embedder may then clear requests too, so that a client is called     *)
(* while a host is being served, but the sweep it is served by is the      *)
(* first call of all, and is on top when it drops a host.                  *)
(***************************************************************************)
SweepOps == {"snapshot", "sweep"}

SweepsLast(s) == \A i \in DOMAIN s : s[i].op \in SweepOps => i = Len(s)

\* A call refers to hosts on this map only.
OnMap(map, f) ==
    /\ f.op = "serve" => f.host = NonHTTP \/ f.host \in map
    /\ f.op = "sweep" => f.todo \subseteq map

Sound(map, s) == s \in Seq(Frame) /\ SweepsLast(s) /\ \A f \in ToSet(s) : OnMap(map, f)

ServedInv == TypeOK /\ Sound(hostMap, stack)

LEMMA PushSweepsLast ==
    ASSUME NEW f \in Frame, NEW s \in Seq(Frame), SweepsLast(s), f.op \notin SweepOps \/ s = <<>>
    PROVE  SweepsLast(<<f>> \o s)
<1> DEFINE t == <<f>> \o s
<1>1. /\ Len(s) \in Nat /\ Len(t) = Len(s) + 1
      /\ DOMAIN t = 1..(Len(s) + 1) /\ DOMAIN s = 1..Len(s)
      /\ t[1] = f
      /\ \A i \in 1..(Len(s) + 1) : i # 1 => i - 1 \in 1..Len(s) /\ t[i] = s[i - 1]
  BY PushedAt
<1> HIDE DEF t
<1>2. ASSUME NEW i \in 1..(Len(s) + 1), t[i].op \in SweepOps
      PROVE  i = Len(t)
  <2>1. CASE i = 1
    <3>1. Len(s) = 0
      BY <1>1, <1>2, <2>1
    <3> QED  BY <1>1, <2>1, <3>1
  <2>2. CASE i # 1
    <3>1. i - 1 \in DOMAIN s /\ t[i] = s[i - 1]
      BY <1>1, <2>2
    <3>2. i - 1 = Len(s)
      BY <1>2, <3>1 DEF SweepsLast
    <3> QED  BY <1>1, <3>2
  <2> QED  BY <2>1, <2>2
<1>3. SweepsLast(t)
  BY <1>1, <1>2 DEF SweepsLast
<1> QED  BY <1>3 DEF t

LEMMA PopSweepsLast ==
    ASSUME NEW s \in Seq(Frame), s # <<>>, SweepsLast(s)
    PROVE  SweepsLast(Tail(s)) /\ (Head(s).op \in SweepOps => Tail(s) = <<>>)
<1> DEFINE t == Tail(s)
<1>1. /\ Len(s) \in Nat \ {0} /\ Len(t) = Len(s) - 1 /\ t \in Seq(Frame) /\ Head(s) = s[1]
      /\ \A i \in 1..(Len(s) - 1) : t[i] = s[i + 1]
  BY HeadTailProperties
<1>2. DOMAIN s = 1..Len(s) /\ DOMAIN t = 1..(Len(s) - 1)
  BY <1>1
<1> HIDE DEF t
<1>3. ASSUME NEW i \in 1..(Len(s) - 1), t[i].op \in SweepOps
      PROVE  i = Len(t)
  <2>1. i + 1 \in DOMAIN s /\ t[i] = s[i + 1]
    BY <1>1, <1>2
  <2>2. i + 1 = Len(s)
    BY <1>3, <2>1 DEF SweepsLast
  <2> QED  BY <1>1, <2>2
<1>4. SweepsLast(t)
  <2>1. \A i \in DOMAIN t : t[i].op \in SweepOps => i = Len(t)
    BY <1>2, <1>3, Zenon
  <2> QED  BY <2>1, Zenon DEF SweepsLast
<1>5. ASSUME Head(s).op \in SweepOps PROVE t = <<>>
  <2>1. 1 \in DOMAIN s
    BY <1>1, <1>2
  <2>2. 1 = Len(s)
    BY <1>1, <1>5, <2>1 DEF SweepsLast
  <2> QED  BY <1>1, <2>2, EmptySeq
<1> QED  BY <1>4, <1>5 DEF t

LEMMA SoundOnMore ==
    ASSUME NEW m, NEW n, m \subseteq n, NEW s, Sound(m, s)
    PROVE  Sound(n, s)
BY DEF Sound, OnMap

LEMMA SoundPush ==
    ASSUME NEW f \in Frame, NEW m, NEW s, Sound(m, s), OnMap(m, f), f.op \notin SweepOps \/ s = <<>>
    PROVE  Sound(m, <<f>> \o s)
<1>1. s \in Seq(Frame) /\ SweepsLast(s)
  BY DEF Sound
<1>2. /\ <<f>> \o s \in Seq(Frame) /\ SweepsLast(<<f>> \o s)
      /\ ToSet(<<f>> \o s) \subseteq {f} \cup ToSet(s)
  BY <1>1, StackPush, PushSweepsLast, PushElements
<1> QED  BY <1>2 DEF Sound

LEMMA SoundPop ==
    ASSUME NEW m, Sound(m, stack), stack # <<>>
    PROVE  /\ Sound(m, Tail(stack)) /\ OnMap(m, Top) /\ Top \in Frame
           /\ Top.op \in SweepOps => Tail(stack) = <<>>
<1>1. stack \in Seq(Frame) /\ SweepsLast(stack)
  BY DEF Sound
<1>2. /\ Tail(stack) \in Seq(Frame) /\ Top \in Frame /\ SweepsLast(Tail(stack))
      /\ Top.op \in SweepOps => Tail(stack) = <<>>
      /\ ToSet(Tail(stack)) \subseteq ToSet(stack) /\ Top \in ToSet(stack)
  BY <1>1, StackTop, PopSweepsLast, PopElements DEF Top
<1> QED  BY <1>2 DEF Sound

LEMMA ServedStep ==
    ASSUME ~NestedEventLoop, ServedInv, [Next]_vars
    PROVE  Sound(hostMap', stack')
<1> USE DEF schedulerVars, loaderVars
<1>0. TypeOK /\ Sound(hostMap, stack) /\ stack \in Seq(Frame) /\ hostMap \subseteq Hosts
  BY DEF ServedInv, TypeOK
<1>n. Sound(hostMap', <<>>)
  BY DEF Sound, SweepsLast, ToSet
\* Calls to code outside.
<1>o. \A op \in EndOps, l \in Loaders, t \in {"told", "removed"} :
         /\ End(op, l, t) \in Frame /\ OnMap(hostMap', End(op, l, t))
         /\ End(op, l, t).op \notin SweepOps
  BY FrameTypes DEF End, EndOps, OnMap, SweepOps
<1>f. \A l \in Loaders : FailStage(l) \in {"told", "removed"}
  BY DEF FailStage
<1>s. ASSUME NEW h \in AllHosts, NEW p \in Priority, h = NonHTTP \/ h \in hostMap'
      PROVE  /\ Serve(h, p) \in Frame /\ OnMap(hostMap', Serve(h, p))
             /\ Serve(h, p).op \notin SweepOps
  BY <1>s, FrameTypes DEF Serve, OnMap, SweepOps
\* The map grows.
<1>g. ASSUME hostMap \subseteq hostMap'
      PROVE  /\ Sound(hostMap', stack)
             /\ stack # <<>> => Sound(hostMap', Tail(stack)) /\ OnMap(hostMap', Top)
  BY <1>0, <1>g, SoundOnMore, SoundPop
<1>1. ASSUME NEW l \in Loaders, NEW h \in AllHosts, NEW p \in Priorities,
             NEW d \in Deferrals, ScheduleLoad(l, h, p, d)
      PROVE  Sound(hostMap', stack')
  <2>1. hostMap' = hostMap \cup ({h} \ {NonHTTP}) /\ p \in Priority
    BY <1>1, PrioritiesAssumption DEF ScheduleLoad, WithHost
  <2>2. stack' = stack \/ stack' = <<Serve(h, p)>> \o stack
    BY <1>1 DEF ScheduleLoad, Push
  <2>3. Sound(hostMap', stack)
    BY <1>g, <2>1
  <2>4. /\ Serve(h, p) \in Frame /\ OnMap(hostMap', Serve(h, p))
        /\ Serve(h, p).op \notin SweepOps
    BY <1>s, <2>1
  <2> QED  BY <2>2, <2>3, <2>4, SoundPush
<1>2. ASSUME \/ \E l \in Loaders, h \in AllHosts : AddMainResourceLoad(l, h) \/ Redirect(l, h)
             \/ \E b \in BOOLEAN : SetParsing(b)
             \/ UNCHANGED vars
      PROVE  Sound(hostMap', stack')
  <2>1. hostMap \subseteq hostMap' /\ stack' = stack
    BY <1>2 DEF AddMainResourceLoad, Redirect, SetParsing, WithHost, vars
  <2> QED  BY <1>g, <2>1
<1>3. ASSUME NEW l \in Loaders, NEW b \in Deferrals, SetDefersLoading(l, b)
      PROVE  Sound(hostMap', stack')
  <2>1. hostMap' = hostMap
    BY <1>3 DEF SetDefersLoading
  <2>2. stack' = stack \/ stack' = <<End("didFail", l, FailStage(l))>> \o stack
    BY <1>3 DEF SetDefersLoading, Start
  <2>3. "didFail" \in EndOps
    BY DEF EndOps
  <2>4. Sound(hostMap', stack)
    BY <1>g, <2>1
  <2> QED  BY <1>f, <1>o, <2>2, <2>3, <2>4, SoundPush
<1>4. CASE ServeStart
  <2>1. PICK p \in Waiting(Top) :
            Start(Head(pending[Top.host][p]), defers[Head(pending[Top.host][p])],
                  <<[Top EXCEPT !.prio = p]>> \o Tail(stack))
    BY <1>4 DEF ServeStart
  <2> DEFINE l == Head(pending[Top.host][p])
  <2> DEFINE f == [Top EXCEPT !.prio = p]
             rest == <<f>> \o Tail(stack)
  <2>2. hostMap' = hostMap /\ stack # <<>> /\ Top \in ServeFrame
    BY <1>0, <1>4, ServeTop DEF ServeStart, Running
  <2>3. p \in Priority /\ Top.host \in AllHosts /\ pending[Top.host][p] # <<>>
    BY <2>2 DEF Waiting, ServeFrame, Priority, VeryLow, High
  <2>4. l \in Loaders
    <3>1. pending[Top.host][p] \in Seq(Loaders)
      BY <1>0, <2>3 DEF TypeOK
    <3> QED  BY <2>3, <3>1, HeadTailProperties
  <2>s. Start(l, defers[l], rest)
    BY <2>1
  <2> HIDE DEF l
  <2>5. Sound(hostMap', Tail(stack)) /\ OnMap(hostMap', Top)
    BY <1>g, <2>2
  <2>6. f \in Frame /\ OnMap(hostMap', f) /\ f.op \notin SweepOps
    <3>1. f \in ServeFrame /\ f.op = "serve" /\ f.host = Top.host
      BY <2>2, <2>3 DEF ServeFrame
    <3>2. Top.op = "serve"
      BY <2>2 DEF ServeFrame
    <3> HIDE DEF f
    <3> QED  BY <2>5, <3>1, <3>2 DEF Frame, OnMap, SweepOps
  <2> HIDE DEF f
  <2>7. Sound(hostMap', rest)
    BY <2>5, <2>6, SoundPush
  <2>8. stack' = rest \/ stack' = <<End("didFail", l, FailStage(l))>> \o rest
    BY <2>s DEF Start
  <2> HIDE DEF rest
  <2>9. "didFail" \in EndOps
    BY DEF EndOps
  <2> QED  BY <1>f, <1>o, <2>4, <2>7, <2>8, <2>9, SoundPush
<1>5. CASE ServeReturn \/ SweepReturn \/ ResumePendingRequests
  <2>1. hostMap' = hostMap /\ stack # <<>> /\ stack' = Tail(stack)
    BY <1>5 DEF ServeReturn, SweepReturn, ResumePendingRequests, Running, Pop
  <2> QED  BY <1>g, <2>1
<1>6. CASE SnapshotHosts
  <2> DEFINE f == [op |-> "sweep", todo |-> hostMap]
  <2>1. hostMap' = hostMap /\ stack # <<>> /\ Top.op \in SweepOps /\ stack' = <<f>> \o Tail(stack)
    BY <1>6 DEF SnapshotHosts, Running, SweepOps
  <2>2. Tail(stack) = <<>>
    BY <1>0, <2>1, SoundPop
  <2>3. f \in Frame /\ OnMap(hostMap', f)
    BY <1>0, <2>1, FrameTypes DEF OnMap
  <2> HIDE DEF f
  <2> QED  BY <1>n, <2>1, <2>2, <2>3, SoundPush
<1>7. ASSUME NEW h \in Hosts, SweepHost(h)
      PROVE  Sound(hostMap', stack')
  <2> DEFINE f == [Top EXCEPT !.todo = @ \ {h}]
             rest == <<f>> \o Tail(stack)
  <2>1. stack # <<>> /\ Top \in SweepFrame /\ Top.op = "sweep" /\ Top.op \in SweepOps
        /\ h \in Top.todo
    BY <1>0, <1>7, SweepTop DEF SweepHost, Running, SweepOps
  <2>2. Tail(stack) = <<>> /\ Top.todo \subseteq hostMap
    BY <1>0, <2>1, SoundPop DEF OnMap
  <2>3. f \in Frame /\ f.op = "sweep" /\ f.todo = Top.todo \ {h}
    BY <2>1 DEF SweepFrame, Frame
  <2>4. \/ stack' = rest /\ hostMap' = hostMap \ {h}
        \/ stack' = <<Serve(h, VeryLow)>> \o rest /\ hostMap' = hostMap
    BY <1>7 DEF SweepHost
  <2> HIDE DEF f
  <2>5. OnMap(hostMap', f)
    BY <2>2, <2>3, <2>4 DEF OnMap
  <2>6. Sound(hostMap', rest)
    BY <1>n, <2>2, <2>3, <2>5, SoundPush
  <2> HIDE DEF rest
  <2>7. CASE stack' = rest
    BY <2>6, <2>7
  <2>8. CASE stack' = <<Serve(h, VeryLow)>> \o rest /\ hostMap' = hostMap
    <3>1. h \in AllHosts /\ VeryLow \in Priority /\ h \in hostMap'
      BY <2>1, <2>2, <2>8 DEF AllHosts, VeryLow, High, Priority
    <3> QED  BY <1>s, <2>6, <2>8, <3>1, SoundPush
  <2> QED  BY <2>4, <2>7, <2>8
<1>8. CASE TimerFires
  <2>1. hostMap' = hostMap /\ stack = <<>>
    BY <1>8 DEF TimerFires, TimersRun
  <2>2. stack' = stack \/ stack' = <<Serve(NonHTTP, VeryLow), [op |-> "snapshot"]>> \o stack
    BY <1>8 DEF TimerFires
  <2>3. CASE stack' = <<Serve(NonHTTP, VeryLow), [op |-> "snapshot"]>> \o stack
    <3> DEFINE f == [op |-> "snapshot"]
               v == Serve(NonHTTP, VeryLow)
               rest == <<f>> \o stack
    <3>1. f \in Frame /\ OnMap(hostMap', f)
      BY FrameTypes DEF OnMap
    <3>2. NonHTTP \in AllHosts /\ VeryLow \in Priority
      BY DEF AllHosts, VeryLow, High, Priority
    <3>3. v \in Frame /\ OnMap(hostMap', v) /\ v.op \notin SweepOps
      BY <1>s, <3>2
    <3> HIDE DEF f, v
    <3>4. stack' = <<v>> \o rest
      <4>1. <<v, f>> = <<v>> \o <<f>> /\ <<v>> \in Seq(Frame) /\ <<f>> \in Seq(Frame)
        BY <3>1, <3>3
      <4>2. (<<v>> \o <<f>>) \o stack = <<v>> \o (<<f>> \o stack)
        BY <1>0, <4>1, ConcatAssociative
      <4> QED  BY <2>3, <4>1, <4>2 DEF v, f
    <3>5. Sound(hostMap', rest)
      BY <1>n, <2>1, <3>1, SoundPush
    <3> HIDE DEF rest
    <3> QED  BY <3>3, <3>4, <3>5, SoundPush
  <2> QED  BY <1>n, <2>1, <2>2, <2>3
<1>9. ASSUME NEW l \in Loaders, DidFinishLoading(l) \/ DidFail(l) \/ Cancel(l)
      PROVE  Sound(hostMap', stack')
  <2>1. hostMap' = hostMap /\ \E op \in EndOps, t \in {"told", "removed"} :
                                 stack' = <<End(op, l, t)>> \o stack
    BY <1>9 DEF DidFinishLoading, DidFail, Cancel, EndOps, FailStage, Push
  <2>2. Sound(hostMap', stack)
    BY <1>g, <2>1
  <2> QED  BY <1>o, <2>1, <2>2, SoundPush
<1>10. CASE SuspendPendingRequests
  <2> DEFINE f == [op |-> "attach"]
  <2>1. hostMap' = hostMap /\ stack' = <<f>> \o stack
    BY <1>10 DEF SuspendPendingRequests, Push
  <2>2. f \in Frame /\ OnMap(hostMap', f) /\ f.op \notin SweepOps
    BY FrameTypes DEF OnMap, SweepOps
  <2>3. Sound(hostMap', stack)
    BY <1>g, <2>1
  <2> HIDE DEF f
  <2> QED  BY <2>1, <2>2, <2>3, SoundPush
<1>11. ASSUME NEW l \in Loaders, Ending(l)
       PROVE  Sound(hostMap', stack')
  <2>1. PICK op \in EndOps :
            /\ stack # <<>> /\ hostMap' = hostMap
            /\ stack' = Tail(stack) \/ stack' = <<End(op, l, "removed")>> \o Tail(stack)
    BY <1>11
    DEF Ending, EndReturnsEarly, LeaveDocumentLoader, ReleaseResources, Running, Pop
  <2>2. Sound(hostMap', Tail(stack))
    BY <1>g, <2>1
  <2> QED  BY <1>o, <2>1, <2>2, SoundPush
<1> QED
  BY <1>1, <1>2, <1>3, <1>4, <1>5, <1>6, <1>7, <1>8, <1>9, <1>10, <1>11
  DEF Next, Callers, Network, Scheduler

\* The sweep's pointers do not dangle either when the embedder clears requests, so that
\* clients are called while a host is served, if none of them runs the timers.
THEOREM ServedHostsStayUnnested == ~NestedEventLoop => (Spec => []ServedHostsExist)
<1> SUFFICES ASSUME ~NestedEventLoop
             PROVE  Spec => []ServedHostsExist
  OBVIOUS
<1>1. Init => ServedInv
  BY InitTypes DEF Init, ServedInv, Sound, SweepsLast, ToSet
<1>2. ServedInv /\ [Next]_vars => ServedInv'
  BY TypeStep, ServedStep DEF ServedInv
<1>3. ServedInv => ServedHostsExist
  <2> SUFFICES ASSUME ServedInv, NEW i \in DOMAIN stack
               PROVE  /\ stack[i].op = "serve" => Known(stack[i].host)
                      /\ stack[i].op = "sweep" => stack[i].todo \subseteq hostMap
    BY DEF ServedHostsExist
  <2>1. stack[i] \in ToSet(stack)
    BY DEF ToSet
  <2> QED  BY <2>1 DEF ServedInv, Sound, OnMap, Known
<1> QED  BY <1>1, <1>2, <1>3, PTL DEF Spec

=============================================================================
