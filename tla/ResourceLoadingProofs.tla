------------------------ MODULE ResourceLoadingProofs ------------------------
(***************************************************************************)
(* Proofs about ResourceLoading for any loaders, hosts, limits and clients. *)
(***************************************************************************)
EXTENDS ResourceLoading, SequenceTheorems, FiniteSetTheorems, TLAPS

(***************************************************************************)
(* Removing a loader from a queue keeps the others, in their order.        *)
(***************************************************************************)
LEMMA DequeuedProperties ==
    ASSUME NEW q \in Seq(Loaders), NEW l \in ToSet(q)
    PROVE  \E i \in 1..Len(q) :
              /\ q[i] = l
              /\ Dequeued(q, l) \in Seq(Loaders)
              /\ Len(Dequeued(q, l)) = Len(q) - 1
              /\ \A j \in 1..(Len(q) - 1) :
                    Dequeued(q, l)[j] = IF j < i THEN q[j] ELSE q[j + 1]
<1>1. PICK i \in 1..Len(q) : i = CHOOSE k \in DOMAIN q : q[k] = l
  BY DEF ToSet
<1>2. q[i] = l
  BY <1>1 DEF ToSet
<1>3. Dequeued(q, l) = SubSeq(q, 1, i-1) \o SubSeq(q, i+1, Len(q))
  BY <1>1 DEF Dequeued, RemoveAt
<1> DEFINE a == SubSeq(q, 1, i-1)
           b == SubSeq(q, i+1, Len(q))
<1>4. a \in Seq(Loaders) /\ Len(a) = i-1 /\ \A j \in 1..(i-1) : a[j] = q[j]
  OBVIOUS
<1>5. /\ b \in Seq(Loaders)
      /\ Len(b) = Len(q) - i
      /\ \A j \in 1..(Len(q) - i) : b[j] = q[i+j]
  OBVIOUS
<1>a. Len(q) \in Nat
  OBVIOUS
<1> HIDE DEF a, b
<1>6. /\ a \o b \in Seq(Loaders)
      /\ Len(a \o b) = Len(a) + Len(b)
      /\ \A j \in 1..(Len(a) + Len(b)) :
            (a \o b)[j] = IF j <= Len(a) THEN a[j] ELSE b[j - Len(a)]
  BY <1>4, <1>5, ConcatProperties
<1>7. ASSUME NEW j \in 1..(Len(q) - 1)
      PROVE  (a \o b)[j] = IF j < i THEN q[j] ELSE q[j + 1]
  <2>1. CASE j < i
    BY <1>4, <1>5, <1>6, <1>a, <2>1
  <2>2. CASE ~(j < i)
    <3>1. j - Len(a) \in 1..(Len(q) - i) /\ i + (j - Len(a)) = j + 1
      BY <1>4, <1>a, <2>2
    <3>2. (a \o b)[j] = b[j - Len(a)]
      BY <1>4, <1>5, <1>6, <1>a, <2>2
    <3> QED  BY <1>5, <3>1, <3>2, <2>2
  <2> QED  BY <2>1, <2>2
<1>8. Dequeued(q, l) = a \o b
  BY <1>3 DEF a, b
<1>9. Len(a \o b) = Len(q) - 1
  BY <1>4, <1>5, <1>6, <1>a
<1> QED  BY <1>2, <1>6, <1>7, <1>8, <1>9

(***************************************************************************)
(* If no loader is queued twice, the loader removed is gone.               *)
(***************************************************************************)
LEMMA DequeuedElements ==
    ASSUME NEW q \in Seq(Loaders), IsInjective(q), NEW l \in ToSet(q)
    PROVE  /\ Dequeued(q, l) \in Seq(Loaders)
           /\ ToSet(Dequeued(q, l)) = ToSet(q) \ {l}
           /\ IsInjective(Dequeued(q, l))
<1> DEFINE d == Dequeued(q, l)
<1>1. PICK i \in 1..Len(q) :
          /\ q[i] = l
          /\ d \in Seq(Loaders)
          /\ Len(d) = Len(q) - 1
          /\ \A j \in 1..(Len(q) - 1) : d[j] = IF j < i THEN q[j] ELSE q[j + 1]
  BY DequeuedProperties
<1> HIDE DEF d
<1>2. DOMAIN q = 1..Len(q) /\ DOMAIN d = 1..(Len(q) - 1) /\ Len(q) \in Nat
  BY <1>1
<1>3. \A j, k \in 1..(Len(q) - 1) : d[j] = d[k] => j = k
  BY SMTT(60), <1>1, <1>2 DEF IsInjective
<1>4. ASSUME NEW j \in 1..(Len(q) - 1)
      PROVE  d[j] \in ToSet(q) \ {l}
  BY SMTT(60), <1>1, <1>2 DEF ToSet, IsInjective
<1>5. ASSUME NEW k \in 1..Len(q), q[k] # l
      PROVE  \E j \in 1..(Len(q) - 1) : d[j] = q[k]
  <2>1. CASE k < i
    BY <1>1, <1>2, <2>1
  <2>2. CASE k > i
    <3>1. k - 1 \in 1..(Len(q) - 1) /\ ~(k - 1 < i) /\ (k - 1) + 1 = k
      BY <1>2, <2>2
    <3> QED  BY <1>1, <3>1
  <2> QED  BY <1>1, <1>2, <1>5, <2>1, <2>2
<1>6. ToSet(d) \subseteq ToSet(q) \ {l}
  BY <1>2, <1>4 DEF ToSet
<1>7. ToSet(q) \ {l} \subseteq ToSet(d)
  BY <1>2, <1>5 DEF ToSet
<1>8. IsInjective(d)
  BY <1>2, <1>3 DEF IsInjective
<1> QED  BY <1>1, <1>6, <1>7, <1>8 DEF d

(***************************************************************************)
(* The call stack.                                                         *)
(***************************************************************************)
LEMMA StackTop ==
    ASSUME stack \in Seq(Frame), stack # <<>>
    PROVE  Top \in Frame /\ Tail(stack) \in Seq(Frame)
BY HeadTailProperties DEF Top

LEMMA StackPush ==
    ASSUME NEW s \in Seq(Frame), NEW f \in Frame
    PROVE  <<f>> \o s \in Seq(Frame)
<1>1. <<f>> \in Seq(Frame)
  OBVIOUS
<1> QED  BY <1>1, ConcatProperties

LEMMA ServeTop ==
    ASSUME stack \in Seq(Frame), Running("serve")
    PROVE  Top \in ServeFrame
BY StackTop DEF Running, Frame, SnapshotFrame, SweepFrame, EndFrame, AttachFrame,
    EndOps, ServeFrame

LEMMA SweepTop ==
    ASSUME stack \in Seq(Frame), Running("sweep")
    PROVE  Top \in SweepFrame
BY StackTop DEF Running, Frame, SnapshotFrame, SweepFrame, EndFrame, AttachFrame,
    EndOps, ServeFrame

LEMMA FrameTypes ==
    /\ \A h \in AllHosts, p \in Priority : Serve(h, p) \in Frame
    /\ \A op \in EndOps, l \in Loaders, s \in {"told", "removed"} : End(op, l, s) \in Frame
    /\ [op |-> "snapshot"] \in Frame
    /\ [op |-> "attach"] \in Frame
    /\ \A t \in SUBSET Hosts : [op |-> "sweep", todo |-> t] \in Frame
BY DEF Serve, End, Frame, ServeFrame, SnapshotFrame, SweepFrame, EndFrame,
    AttachFrame, High, Low, VeryLow, Priority

(***************************************************************************)
(* Types.                                                                  *)
(***************************************************************************)
LEMMA RemoveTypes ==
    ASSUME TypeOK, NEW h \in AllHosts, NEW l \in Loaders, RemoveFromHost(h, l)
    PROVE  /\ pending' \in [AllHosts -> [Priority -> Seq(Loaders)]]
           /\ loading' \in [AllHosts -> SUBSET Loaders]
<1>1. \A p \in Priority : l \in ToSet(pending[h][p]) =>
          Dequeued(pending[h][p], l) \in Seq(Loaders)
  BY DequeuedProperties DEF TypeOK
<1> DEFINE left == [p \in Priority |-> IF l \in ToSet(pending[h][p])
                                      THEN Dequeued(pending[h][p], l)
                                      ELSE pending[h][p]]
<1>2. left \in [Priority -> Seq(Loaders)]
  BY <1>1 DEF TypeOK
<1>3. \/ pending' = pending
      \/ pending' = [pending EXCEPT ![h] = left]
  BY DEF RemoveFromHost
<1>4. pending' \in [AllHosts -> [Priority -> Seq(Loaders)]]
  <2> HIDE DEF left
  <2> QED  BY <1>2, <1>3 DEF TypeOK
<1>5. loading' \in [AllHosts -> SUBSET Loaders]
  <2> HIDE DEF left
  <2>1. loading \in [AllHosts -> SUBSET Loaders]
    BY DEF TypeOK
  <2>2. loading' = loading \/ loading' = [loading EXCEPT ![h] = @ \ {l}]
    BY ZenonT(30) DEF RemoveFromHost
  <2> QED  BY ONLY <2>1, <2>2
<1> QED  BY <1>4, <1>5

LEMMA StartTypes ==
    ASSUME TypeOK, NEW l \in Loaders, NEW d, NEW below \in Seq(Frame), Start(l, d, below)
    PROVE  /\ url' \in [Loaders -> AllHosts]
           /\ phase' \in [Loaders -> Phases]
           /\ stack' \in Seq(Frame)
<1>1. FailStage(l) \in {"told", "removed"} /\ "didFail" \in EndOps
  BY DEF FailStage, EndOps
<1>2. <<End("didFail", l, FailStage(l))>> \o below \in Seq(Frame)
  BY <1>1, FrameTypes, StackPush
<1> QED  BY <1>2 DEF Start, SendAs, TypeOK, AllHosts, Phases, Active

LEMMA TypeStep == TypeOK /\ [Next]_vars => TypeOK'
<1> SUFFICES ASSUME TypeOK, [Next]_vars PROVE TypeOK'
  OBVIOUS
<1> USE DEF schedulerVars, loaderVars
<1>1. ASSUME NEW l \in Loaders, NEW h \in AllHosts, NEW p \in Priorities,
             NEW d \in Deferrals, ScheduleLoad(l, h, p, d)
      PROVE  TypeOK'
  <2>1. p \in Priority /\ d \in BOOLEAN
    BY PrioritiesAssumption, DeferralsAssumption
  <2>2. pending' \in [AllHosts -> [Priority -> Seq(Loaders)]]
    BY <1>1, <2>1, AppendProperties DEF ScheduleLoad, TypeOK
  <2>3. stack' \in Seq(Frame)
    BY <1>1, <2>1, FrameTypes, StackPush DEF ScheduleLoad, TypeOK, Push
  <2>4. hostMap' \subseteq Hosts /\ timer' \in BOOLEAN
    BY <1>1 DEF ScheduleLoad, TypeOK, WithHost, AllHosts
  <2> QED  BY <1>1, <2>1, <2>2, <2>3, <2>4 DEF ScheduleLoad, TypeOK, Phases, Active
<1>2. ASSUME NEW l \in Loaders, NEW h \in AllHosts, AddMainResourceLoad(l, h)
      PROVE  TypeOK'
  BY <1>2 DEF AddMainResourceLoad, TypeOK, WithHost, AllHosts, Phases, Active
<1>3. ASSUME NEW l \in Loaders, NEW h \in AllHosts, Redirect(l, h)
      PROVE  TypeOK'
  BY SMTT(60), <1>3 DEF Redirect, TypeOK, WithHost, AllHosts
<1>4. CASE SuspendPendingRequests
  BY <1>4, FrameTypes, StackPush DEF SuspendPendingRequests, TypeOK, Push
<1>5. CASE ResumePendingRequests
  BY <1>5, StackTop DEF ResumePendingRequests, TypeOK, Pop, Running, HasRequests
<1>6. ASSUME NEW b \in BOOLEAN, SetParsing(b)
      PROVE  TypeOK'
  BY <1>6 DEF SetParsing, TypeOK
<1>7. CASE ServeStart
  <2>1. PICK p \in Waiting(Top) :
          LET h == Top.host
              l == Head(pending[h][p])
          IN /\ pending' = [pending EXCEPT ![h][p] = Tail(@)]
             /\ loading' = [loading EXCEPT ![h] = @ \cup {l}]
             /\ admitted' = IF ShouldLimit(h) THEN admitted \cup {l} ELSE admitted
             /\ Start(l, defers[l], <<[Top EXCEPT !.prio = p]>> \o Tail(stack))
    BY <1>7 DEF ServeStart
  <2>2. Top \in ServeFrame /\ Tail(stack) \in Seq(Frame)
    BY <1>7, ServeTop, StackTop DEF ServeStart, TypeOK, Running
  <2>3. p \in Priority /\ pending[Top.host][p] # <<>> /\ Top.host \in AllHosts
    BY <2>1, <2>2 DEF Waiting, ServeFrame, Priority, VeryLow, High
  <2>4. pending[Top.host][p] \in Seq(Loaders)
    BY <2>3 DEF TypeOK
  <2>5. Head(pending[Top.host][p]) \in Loaders /\ Tail(pending[Top.host][p]) \in Seq(Loaders)
    BY <2>3, <2>4, HeadTailProperties
  <2>6. [Top EXCEPT !.prio = p] \in Frame
    BY <2>2, <2>3 DEF ServeFrame, Frame
  <2>7. <<[Top EXCEPT !.prio = p]>> \o Tail(stack) \in Seq(Frame)
    BY <2>2, <2>6, StackPush
  <2>8. /\ url' \in [Loaders -> AllHosts]
        /\ phase' \in [Loaders -> Phases]
        /\ stack' \in Seq(Frame)
    BY <2>1, <2>5, <2>7, StartTypes
  <2>9. pending' \in [AllHosts -> [Priority -> Seq(Loaders)]]
    BY <2>1, <2>3, <2>5 DEF TypeOK
  <2>10. loading' \in [AllHosts -> SUBSET Loaders] /\ admitted' \subseteq Loaders
    BY <2>1, <2>3, <2>5 DEF TypeOK
  <2> QED  BY <1>7, <2>8, <2>9, <2>10 DEF ServeStart, TypeOK
<1>8. CASE ServeReturn
  BY <1>8, StackTop DEF ServeReturn, TypeOK, Pop, Running
<1>9. CASE TimerFires
  <2>1. stack' \in Seq(Frame)
    <3>1. Serve(NonHTTP, VeryLow) \in Frame /\ [op |-> "snapshot"] \in Frame
      BY FrameTypes DEF AllHosts, Priority, VeryLow, High
    <3>2. <<Serve(NonHTTP, VeryLow), [op |-> "snapshot"]>> \in Seq(Frame)
      BY <3>1
    <3>3. <<Serve(NonHTTP, VeryLow), [op |-> "snapshot"]>> \o stack \in Seq(Frame)
      BY <3>2, ConcatProperties DEF TypeOK
    <3> QED  BY <1>9, <3>3 DEF TimerFires, TypeOK
  <2> QED  BY <1>9, <2>1 DEF TimerFires, TypeOK
<1>10. CASE SnapshotHosts
  <2>1. Tail(stack) \in Seq(Frame)
    BY <1>10, StackTop DEF SnapshotHosts, Running, TypeOK
  <2> QED  BY <1>10, <2>1, StackPush, FrameTypes DEF SnapshotHosts, TypeOK
<1>11. ASSUME NEW h \in Hosts, SweepHost(h)
       PROVE  TypeOK'
  <2>1. Top \in SweepFrame /\ Tail(stack) \in Seq(Frame)
    BY <1>11, SweepTop, StackTop DEF SweepHost, TypeOK, Running
  <2>2. [Top EXCEPT !.todo = @ \ {h}] \in Frame
    BY <2>1 DEF SweepFrame, Frame
  <2>3. Serve(h, VeryLow) \in Frame
    BY FrameTypes DEF AllHosts, Priority, VeryLow, High
  <2>4. stack' \in Seq(Frame)
    BY <1>11, <2>1, <2>2, <2>3, StackPush DEF SweepHost
  <2> QED  BY <1>11, <2>4 DEF SweepHost, TypeOK
<1>12. CASE SweepReturn
  BY <1>12, StackTop DEF SweepReturn, TypeOK, Pop, Running
<1>13. ASSUME NEW l \in Loaders, DidFinishLoading(l) \/ DidFail(l) \/ Cancel(l)
       PROVE  TypeOK'
  <2>1. FailStage(l) \in {"told", "removed"} /\ "told" \in {"told", "removed"}
    BY DEF FailStage
  <2>2. stack' \in Seq(Frame)
    BY <1>13, <2>1, FrameTypes, StackPush
       DEF DidFinishLoading, DidFail, Cancel, TypeOK, Push, EndOps
  <2> QED  BY <1>13, <2>2 DEF DidFinishLoading, DidFail, Cancel, TypeOK
<1>14. ASSUME NEW l \in Loaders, EndReturnsEarly(l)
       PROVE  TypeOK'
  BY <1>14, StackTop DEF EndReturnsEarly, TypeOK, Pop, Running
<1>15. ASSUME NEW l \in Loaders, LeaveDocumentLoader(l)
       PROVE  TypeOK'
  <2>1. Tail(stack) \in Seq(Frame)
    BY <1>15, StackTop DEF LeaveDocumentLoader, Running, TypeOK
  <2>2. stack' \in Seq(Frame)
    BY <1>15, <2>1, FrameTypes, StackPush DEF LeaveDocumentLoader
  <2> QED  BY <1>15, <2>2 DEF LeaveDocumentLoader, TypeOK
<1>16. ASSUME NEW l \in Loaders, ReleaseResources(l)
       PROVE  TypeOK'
  <2>1. url[l] \in AllHosts
    BY DEF TypeOK
  <2>2. /\ pending' \in [AllHosts -> [Priority -> Seq(Loaders)]]
        /\ loading' \in [AllHosts -> SUBSET Loaders]
    BY <1>16, <2>1, RemoveTypes DEF ReleaseResources
  <2>3. stack' \in Seq(Frame)
    BY <1>16, StackTop DEF ReleaseResources, TypeOK, Pop, Running
  <2>4. phase' \in [Loaders -> Phases]
    BY <1>16 DEF ReleaseResources, TypeOK, Phases, Terminal
  <2> QED  BY <1>16, <2>2, <2>3, <2>4 DEF ReleaseResources, TypeOK, AllHosts
<1>17. ASSUME NEW l \in Loaders, NEW b \in Deferrals, SetDefersLoading(l, b)
       PROVE  TypeOK'
  <2>1. b \in BOOLEAN
    BY DeferralsAssumption
  <2>2. /\ url' \in [Loaders -> AllHosts]
        /\ phase' \in [Loaders -> Phases]
        /\ stack' \in Seq(Frame)
    BY <1>17, StartTypes DEF SetDefersLoading, TypeOK
  <2> QED  BY <1>17, <2>1, <2>2 DEF SetDefersLoading, TypeOK
<1>18. CASE UNCHANGED vars
  BY <1>18 DEF vars, TypeOK
<1> QED
  BY <1>1, <1>2, <1>3, <1>4, <1>5, <1>6, <1>7, <1>8, <1>9, <1>10, <1>11, <1>12,
     <1>13, <1>14, <1>15, <1>16, <1>17, <1>18
     DEF Next, Callers, Network, Scheduler, Ending

LEMMA InitTypes == Init => TypeOK
<1> SUFFICES ASSUME Init PROVE TypeOK
  OBVIOUS
<1>1. stack \in Seq(Frame)
  BY DEF Init
<1>2. pending \in [AllHosts -> [Priority -> Seq(Loaders)]]
  BY DEF Init
<1> QED  BY <1>1, <1>2 DEF Init, TypeOK, AllHosts, Phases

\* The state keeps its type.
THEOREM TypeCorrect == Spec => []TypeOK
BY InitTypes, TypeStep, PTL DEF Spec

(***************************************************************************)
(* Every load is where the scheduler looks for it, whenever the embedder   *)
(* leaves the requests alone.  That remove finds the host of a load rests  *)
(* on hosts being dropped only when they are idle.                         *)
(***************************************************************************)
LEMMA AppendElements ==
    ASSUME NEW q \in Seq(Loaders), IsInjective(q), NEW l \in Loaders, l \notin ToSet(q)
    PROVE  /\ ToSet(Append(q, l)) = ToSet(q) \cup {l}
           /\ IsInjective(Append(q, l))
<1> DEFINE a == Append(q, l)
<1>1. /\ DOMAIN a = 1..(Len(q) + 1)
      /\ \A i \in 1..Len(q) : a[i] = q[i]
      /\ a[Len(q) + 1] = l
      /\ DOMAIN q = 1..Len(q)
      /\ Len(q) \in Nat
  BY AppendProperties
<1> HIDE DEF a
<1>2. ToSet(a) = ToSet(q) \cup {l}
  BY <1>1 DEF ToSet
<1>3. IsInjective(a)
  BY <1>1 DEF IsInjective, ToSet
<1> QED  BY <1>2, <1>3 DEF a

LEMMA TailElements ==
    ASSUME NEW q \in Seq(Loaders), IsInjective(q), q # <<>>
    PROVE  /\ Head(q) \in ToSet(q)
           /\ ToSet(Tail(q)) = ToSet(q) \ {Head(q)}
           /\ IsInjective(Tail(q))
<1> DEFINE t == Tail(q)
<1>1. /\ t \in Seq(Loaders)
      /\ Len(t) = Len(q) - 1
      /\ \A i \in 1..(Len(q) - 1) : t[i] = q[i + 1]
      /\ Len(q) \in Nat \ {0}
      /\ Head(q) = q[1]
  BY HeadTailProperties, EmptySeq
<1> HIDE DEF t
<1>2. DOMAIN q = 1..Len(q) /\ DOMAIN t = 1..(Len(q) - 1)
  BY <1>1
<1>3. Head(q) \in ToSet(q)
  BY <1>1, <1>2 DEF ToSet
<1>4. ToSet(t) \subseteq ToSet(q) \ {Head(q)}
  BY <1>1, <1>2 DEF ToSet, IsInjective
<1>5. ASSUME NEW i \in 1..Len(q), q[i] # Head(q)
      PROVE  q[i] \in ToSet(t)
  <2>1. i - 1 \in 1..(Len(q) - 1) /\ (i - 1) + 1 = i
    BY <1>1, <1>5
  <2> QED  BY <1>1, <1>2, <2>1 DEF ToSet
<1>6. IsInjective(t)
  BY <1>1, <1>2 DEF IsInjective
<1>7. ToSet(q) \ {Head(q)} \subseteq ToSet(t)
  BY <1>2, <1>5 DEF ToSet
<1> QED  BY <1>3, <1>4, <1>6, <1>7 DEF t

LEMMA EmptyQueue ==
    ASSUME NEW q \in Seq(Loaders)
    PROVE  q = <<>> <=> ToSet(q) = {}
<1>1. DOMAIN q = 1..Len(q) /\ Len(q) \in Nat /\ (q = <<>> <=> Len(q) = 0)
  BY EmptySeq
<1>2. ToSet(q) = {} <=> DOMAIN q = {}
  BY DEF ToSet
<1>3. CASE Len(q) = 0
  BY <1>1, <1>2, <1>3
<1>4. CASE Len(q) # 0
  <2>1. 1 \in 1..Len(q)
    BY <1>1, <1>4
  <2> QED  BY <1>1, <1>2, <1>4, <2>1
<1> QED  BY <1>3, <1>4

\* A load that has a slot, its own or one it left behind, has started.
SlotsStarted == \A h \in AllHosts : \A l \in loading[h] : phase[l] \notin {"new", "pending"}

QueueInv == TypeOK /\ QueuedOnce /\ SlotsStarted /\ DroppedHostsAreIdle

SlotInv == TypeOK /\ SlotOwnership /\ DroppedHostsAreIdle

LEMMA SlotInvImpliesQueueInv == SlotInv => QueueInv
<1> SUFFICES ASSUME SlotInv PROVE SlotsStarted
  BY DEF SlotInv, SlotOwnership, QueueInv
<1>1. \A h \in AllHosts : loading[h] \subseteq Loaders
  BY DEF SlotInv, TypeOK
<1> QED  BY <1>1 DEF SlotInv, SlotOwnership, SlotsHeld, SlotsStarted

LEMMA NoRequests ==
    ASSUME TypeOK, DroppedHostsAreIdle, NEW h \in AllHosts, ~Known(h)
    PROVE  loading[h] = {} /\ \A p \in Priority : pending[h][p] = <<>> /\ ToSet(pending[h][p]) = {}
<1>1. loading[h] = {} /\ \A p \in Priority : pending[h][p] = <<>>
  BY DEF DroppedHostsAreIdle, Known, AllHosts
<1> QED  BY <1>1, EmptyQueue DEF TypeOK

\* remove takes a load that waits out of its queue. Of the loads in flight it takes this
\* one at most, from the host of its URL.
LEMMA RemoveQueues ==
    ASSUME QueueInv, NEW l \in Loaders, RemoveFromHost(url[l], l)
    PROVE  \A h \in AllHosts :
              /\ loading'[h] = IF h = url[l] THEN loading[h] \ {l} ELSE loading[h]
              /\ \A p \in Priority :
                    /\ ToSet(pending'[h][p]) = ToSet(pending[h][p]) \ {l}
                    /\ IsInjective(pending'[h][p])
<1> USE DEF QueueInv
<1>1. url[l] \in AllHosts
  BY DEF TypeOK
<1>2. \A h \in AllHosts, p \in Priority :
          /\ IsInjective(pending[h][p])
          /\ h # url[l] => l \notin ToSet(pending[h][p])
  BY DEF QueuedOnce
<1>4. CASE Known(url[l]) /\ l \in loading[url[l]]
  <2>1. \A h \in AllHosts, p \in Priority : l \notin ToSet(pending[h][p])
    BY <1>1, <1>4 DEF QueuedOnce, SlotsStarted
  <2>2. /\ loading' = [loading EXCEPT ![url[l]] = @ \ {l}]
        /\ pending' = pending
    BY <1>4 DEF RemoveFromHost
  <2>3. \A h \in AllHosts : loading'[h] = IF h = url[l] THEN loading[h] \ {l} ELSE loading[h]
    BY <1>1, <2>2 DEF TypeOK
  <2> QED  BY <1>2, <2>1, <2>2, <2>3
<1>5. CASE ~(Known(url[l]) /\ l \in loading[url[l]])
  <2>1. l \notin loading[url[l]]
    BY <1>1, <1>5, NoRequests
  <2>2. \A h \in AllHosts : loading'[h] = IF h = url[l] THEN loading[h] \ {l} ELSE loading[h]
    BY <1>5, <2>1 DEF RemoveFromHost
  <2>3. CASE ~Known(url[l])
    <3>2. \A p \in Priority : ToSet(pending[url[l]][p]) = {}
      BY <1>1, <2>3, NoRequests
    <3>3. pending' = pending
      BY <1>5, <2>3 DEF RemoveFromHost
    <3> QED  BY <1>2, <2>2, <3>2, <3>3
  <2>4. CASE Known(url[l])
    <3> DEFINE left == [p \in Priority |-> IF l \in ToSet(pending[url[l]][p])
                                          THEN Dequeued(pending[url[l]][p], l)
                                          ELSE pending[url[l]][p]]
    <3>1. pending' = [pending EXCEPT ![url[l]] = left]
      BY <1>5, <2>4 DEF RemoveFromHost
    <3>2. ASSUME NEW p \in Priority
          PROVE  ToSet(left[p]) = ToSet(pending[url[l]][p]) \ {l} /\ IsInjective(left[p])
      <4>1. pending[url[l]][p] \in Seq(Loaders) /\ IsInjective(pending[url[l]][p])
        BY <1>1, <1>2 DEF TypeOK
      <4> QED  BY <4>1, DequeuedElements
    <3> HIDE DEF left
    <3>3. \A h \in AllHosts : pending'[h] = IF h = url[l] THEN left ELSE pending[h]
      BY <1>1, <3>1 DEF TypeOK
    <3> QED  BY <1>2, <2>2, <3>2, <3>3
  <2> QED  BY <2>3, <2>4
<1> QED  BY <1>4, <1>5

\* If every load is where its URL says, remove finds it.
LEMMA RemoveEffect ==
    ASSUME SlotInv, NEW l \in Loaders, RemoveFromHost(url[l], l)
    PROVE  \A h \in AllHosts :
              /\ loading'[h] = loading[h] \ {l}
              /\ \A p \in Priority :
                    /\ ToSet(pending'[h][p]) = ToSet(pending[h][p]) \ {l}
                    /\ IsInjective(pending'[h][p])
<1>1. \A h \in AllHosts : h # url[l] => loading[h] = loading[h] \ {l}
  BY DEF SlotInv, SlotOwnership, SlotsHeld
<1> QED  BY <1>1, RemoveQueues, SlotInvImpliesQueueInv

\* Whatever the embedder makes of its request, a load that starts has started, and the
\* others are what they were.
LEMMA StartEffect ==
    ASSUME TypeOK, NEW l \in Loaders, NEW d, NEW below, Start(l, d, below)
    PROVE  /\ phase'[l] \in {"inFlight", "deferred"}
           /\ \A m \in Loaders : m # l => phase'[m] = phase[m] /\ url'[m] = url[m]
BY DEF TypeOK, Start, SendAs

LEMMA QueueStep ==
    ASSUME QueueInv, [Next]_vars
    PROVE  QueueInv'
<1>0. TypeOK /\ TypeOK' /\ QueuedOnce /\ SlotsStarted /\ DroppedHostsAreIdle
  BY TypeStep DEF QueueInv
<1> SUFFICES QueuedOnce' /\ SlotsStarted' /\ DroppedHostsAreIdle'
  BY <1>0 DEF QueueInv
<1> USE DEF schedulerVars, loaderVars
<1>l. \A g \in AllHosts : loading[g] \subseteq Loaders
  BY <1>0 DEF TypeOK
<1>s. CASE UNCHANGED <<hostMap, pending, loading, phase, url>>
  <2>1. QueuedOnce'
    BY <1>0, <1>s DEF QueuedOnce
  <2>2. SlotsStarted'
    BY <1>0, <1>s DEF SlotsStarted
  <2>3. DroppedHostsAreIdle'
    BY <1>0, <1>s DEF DroppedHostsAreIdle, HasRequests
  <2> QED  BY <2>1, <2>2, <2>3
<1>t. /\ \A g \in AllHosts, q \in Priority : ToSet(pending[g][q]) \subseteq Loaders
      /\ \A m \in Loaders : url[m] \in AllHosts
  BY <1>0 DEF TypeOK, ToSet
<1>1. ASSUME NEW l \in Loaders, NEW h \in AllHosts, NEW p \in Priorities,
             NEW d \in Deferrals, ScheduleLoad(l, h, p, d)
      PROVE  QueuedOnce' /\ SlotsStarted' /\ DroppedHostsAreIdle'
  <2>1. p \in Priority
    BY PrioritiesAssumption
  <2>2. \A g \in AllHosts : l \notin loading[g] /\ \A q \in Priority : l \notin ToSet(pending[g][q])
    BY <1>0, <1>1 DEF ScheduleLoad, QueuedOnce, SlotsStarted
  <2>3. /\ pending' = [pending EXCEPT ![h][p] = Append(@, l)]
        /\ phase' = [phase EXCEPT ![l] = "pending"]
        /\ url' = [url EXCEPT ![l] = h]
        /\ hostMap' = WithHost(h)
        /\ loading' = loading
    BY <1>1 DEF ScheduleLoad
  <2>4. \A g \in AllHosts, q \in Priority :
            pending'[g][q] = IF g = h /\ q = p THEN Append(pending[h][p], l) ELSE pending[g][q]
    BY <1>0, <2>1, <2>3 DEF TypeOK
  <2>5. /\ ToSet(Append(pending[h][p], l)) = ToSet(pending[h][p]) \cup {l}
        /\ IsInjective(Append(pending[h][p], l))
    BY <1>0, <2>1, <2>2, AppendElements DEF TypeOK, QueuedOnce
  <2>6. QueuedOnce'
    <3>1. \A g \in AllHosts, q \in Priority :
              /\ ToSet(pending'[g][q]) = IF g = h /\ q = p THEN ToSet(pending[g][q]) \cup {l}
                                                           ELSE ToSet(pending[g][q])
              /\ IsInjective(pending'[g][q])
      <4> SUFFICES ASSUME NEW g \in AllHosts, NEW q \in Priority
                   PROVE  /\ ToSet(pending'[g][q]) = IF g = h /\ q = p
                                                     THEN ToSet(pending[g][q]) \cup {l}
                                                     ELSE ToSet(pending[g][q])
                          /\ IsInjective(pending'[g][q])
        OBVIOUS
      <4>1. IsInjective(pending[g][q])
        BY <1>0 DEF QueuedOnce
      <4>2. CASE g = h /\ q = p
        BY <2>4, <2>5, <4>2
      <4>3. CASE ~(g = h /\ q = p)
        BY <2>4, <4>1, <4>3
      <4> QED  BY <4>2, <4>3
    <3>2. /\ phase'[l] = "pending" /\ url'[l] = h
          /\ \A m \in Loaders : m # l => phase'[m] = phase[m] /\ url'[m] = url[m]
      BY <1>0, <2>3 DEF TypeOK
    <3>3. ASSUME NEW m \in Loaders, phase'[m] = "pending"
          PROVE  \E q \in Priority : m \in ToSet(pending'[url'[m]][q])
      <4>1. CASE m = l
        BY <2>1, <3>1, <3>2, <4>1
      <4>2. CASE m # l
        <5>1. phase[m] = "pending" /\ url'[m] = url[m] /\ url[m] \in AllHosts
          BY <1>t, <3>2, <3>3, <4>2
        <5>2. PICK q \in Priority : m \in ToSet(pending[url[m]][q])
          BY <1>0, <5>1 DEF QueuedOnce
        <5> QED  BY <3>1, <5>1, <5>2
      <4> QED  BY <4>1, <4>2
    <3>4. ASSUME NEW g \in AllHosts, NEW q \in Priority, NEW m \in ToSet(pending'[g][q])
          PROVE  phase'[m] = "pending" /\ url'[m] = g
      <4>1. CASE m = l /\ g = h /\ q = p
        BY <3>2, <4>1
      <4>2. CASE ~(m = l /\ g = h /\ q = p)
        <5>1. m \in ToSet(pending[g][q])
          BY <2>2, <3>1, <3>4, <4>2
        <5>2. m \in Loaders /\ m # l
          BY <1>t, <2>2, <5>1
        <5> QED  BY <1>0, <3>2, <5>1, <5>2 DEF QueuedOnce
      <4> QED  BY <4>1, <4>2
    <3>5. ASSUME NEW g \in AllHosts, NEW q \in Priority, NEW r \in Priority, q # r
          PROVE  ToSet(pending'[g][q]) \cap ToSet(pending'[g][r]) = {}
      <4>1. ToSet(pending[g][q]) \cap ToSet(pending[g][r]) = {}
        BY <1>0, <3>5 DEF QueuedOnce
      <4> QED  BY <2>2, <3>1, <3>5, <4>1
    <3> QED  BY <3>1, <3>3, <3>4, <3>5 DEF QueuedOnce
  <2>7. SlotsStarted'
    BY <1>0, <1>l, <2>2, <2>3 DEF SlotsStarted, TypeOK
  <2>8. DroppedHostsAreIdle'
    <3>1. ASSUME NEW g \in Hosts \ hostMap'
          PROVE  ~HasRequests(g)'
      <4>1. g \in Hosts \ hostMap /\ g # h /\ g \in AllHosts
        BY <2>3, HostsAssumption DEF WithHost, AllHosts
      <4> QED  BY <1>0, <2>3, <2>4, <4>1 DEF DroppedHostsAreIdle, HasRequests
    <3> QED  BY <3>1 DEF DroppedHostsAreIdle, HasRequests
  <2> QED  BY <2>6, <2>7, <2>8
<1>2. ASSUME NEW l \in Loaders, NEW h \in AllHosts, AddMainResourceLoad(l, h)
      PROVE  QueuedOnce' /\ SlotsStarted' /\ DroppedHostsAreIdle'
  <2>1. \A g \in AllHosts : l \notin loading[g] /\ \A q \in Priority : l \notin ToSet(pending[g][q])
    BY <1>0, <1>2 DEF AddMainResourceLoad, QueuedOnce, SlotsStarted
  <2>2. /\ phase' = [phase EXCEPT ![l] = "inFlight"]
        /\ url' = [url EXCEPT ![l] = h]
        /\ hostMap' = WithHost(h)
        /\ loading' = [loading EXCEPT ![h] = @ \cup {l}]
        /\ pending' = pending
    BY <1>2 DEF AddMainResourceLoad
  <2>3. QueuedOnce'
    <3>1. /\ phase'[l] = "inFlight"
          /\ \A m \in Loaders : m # l => phase'[m] = phase[m] /\ url'[m] = url[m]
      BY <1>0, <2>2 DEF TypeOK
    <3>2. ASSUME NEW m \in Loaders, phase'[m] = "pending"
          PROVE  \E q \in Priority : m \in ToSet(pending'[url'[m]][q])
      BY <1>0, <2>2, <3>1, <3>2 DEF QueuedOnce
    <3>3. ASSUME NEW g \in AllHosts, NEW q \in Priority, NEW m \in ToSet(pending'[g][q])
          PROVE  phase'[m] = "pending" /\ url'[m] = g
      BY <1>0, <1>t, <2>1, <2>2, <3>1 DEF QueuedOnce
    <3> QED  BY SMTT(60), <1>0, <2>2, <3>2, <3>3 DEF QueuedOnce
  <2>4. SlotsStarted'
    BY <1>0, <1>l, <2>1, <2>2 DEF SlotsStarted, TypeOK
  <2>5. DroppedHostsAreIdle'
    <3>1. ASSUME NEW g \in Hosts \ hostMap'
          PROVE  ~HasRequests(g)'
      <4>1. g \in Hosts \ hostMap /\ g # h /\ g \in AllHosts
        BY <2>2, HostsAssumption DEF WithHost, AllHosts
      <4>2. loading'[g] = loading[g]
        BY <1>0, <2>2, <4>1 DEF TypeOK
      <4> QED  BY <1>0, <2>2, <4>1, <4>2 DEF DroppedHostsAreIdle, HasRequests
    <3> QED  BY <3>1 DEF DroppedHostsAreIdle, HasRequests
  <2> QED  BY <2>3, <2>4, <2>5
<1>3. ASSUME NEW l \in Loaders, NEW h \in AllHosts, Redirect(l, h)
      PROVE  QueuedOnce' /\ SlotsStarted' /\ DroppedHostsAreIdle'
  <2>1. /\ phase[l] = "inFlight" /\ phase' = phase
        /\ url' = [url EXCEPT ![l] = h]
        /\ hostMap' = WithHost(h)
        /\ pending' = pending
        /\ url[l] # h => loading' = [loading EXCEPT ![h] = @ \cup {l}, ![url[l]] = @ \ {l}]
        /\ url[l] = h => loading' = loading
    BY <1>3 DEF Redirect
  <2>2. QueuedOnce'
    <3>1. \A m \in Loaders : m # l => url'[m] = url[m]
      BY <1>0, <2>1 DEF TypeOK
    <3>2. ASSUME NEW m \in Loaders, phase'[m] = "pending"
          PROVE  \E q \in Priority : m \in ToSet(pending'[url'[m]][q])
      BY <1>0, <2>1, <3>1, <3>2 DEF QueuedOnce
    <3>3. ASSUME NEW g \in AllHosts, NEW q \in Priority, NEW m \in ToSet(pending'[g][q])
          PROVE  phase'[m] = "pending" /\ url'[m] = g
      BY <1>0, <1>t, <2>1, <3>1 DEF QueuedOnce
    <3> QED  BY <1>0, <2>1, <3>2, <3>3 DEF QueuedOnce
  <2>3. url[l] \in AllHosts
    BY <1>0 DEF TypeOK
  <2>4. SlotsStarted'
    <3>1. \A g \in AllHosts : loading'[g] \subseteq loading[g] \cup {l}
      <4>1. CASE url[l] = h
        BY <2>1, <4>1
      <4>2. CASE url[l] # h
        <5>1. loading' = [loading EXCEPT ![h] = @ \cup {l}, ![url[l]] = @ \ {l}]
          BY <2>1, <4>2
        <5>2. loading \in [AllHosts -> SUBSET Loaders]
          BY <1>0 DEF TypeOK
        <5>3. \A g \in AllHosts : loading'[g] = IF g = url[l] THEN loading[g] \ {l}
                                               ELSE IF g = h THEN loading[g] \cup {l} ELSE loading[g]
          BY <2>3, <4>2, <5>1, <5>2
        <5> QED  BY <5>3
      <4> QED  BY <4>1, <4>2
    <3> QED  BY <1>0, <1>l, <2>1, <3>1 DEF SlotsStarted
  <2>5. DroppedHostsAreIdle'
    <3>1. ASSUME NEW g \in Hosts \ hostMap'
          PROVE  ~HasRequests(g)'
      <4>1. g \in Hosts \ hostMap /\ g # h /\ g \in AllHosts
        BY <2>1, HostsAssumption DEF WithHost, AllHosts
      <4>2. loading'[g] \subseteq loading[g]
        <5>1. CASE url[l] = h
          BY <2>1, <5>1
        <5>2. CASE url[l] # h
          <6>1. loading' = [loading EXCEPT ![h] = @ \cup {l}, ![url[l]] = @ \ {l}]
            BY <2>1, <5>2
          <6> QED  BY <1>0, <2>3, <4>1, <5>2, <6>1 DEF TypeOK
        <5> QED  BY <5>1, <5>2
      <4> QED  BY <1>0, <2>1, <4>1, <4>2 DEF DroppedHostsAreIdle, HasRequests
    <3> QED  BY <3>1 DEF DroppedHostsAreIdle, HasRequests
  <2> QED  BY <2>2, <2>4, <2>5
<1>4. CASE ServeStart
  <2>1. PICK p \in Waiting(Top) :
          LET h == Top.host
              l == Head(pending[h][p])
          IN /\ pending' = [pending EXCEPT ![h][p] = Tail(@)]
             /\ loading' = [loading EXCEPT ![h] = @ \cup {l}]
             /\ Start(l, defers[l], <<[Top EXCEPT !.prio = p]>> \o Tail(stack))
    BY <1>4 DEF ServeStart
  <2> DEFINE h == Top.host
             l == Head(pending[h][p])
  <2>2. Top \in ServeFrame
    BY <1>0, <1>4, ServeTop DEF ServeStart, TypeOK
  <2>3. h \in AllHosts /\ p \in Priority /\ pending[h][p] # <<>>
    BY <2>1, <2>2 DEF Waiting, ServeFrame, Priority, VeryLow, High
  <2>4. /\ pending' = [pending EXCEPT ![h][p] = Tail(@)]
        /\ loading' = [loading EXCEPT ![h] = @ \cup {l}]
        /\ hostMap' = hostMap
    BY <1>4, <2>1 DEF ServeStart
  <2> HIDE DEF h, l
  <2>6. /\ l \in ToSet(pending[h][p])
        /\ ToSet(Tail(pending[h][p])) = ToSet(pending[h][p]) \ {l}
        /\ IsInjective(Tail(pending[h][p]))
    BY SMTT(60), <1>0, <2>3, TailElements DEF TypeOK, QueuedOnce, l
  <2>7. l \in Loaders /\ phase[l] = "pending" /\ url[l] = h
    <3>1. ToSet(pending[h][p]) \subseteq Loaders
      BY <1>0, <2>3 DEF TypeOK, ToSet
    <3> QED  BY <1>0, <2>3, <2>6, <3>1 DEF QueuedOnce
  <2>8. /\ phase'[l] \in {"inFlight", "deferred"}
        /\ \A m \in Loaders : m # l => phase'[m] = phase[m] /\ url'[m] = url[m]
    BY <1>0, <2>1, <2>7, StartEffect DEF h, l
  <2>9. \A g \in AllHosts, q \in Priority :
            pending'[g][q] = IF g = h /\ q = p THEN Tail(pending[h][p]) ELSE pending[g][q]
    BY <1>0, <2>3, <2>4 DEF TypeOK
  <2>10. \A g \in AllHosts, q \in Priority :
            ~(g = h /\ q = p) => l \notin ToSet(pending[g][q])
    BY <1>0, <2>3, <2>6, <2>7 DEF QueuedOnce
  <2>11. QueuedOnce'
    <3>1. ASSUME NEW m \in Loaders, phase'[m] = "pending"
          PROVE  \E q \in Priority : m \in ToSet(pending'[url'[m]][q])
      <4>1. m # l /\ phase[m] = "pending" /\ url[m] \in AllHosts
        BY <1>0, <2>8, <3>1 DEF TypeOK
      <4>2. PICK q \in Priority : m \in ToSet(pending[url[m]][q])
        BY <1>0, <4>1 DEF QueuedOnce
      <4> QED  BY <2>6, <2>8, <2>9, <4>1, <4>2
    <3>2. ASSUME NEW g \in AllHosts, NEW q \in Priority
          PROVE  /\ ToSet(pending'[g][q]) = ToSet(pending[g][q]) \ {l}
                 /\ IsInjective(pending'[g][q])
      BY <1>0, <2>6, <2>9, <2>10 DEF QueuedOnce
    <3>3. \A g \in AllHosts, q \in Priority : ToSet(pending[g][q]) \subseteq Loaders
      BY <1>0 DEF TypeOK, ToSet
    <3>4. ASSUME NEW g \in AllHosts, NEW q \in Priority, NEW m \in ToSet(pending'[g][q])
          PROVE  phase'[m] = "pending" /\ url'[m] = g
      BY <1>0, <2>8, <3>2, <3>3 DEF QueuedOnce
    <3>5. ASSUME NEW g \in AllHosts, NEW q \in Priority, NEW r \in Priority, q # r
          PROVE  ToSet(pending'[g][q]) \cap ToSet(pending'[g][r]) = {}
      BY <1>0, <3>2, <3>5 DEF QueuedOnce
    <3> QED  BY <3>1, <3>2, <3>4, <3>5 DEF QueuedOnce
  <2>12. SlotsStarted'
    <3>1. \A g \in AllHosts : loading'[g] \subseteq loading[g] \cup {l}
      BY <1>0, <2>3, <2>4 DEF TypeOK
    <3>2. \A m \in Loaders : phase'[m] = phase[m] \/ phase'[m] \in {"inFlight", "deferred"}
      BY <2>8
    <3> QED  BY <1>0, <1>l, <2>7, <2>8, <3>1, <3>2 DEF SlotsStarted
  <2>13. DroppedHostsAreIdle'
    <3>1. h \notin Hosts \ hostMap
      BY <1>0, <2>3 DEF DroppedHostsAreIdle, HasRequests
    <3> QED  BY <1>0, <2>3, <2>4, <2>9, <3>1
             DEF DroppedHostsAreIdle, HasRequests, AllHosts, TypeOK
  <2> QED  BY <2>11, <2>12, <2>13
<1>5. ASSUME NEW h \in Hosts, SweepHost(h)
      PROVE  QueuedOnce' /\ SlotsStarted' /\ DroppedHostsAreIdle'
  <2>1. UNCHANGED <<pending, loading, phase, url>>
    BY <1>5 DEF SweepHost
  <2>2. hostMap' = hostMap \/ (~HasRequests(h) /\ hostMap' = hostMap \ {h})
    BY <1>5 DEF SweepHost
  <2>3. QueuedOnce' /\ SlotsStarted'
    BY <1>0, <2>1 DEF QueuedOnce, SlotsStarted
  <2>4. ASSUME NEW g \in Hosts \ hostMap'
        PROVE  loading[g] = {} /\ \A p \in Priority : pending[g][p] = <<>>
    <3>1. CASE g \in hostMap
      BY <2>2, <2>4, <3>1 DEF HasRequests
    <3>2. CASE g \notin hostMap
      BY <1>0, <2>4, <3>2 DEF DroppedHostsAreIdle
    <3> QED  BY <3>1, <3>2
  <2> QED  BY <2>1, <2>3, <2>4 DEF DroppedHostsAreIdle
<1>6. ASSUME NEW l \in Loaders, ReleaseResources(l)
      PROVE  QueuedOnce' /\ SlotsStarted' /\ DroppedHostsAreIdle'
  <2>1. \A h \in AllHosts :
            /\ loading'[h] \subseteq loading[h]
            /\ \A p \in Priority :
                  /\ ToSet(pending'[h][p]) = ToSet(pending[h][p]) \ {l}
                  /\ IsInjective(pending'[h][p])
    BY <1>0, <1>6, RemoveQueues DEF ReleaseResources, QueueInv
  <2>2. /\ phase'[l] \in Terminal
        /\ \A m \in Loaders : m # l => phase'[m] = phase[m] /\ url'[m] = url[m]
        /\ hostMap' = hostMap
    BY <1>0, <1>6 DEF ReleaseResources, TypeOK, Terminal
  <2>3. \A g \in AllHosts, q \in Priority : ToSet(pending[g][q]) \subseteq Loaders
    BY <1>0 DEF TypeOK, ToSet
  <2>4. \A m \in Loaders : url[m] \in AllHosts
    BY <1>0 DEF TypeOK
  <2>5. QueuedOnce'
    <3>1. ASSUME NEW m \in Loaders, phase'[m] = "pending"
          PROVE  \E q \in Priority : m \in ToSet(pending'[url'[m]][q])
      BY <1>0, <2>1, <2>2, <2>4, <3>1 DEF QueuedOnce, Terminal
    <3>2. ASSUME NEW g \in AllHosts, NEW q \in Priority, NEW m \in ToSet(pending'[g][q])
          PROVE  phase'[m] = "pending" /\ url'[m] = g
      BY <1>0, <2>1, <2>2, <2>3 DEF QueuedOnce
    <3>3. ASSUME NEW g \in AllHosts, NEW q \in Priority, NEW r \in Priority, q # r
          PROVE  ToSet(pending'[g][q]) \cap ToSet(pending'[g][r]) = {}
      BY <1>0, <2>1, <3>3 DEF QueuedOnce
    <3> QED  BY <2>1, <3>1, <3>2, <3>3 DEF QueuedOnce
  <2>6. SlotsStarted'
    BY <1>0, <1>l, <2>1, <2>2 DEF SlotsStarted, Terminal
  <2>7. DroppedHostsAreIdle'
    <3>1. ASSUME NEW h \in Hosts \ hostMap'
          PROVE  ~HasRequests(h)'
      <4>1. h \in AllHosts /\ loading[h] = {} /\ \A p \in Priority : pending[h][p] = <<>>
        BY <1>0, <2>2 DEF DroppedHostsAreIdle, HasRequests, AllHosts
      <4>2. \A p \in Priority : ToSet(pending'[h][p]) = {}
        <5>1. \A p \in Priority : ToSet(pending[h][p]) = {}
          BY <4>1 DEF ToSet
        <5> QED  BY <2>1, <4>1, <5>1
      <4>3. \A p \in Priority : pending'[h][p] = <<>>
        BY ZenonT(60), <1>0, <4>1, <4>2, EmptyQueue DEF TypeOK
      <4> QED  BY <2>1, <4>1, <4>3 DEF HasRequests
    <3> QED  BY <3>1 DEF DroppedHostsAreIdle, HasRequests
  <2> QED  BY <2>5, <2>6, <2>7
<1>7. ASSUME NEW l \in Loaders, NEW b \in Deferrals, SetDefersLoading(l, b)
      PROVE  QueuedOnce' /\ SlotsStarted' /\ DroppedHostsAreIdle'
  <2>1. UNCHANGED <<hostMap, pending, loading>>
    BY <1>7 DEF SetDefersLoading
  <2>2. CASE UNCHANGED <<url, phase>>
    BY <1>s, <2>1, <2>2
  <2>3. CASE phase[l] = "deferred" /\ Start(l, FALSE, stack)
    <3>1. /\ phase'[l] \in {"inFlight", "deferred"}
          /\ \A m \in Loaders : m # l => phase'[m] = phase[m] /\ url'[m] = url[m]
      BY <1>0, <2>3, StartEffect
    <3>2. ASSUME NEW m \in Loaders, phase'[m] = "pending"
          PROVE  \E q \in Priority : m \in ToSet(pending'[url'[m]][q])
      BY <1>0, <2>1, <3>1, <3>2 DEF QueuedOnce
    <3>3. ASSUME NEW g \in AllHosts, NEW q \in Priority, NEW m \in ToSet(pending'[g][q])
          PROVE  phase'[m] = "pending" /\ url'[m] = g
      BY <1>0, <1>t, <2>1, <2>3, <3>1, <3>3 DEF QueuedOnce
    <3>4. QueuedOnce'
      BY <1>0, <2>1, <3>2, <3>3 DEF QueuedOnce
    <3>5. SlotsStarted'
      BY <1>0, <1>l, <2>1, <3>1 DEF SlotsStarted
    <3>6. DroppedHostsAreIdle'
      BY <1>0, <2>1 DEF DroppedHostsAreIdle, HasRequests
    <3> QED  BY <3>4, <3>5, <3>6
  <2> QED  BY <1>7, <2>2, <2>3 DEF SetDefersLoading
<1>8. ASSUME NEW l \in Loaders,
             \/ DidFinishLoading(l) \/ DidFail(l) \/ Cancel(l) \/ Ending(l)
      PROVE  ReleaseResources(l) \/ UNCHANGED <<hostMap, pending, loading, phase, url>>
  BY <1>8 DEF DidFinishLoading, DidFail, Cancel, Ending, EndReturnsEarly, LeaveDocumentLoader
<1>9. ASSUME \/ SuspendPendingRequests \/ ResumePendingRequests \/ ServeReturn
             \/ TimerFires \/ SnapshotHosts \/ SweepReturn \/ UNCHANGED vars
             \/ \E b \in BOOLEAN : SetParsing(b)
      PROVE  UNCHANGED <<hostMap, pending, loading, phase, url>>
  BY <1>9 DEF SuspendPendingRequests, ResumePendingRequests, ServeReturn, TimerFires,
     SnapshotHosts, SweepReturn, SetParsing, vars
<1> QED
  BY <1>s, <1>1, <1>2, <1>3, <1>4, <1>5, <1>6, <1>7, <1>8, <1>9
     DEF Next, Callers, Network, Scheduler

\* An embedder that leaves requests alone leaves the URL of a load that starts as it was.
LEMMA KeptEffect ==
    ASSUME InitialSend \subseteq {"keep"}, TypeOK, NEW l \in Loaders, NEW d, NEW below,
           Start(l, d, below)
    PROVE  url' = url /\ stack' = below
BY DEF TypeOK, Start, SendAs

LEMMA SlotsHeldStep ==
    ASSUME InitialSend \subseteq {"keep"}, SlotInv, [Next]_vars
    PROVE  SlotsHeld'
<1>0. TypeOK /\ QueuedOnce /\ SlotsHeld /\ \A m \in Loaders : url[m] \in AllHosts
  BY DEF SlotInv, SlotOwnership, TypeOK
<1> USE DEF schedulerVars, loaderVars
<1>s. CASE UNCHANGED <<loading, phase, url>>
  BY <1>0, <1>s DEF SlotsHeld
<1>1. ASSUME NEW l \in Loaders, NEW h \in AllHosts, NEW p \in Priorities,
             NEW d \in Deferrals, ScheduleLoad(l, h, p, d)
      PROVE  SlotsHeld'
  BY <1>0, <1>1 DEF ScheduleLoad, SlotsHeld, TypeOK
<1>2. ASSUME NEW l \in Loaders, NEW h \in AllHosts, AddMainResourceLoad(l, h)
      PROVE  SlotsHeld'
  BY <1>0, <1>2 DEF AddMainResourceLoad, SlotsHeld, TypeOK
<1>3. ASSUME NEW l \in Loaders, NEW h \in AllHosts, Redirect(l, h)
      PROVE  SlotsHeld'
  <2>1. /\ phase[l] = "inFlight" /\ phase' = phase
        /\ url' = [url EXCEPT ![l] = h]
        /\ url[l] # h => loading' = [loading EXCEPT ![h] = @ \cup {l}, ![url[l]] = @ \ {l}]
        /\ url[l] = h => loading' = loading
    BY <1>3 DEF Redirect
  <2> QED  BY <1>0, <2>1 DEF SlotsHeld, TypeOK
<1>4. CASE ServeStart
  <2>1. PICK p \in Waiting(Top) :
          LET l == Head(pending[Top.host][p])
          IN /\ loading' = [loading EXCEPT ![Top.host] = @ \cup {l}]
             /\ Start(l, defers[l], <<[Top EXCEPT !.prio = p]>> \o Tail(stack))
    BY <1>4 DEF ServeStart
  <2> DEFINE h == Top.host
             l == Head(pending[h][p])
  <2>2. Top \in ServeFrame
    BY <1>0, <1>4, ServeTop DEF ServeStart, TypeOK
  <2>3. h \in AllHosts /\ p \in Priority /\ pending[h][p] # <<>>
    BY <2>1, <2>2 DEF Waiting, ServeFrame, Priority, VeryLow, High
  <2>4. loading' = [loading EXCEPT ![h] = @ \cup {l}]
    BY <2>1
  <2>6. l \in ToSet(pending[h][p]) /\ ToSet(pending[h][p]) \subseteq Loaders
    <3>1. pending[h][p] \in Seq(Loaders) /\ IsInjective(pending[h][p])
      BY <1>0, <2>3 DEF TypeOK, QueuedOnce
    <3> QED  BY <2>3, <3>1, TailElements DEF ToSet
  <2>7. l \in Loaders /\ phase[l] = "pending" /\ url[l] = h
    BY <1>0, <2>3, <2>6 DEF QueuedOnce
  <2>8. /\ url' = url /\ phase'[l] \in {"inFlight", "deferred"}
        /\ \A m \in Loaders : m # l => phase'[m] = phase[m]
    BY <1>0, <2>1, <2>7, StartEffect, KeptEffect
  <2> HIDE DEF h, l
  <2>9. \A g \in AllHosts : loading'[g] = IF g = h THEN loading[g] \cup {l} ELSE loading[g]
    BY <1>0, <2>3, <2>4 DEF TypeOK
  <2>10. ASSUME NEW m \in Loaders, NEW g \in AllHosts
        PROVE  m \in loading'[g] <=> phase'[m] \in {"inFlight", "deferred"} /\ url'[m] = g
    <3>1. CASE m = l
      BY ZenonT(60), <1>0, <2>7, <2>8, <2>9, <3>1 DEF SlotsHeld
    <3>2. CASE m # l
      <4>1. m \in loading'[g] <=> m \in loading[g]
        BY <2>9, <3>2
      <4> QED  BY <1>0, <2>8, <3>2, <4>1 DEF SlotsHeld
    <3> QED  BY <3>1, <3>2
  <2> QED  BY <2>10 DEF SlotsHeld
<1>6. ASSUME NEW l \in Loaders, ReleaseResources(l)
      PROVE  SlotsHeld'
  <2>1. \A h \in AllHosts : loading'[h] = loading[h] \ {l}
    BY <1>6, RemoveEffect DEF ReleaseResources
  <2>2. /\ phase'[l] \in Terminal
        /\ \A m \in Loaders : m # l => phase'[m] = phase[m] /\ url'[m] = url[m]
    BY <1>0, <1>6 DEF ReleaseResources, TypeOK, Terminal
  <2> QED  BY <1>0, <2>1, <2>2 DEF SlotsHeld, Terminal
<1>7. ASSUME NEW l \in Loaders, NEW b \in Deferrals, SetDefersLoading(l, b)
      PROVE  SlotsHeld'
  <2>1. loading' = loading
    BY <1>7 DEF SetDefersLoading
  <2>2. CASE UNCHANGED <<url, phase>>
    BY <1>s, <2>1, <2>2
  <2>3. CASE phase[l] = "deferred" /\ Start(l, FALSE, stack)
    <3>1. /\ url' = url /\ phase'[l] \in {"inFlight", "deferred"}
          /\ \A m \in Loaders : m # l => phase'[m] = phase[m]
      BY <1>0, <2>3, StartEffect, KeptEffect
    <3> QED  BY <1>0, <2>1, <2>3, <3>1 DEF SlotsHeld
  <2> QED  BY <1>7, <2>2, <2>3 DEF SetDefersLoading
<1>8. ASSUME NEW l \in Loaders,
             \/ DidFinishLoading(l) \/ DidFail(l) \/ Cancel(l) \/ Ending(l)
      PROVE  ReleaseResources(l) \/ UNCHANGED <<loading, phase, url>>
  BY <1>8 DEF DidFinishLoading, DidFail, Cancel, Ending, EndReturnsEarly, LeaveDocumentLoader
<1>9. ASSUME \/ SuspendPendingRequests \/ ResumePendingRequests \/ ServeReturn
             \/ TimerFires \/ SnapshotHosts \/ SweepReturn \/ UNCHANGED vars
             \/ \E h \in Hosts : SweepHost(h)
             \/ \E b \in BOOLEAN : SetParsing(b)
      PROVE  UNCHANGED <<loading, phase, url>>
  BY <1>9 DEF SuspendPendingRequests, ResumePendingRequests, ServeReturn, TimerFires,
     SnapshotHosts, SweepReturn, SweepHost, SetParsing, vars
<1> QED
  BY <1>s, <1>1, <1>2, <1>3, <1>4, <1>6, <1>7, <1>8, <1>9
     DEF Next, Callers, Network, Scheduler

LEMMA SlotStep ==
    ASSUME InitialSend \subseteq {"keep"}, SlotInv, [Next]_vars
    PROVE  SlotInv'
BY QueueStep, SlotsHeldStep, SlotInvImpliesQueueInv DEF SlotInv, SlotOwnership, QueueInv

LEMMA InitSlots == Init => SlotInv
<1> SUFFICES ASSUME Init PROVE SlotInv
  OBVIOUS
<1>1. TypeOK
  BY InitTypes
<1>2. \A h \in AllHosts, p \in Priority :
          pending[h][p] = <<>> /\ ToSet(pending[h][p]) = {} /\ loading[h] = {}
  BY DEF Init, ToSet
<1>3. QueuedOnce
  BY <1>2 DEF QueuedOnce, IsInjective, Init
<1>4. SlotsHeld /\ DroppedHostsAreIdle
  BY <1>2 DEF SlotsHeld, DroppedHostsAreIdle, HasRequests, Init, AllHosts
<1> QED  BY <1>1, <1>3, <1>4 DEF SlotInv, SlotOwnership

LEMMA InitQueues == Init => QueueInv
BY InitSlots, SlotInvImpliesQueueInv

\* When the embedder leaves requests alone, every load is, at all times, queued
\* once at the host of its URL, or holds one slot there, or is nowhere.
THEOREM LoadsAreTracked ==
    InitialSend \subseteq {"keep"} => (Spec => []SlotOwnership)
<1> SUFFICES ASSUME InitialSend \subseteq {"keep"}
             PROVE  Spec => []SlotOwnership
  OBVIOUS
<1>1. SlotInv /\ [Next]_vars => SlotInv'
  BY SlotStep
<1>2. SlotInv => SlotOwnership
  BY DEF SlotInv
<1> QED  BY <1>1, <1>2, InitSlots, PTL DEF Spec

\* ~HostInformation finds no load waiting or in flight: a host is dropped from the
\* map only when it is idle, and none comes back to a host that was dropped, whatever
\* the embedder makes of requests and however deep the calls of clients.
THEOREM DroppedHostsStayIdle == Spec => []DroppedHostsAreIdle
<1>1. QueueInv /\ [Next]_vars => QueueInv'
  BY QueueStep
<1>2. QueueInv => DroppedHostsAreIdle
  BY DEF QueueInv
<1> QED  BY <1>1, <1>2, InitQueues, PTL DEF Spec

(***************************************************************************)
(* The connection limit.  What a host has admitted is bounded by what it   *)
(* had in flight when it admitted last, so the invariant needs to know that *)
(* a load which is queued is in flight nowhere.                            *)
(***************************************************************************)
AdmittedStarted == \A l \in admitted : phase[l] \notin {"new", "pending"}

LimitInv == QueueInv /\ AdmittedStarted /\ LimitHonoured

LEMMA FewerAdmitted ==
    ASSUME TypeOK, LimitHonoured, NEW h \in Hosts, NEW S \in SUBSET (loading[h] \cap admitted)
    PROVE  Cardinality(S) <= MaxPerHost
<1>1. IsFiniteSet(loading[h] \cap admitted)
  BY LoadersAssumption, FS_Subset DEF TypeOK
<1>2. /\ IsFiniteSet(S)
      /\ Cardinality(S) <= Cardinality(loading[h] \cap admitted)
  BY <1>1, FS_Subset
<1>3. Cardinality(S) \in Nat /\ Cardinality(loading[h] \cap admitted) \in Nat
  BY <1>1, <1>2, FS_CardinalityType
<1> QED  BY <1>2, <1>3, LimitsAssumption DEF LimitHonoured

LEMMA LimitStep ==
    ASSUME LimitInv, [Next]_vars
    PROVE  LimitInv'
<1>0. /\ QueueInv /\ QueueInv' /\ TypeOK /\ TypeOK' /\ AdmittedStarted /\ LimitHonoured
      /\ QueuedOnce /\ SlotsStarted
  BY QueueStep DEF LimitInv, QueueInv
<1> SUFFICES AdmittedStarted' /\ LimitHonoured'
  BY <1>0 DEF LimitInv
<1> USE DEF schedulerVars, loaderVars
<1>a. ASSUME \A h \in Hosts : loading'[h] \cap admitted' \subseteq loading[h] \cap admitted
      PROVE  LimitHonoured'
  BY <1>0, <1>a, FewerAdmitted DEF LimitHonoured
<1>1. ASSUME NEW l \in Loaders, NEW h \in AllHosts, NEW p \in Priorities,
             NEW d \in Deferrals, ScheduleLoad(l, h, p, d)
      PROVE  AdmittedStarted' /\ LimitHonoured'
  <2>1. UNCHANGED <<loading, admitted>> /\ phase[l] = "new"
    BY <1>1 DEF ScheduleLoad
  <2>2. AdmittedStarted'
    BY <1>0, <1>1, <2>1 DEF ScheduleLoad, AdmittedStarted, TypeOK
  <2> QED  BY <1>a, <2>1, <2>2
<1>2. ASSUME NEW l \in Loaders, NEW h \in AllHosts, AddMainResourceLoad(l, h)
      PROVE  AdmittedStarted' /\ LimitHonoured'
  <2>1. l \notin admitted /\ admitted' = admitted
    BY <1>0, <1>2 DEF AddMainResourceLoad, AdmittedStarted
  <2>2. \A g \in Hosts : loading'[g] \subseteq loading[g] \cup {l}
    BY <1>0, <1>2 DEF AddMainResourceLoad, TypeOK, AllHosts
  <2>3. AdmittedStarted'
    BY <1>0, <1>2, <2>1 DEF AddMainResourceLoad, AdmittedStarted, TypeOK
  <2> QED  BY <1>a, <2>1, <2>2, <2>3
<1>3. ASSUME NEW l \in Loaders, NEW h \in AllHosts, Redirect(l, h)
      PROVE  AdmittedStarted' /\ LimitHonoured'
  <2>1. phase' = phase /\ admitted' \subseteq admitted
    BY <1>3 DEF Redirect
  <2>2. AdmittedStarted'
    BY <1>0, <2>1 DEF AdmittedStarted
  <2>3. CASE url[l] = h
    BY <1>a, <1>3, <2>2, <2>3 DEF Redirect
  <2>4. CASE url[l] # h
    <3>1. /\ loading' = [loading EXCEPT ![h] = @ \cup {l}, ![url[l]] = @ \ {l}]
          /\ admitted' = admitted \ {l}
      BY <1>3, <2>4 DEF Redirect
    <3>2. \A g \in Hosts : loading'[g] \subseteq loading[g] \cup {l}
      BY <1>0, <3>1 DEF TypeOK, AllHosts
    <3> QED  BY <1>a, <2>2, <3>1, <3>2
  <2> QED  BY <2>3, <2>4
<1>4. CASE ServeStart
  <2>1. PICK p \in Waiting(Top) :
          LET h == Top.host
              l == Head(pending[h][p])
          IN /\ ~(ShouldLimit(h) /\ LimitRequests(h))
             /\ loading' = [loading EXCEPT ![h] = @ \cup {l}]
             /\ admitted' = IF ShouldLimit(h) THEN admitted \cup {l} ELSE admitted
             /\ Start(l, defers[l], <<[Top EXCEPT !.prio = p]>> \o Tail(stack))
    BY <1>4 DEF ServeStart
  <2> DEFINE h == Top.host
             l == Head(pending[h][p])
  <2>0. Top \in ServeFrame
    BY <1>0, <1>4, ServeTop DEF ServeStart, TypeOK
  <2>2. h \in AllHosts /\ p \in Priority /\ pending[h][p] # <<>>
    BY <2>0, <2>1 DEF Waiting, ServeFrame, Priority, VeryLow, High
  <2>3. /\ ~(ShouldLimit(h) /\ LimitRequests(h))
        /\ loading' = [loading EXCEPT ![h] = @ \cup {l}]
        /\ admitted' \subseteq admitted \cup {l}
        /\ Start(l, defers[l], <<[Top EXCEPT !.prio = p]>> \o Tail(stack))
    BY <2>1
  <2> HIDE DEF h, l
  <2>4. l \in ToSet(pending[h][p]) /\ ToSet(pending[h][p]) \subseteq Loaders
    BY <1>0, <2>2, TailElements DEF TypeOK, QueuedOnce, ToSet, l
  <2>5. l \in Loaders /\ phase[l] = "pending" /\ \A g \in AllHosts : l \notin loading[g]
    BY <1>0, <2>2, <2>4 DEF QueuedOnce, SlotsStarted
  <2>6. /\ phase'[l] \in {"inFlight", "deferred"}
        /\ \A m \in Loaders : m # l => phase'[m] = phase[m]
    BY <1>0, <2>3, <2>5, StartEffect
  <2>7. AdmittedStarted'
    BY <1>0, <2>3, <2>6 DEF AdmittedStarted, TypeOK
  <2>8. ASSUME NEW g \in Hosts
        PROVE  Cardinality(loading'[g] \cap admitted') <= MaxPerHost
    <3>1. CASE g # h
      <4>1. loading'[g] = loading[g] /\ l \notin loading[g]
        BY <1>0, <2>2, <2>3, <2>5, <3>1 DEF TypeOK, AllHosts
      <4>2. loading'[g] \cap admitted' \subseteq loading[g] \cap admitted
        BY <2>3, <4>1
      <4> QED  BY <1>0, <4>2, FewerAdmitted
    <3>2. CASE g = h
      <4>1. loading'[g] = loading[g] \cup {l} /\ l \notin loading[g] /\ loading[g] \subseteq Loaders
        BY <1>0, <2>2, <2>3, <2>5, <3>2 DEF TypeOK
      <4>2. IsFiniteSet(loading[g])
        BY <4>1, LoadersAssumption, FS_Subset
      <4>3. /\ IsFiniteSet(loading'[g])
            /\ Cardinality(loading'[g]) = Cardinality(loading[g]) + 1
        BY <4>1, <4>2, FS_AddElement
      <4>4. ~(Cardinality(loading[g]) >= MaxPerHost)
        BY <2>3, <3>2, HostsAssumption DEF ShouldLimit, LimitRequests
      <4>5. /\ IsFiniteSet(loading'[g] \cap admitted')
            /\ Cardinality(loading'[g] \cap admitted') <= Cardinality(loading'[g])
        BY <4>3, FS_Subset
      <4>6. /\ Cardinality(loading[g]) \in Nat
            /\ Cardinality(loading'[g] \cap admitted') \in Nat
        BY <4>2, <4>5, FS_CardinalityType
      <4> QED  BY <4>3, <4>4, <4>5, <4>6, LimitsAssumption
    <3> QED  BY <3>1, <3>2
  <2> QED  BY <2>7, <2>8 DEF LimitHonoured
<1>5. ASSUME NEW l \in Loaders, ReleaseResources(l)
      PROVE  AdmittedStarted' /\ LimitHonoured'
  <2>0. \A h \in AllHosts : loading'[h] \subseteq loading[h]
    <3>1. RemoveFromHost(url[l], l)
      BY <1>5 DEF ReleaseResources
    <3>2. \A h \in AllHosts : loading'[h] = IF h = url[l] THEN loading[h] \ {l} ELSE loading[h]
      BY <1>0, <3>1, RemoveQueues
    <3> QED  BY <3>2
  <2>1. /\ admitted' = admitted \ {l}
        /\ \A m \in Loaders : m # l => phase'[m] = phase[m]
        /\ \A h \in AllHosts : loading'[h] \subseteq loading[h]
    BY <1>0, <1>5, <2>0 DEF ReleaseResources, TypeOK
  <2>2. AdmittedStarted'
    BY <1>0, <2>1 DEF AdmittedStarted, TypeOK
  <2> QED  BY <1>a, <2>1, <2>2 DEF AllHosts
<1>6. ASSUME NEW l \in Loaders, NEW b \in Deferrals, SetDefersLoading(l, b)
      PROVE  AdmittedStarted' /\ LimitHonoured'
  <2>1. UNCHANGED <<loading, admitted>>
    BY <1>6 DEF SetDefersLoading
  <2>2. \A m \in Loaders : phase'[m] = phase[m] \/ phase'[m] \in {"inFlight", "deferred"}
    BY <1>0, <1>6, StartEffect DEF SetDefersLoading
  <2>3. AdmittedStarted'
    BY <1>0, <2>1, <2>2 DEF AdmittedStarted, TypeOK
  <2> QED  BY <1>a, <2>1, <2>3
<1>7. ASSUME UNCHANGED <<loading, admitted, phase>>
      PROVE  AdmittedStarted' /\ LimitHonoured'
  BY <1>0, <1>a, <1>7 DEF AdmittedStarted
<1>8. ASSUME NEW l \in Loaders,
             \/ DidFinishLoading(l) \/ DidFail(l) \/ Cancel(l) \/ Ending(l)
      PROVE  ReleaseResources(l) \/ UNCHANGED <<loading, admitted, phase>>
  BY <1>8 DEF DidFinishLoading, DidFail, Cancel, Ending, EndReturnsEarly, LeaveDocumentLoader
<1>9. ASSUME \/ SuspendPendingRequests \/ ResumePendingRequests \/ ServeReturn
             \/ TimerFires \/ SnapshotHosts \/ SweepReturn \/ UNCHANGED vars
             \/ \E h \in Hosts : SweepHost(h)
             \/ \E b \in BOOLEAN : SetParsing(b)
      PROVE  UNCHANGED <<loading, admitted, phase>>
  BY <1>9 DEF SuspendPendingRequests, ResumePendingRequests, ServeReturn, TimerFires,
     SnapshotHosts, SweepReturn, SweepHost, SetParsing, vars
<1> QED
  BY <1>1, <1>2, <1>3, <1>4, <1>5, <1>6, <1>7, <1>8, <1>9
     DEF Next, Callers, Network, Scheduler

\* No host ever has more loads from its queue in flight than its limit, for every embedder.
THEOREM LimitIsHonoured == Spec => []LimitHonoured
<1>1. Init => LimitInv
  <2> SUFFICES ASSUME Init PROVE LimitInv
    OBVIOUS
  <2>1. \A h \in Hosts : loading[h] \cap admitted = {}
    BY DEF Init
  <2>2. LimitHonoured
    BY <2>1, FS_EmptySet, LimitsAssumption DEF LimitHonoured
  <2>3. AdmittedStarted
    BY DEF Init, AdmittedStarted
  <2> QED  BY <2>2, <2>3, InitQueues DEF LimitInv
<1>2. LimitInv /\ [Next]_vars => LimitInv'
  BY LimitStep
<1>3. LimitInv => LimitHonoured
  BY DEF LimitInv
<1> QED  BY <1>1, <1>2, <1>3, PTL DEF Spec

------------------------------------------------------------------------------
(***************************************************************************)
(* ResourceLoading implements LoadSlots, for any loaders, hosts and        *)
(* limits, when the embedder leaves requests alone.                        *)
(***************************************************************************)

(***************************************************************************)
(* The refinement mapping reads the structures of the scheduler.  Since    *)
(* they track every load, it says what the loader says of itself.          *)
(***************************************************************************)
phaseStatus ==
    [l \in Loaders |->
        IF phase[l] \in {"inFlight", "deferred"} THEN "open"
        ELSE IF phase[l] = "pending" THEN "waiting"
        ELSE IF phase[l] = "new" THEN "unscheduled" ELSE "closed"]
phaseHost == [l \in Loaders |-> IF phase[l] \in Active THEN url[l] ELSE NonHTTP]

ReadsPhases == slotStatus = phaseStatus /\ slotHost = phaseHost

LEMMA MappingReadsPhases == SlotInv => ReadsPhases
<1> SUFFICES ASSUME SlotInv PROVE slotStatus = phaseStatus /\ slotHost = phaseHost
  BY DEF ReadsPhases
<1>0. TypeOK /\ QueuedOnce /\ SlotsHeld
  BY DEF SlotInv, SlotOwnership
<1>1. ASSUME NEW l \in Loaders, NEW h \in AllHosts
      PROVE  /\ l \in loading[h] <=> phase[l] \in {"inFlight", "deferred"} /\ url[l] = h
             /\ Queued(l, h) <=> phase[l] = "pending" /\ url[l] = h
  BY <1>0 DEF QueuedOnce, SlotsHeld, Queued
<1>2. \A l \in Loaders : url[l] \in AllHosts
  BY <1>0 DEF TypeOK
<1>3. ASSUME NEW l \in Loaders
      PROVE  /\ (\E h \in AllHosts : l \in loading[h]) <=> phase[l] \in {"inFlight", "deferred"}
             /\ (\E h \in AllHosts : Queued(l, h)) <=> phase[l] = "pending"
             /\ \A h \in AllHosts :
                    l \in loading[h] \/ Queued(l, h) <=> phase[l] \in Active /\ url[l] = h
  BY <1>1, <1>2 DEF Active
<1>4. slotStatus = phaseStatus
  BY <1>3 DEF slotStatus, phaseStatus
<1>5. ASSUME NEW l \in Loaders
      PROVE  (IF \E h \in AllHosts : l \in loading[h] \/ Queued(l, h)
              THEN CHOOSE h \in AllHosts : l \in loading[h] \/ Queued(l, h)
              ELSE NonHTTP)
             = IF phase[l] \in Active THEN url[l] ELSE NonHTTP
  <2>1. CASE phase[l] \in Active
    <3>1. /\ url[l] \in AllHosts
          /\ \A h \in AllHosts : l \in loading[h] \/ Queued(l, h) <=> h = url[l]
      BY <1>2, <1>3, <2>1
    <3> QED  BY <2>1, <3>1
  <2>2. CASE phase[l] \notin Active
    BY <1>3, <2>2
  <2> QED  BY <2>1, <2>2
<1>6. slotHost = phaseHost
  BY <1>5 DEF slotHost, phaseHost
<1> QED  BY <1>4, <1>6

(***************************************************************************)
(* A load that is ending had begun: nothing closes a load that was never   *)
(* requested.                                                              *)
(***************************************************************************)
EndersBegan == \A f \in ToSet(stack) : f.op \in EndOps => phase[f.loader] # "new"

RefinementInv == SlotInv /\ EndersBegan

LEMMA MappingReadsNextPhases == SlotInv' => ReadsPhases'
BY MappingReadsPhases, PTL

LEMMA ConcatElements ==
    ASSUME NEW a \in Seq(Frame), NEW b \in Seq(Frame)
    PROVE  ToSet(a \o b) \subseteq ToSet(a) \cup ToSet(b)
<1>1. /\ a \o b \in Seq(Frame) /\ Len(a \o b) = Len(a) + Len(b)
      /\ \A i \in 1..(Len(a) + Len(b)) :
            (a \o b)[i] = IF i <= Len(a) THEN a[i] ELSE b[i - Len(a)]
  BY ConcatProperties
<1>2. /\ Len(a) \in Nat /\ Len(b) \in Nat
      /\ DOMAIN a = 1..Len(a) /\ DOMAIN b = 1..Len(b)
  OBVIOUS
<1>3. DOMAIN (a \o b) = 1..(Len(a) + Len(b))
  BY <1>1
<1>4. ASSUME NEW i \in 1..(Len(a) + Len(b))
      PROVE  (a \o b)[i] \in ToSet(a) \cup ToSet(b)
  <2>1. CASE i <= Len(a)
    BY <1>1, <1>2, <2>1 DEF ToSet
  <2>2. CASE ~(i <= Len(a))
    <3>1. i - Len(a) \in 1..Len(b)
      BY <1>2, <2>2
    <3> QED  BY <1>1, <1>2, <2>2, <3>1 DEF ToSet
  <2> QED  BY <2>1, <2>2
<1> QED  BY <1>1, <1>3, <1>4 DEF ToSet

LEMMA PushElements ==
    ASSUME NEW f \in Frame, NEW s \in Seq(Frame)
    PROVE  ToSet(<<f>> \o s) \subseteq {f} \cup ToSet(s)
<1>1. <<f>> \in Seq(Frame) /\ ToSet(<<f>>) = {f}
  BY DEF ToSet
<1> QED  BY <1>1, ConcatElements

LEMMA PopElements ==
    ASSUME stack \in Seq(Frame), stack # <<>>
    PROVE  ToSet(Tail(stack)) \subseteq ToSet(stack) /\ Top \in ToSet(stack)
<1>1. /\ Tail(stack) \in Seq(Frame) /\ Top = stack[1]
      /\ Len(stack) \in Nat \ {0} /\ Len(Tail(stack)) = Len(stack) - 1
      /\ \A i \in 1..(Len(stack) - 1) : Tail(stack)[i] = stack[i + 1]
  BY HeadTailProperties DEF Top
<1>2. DOMAIN stack = 1..Len(stack) /\ DOMAIN Tail(stack) = 1..(Len(stack) - 1)
  BY <1>1
<1> QED  BY <1>1, <1>2 DEF ToSet

LEMMA EndersStep ==
    ASSUME InitialSend \subseteq {"keep"}, RefinementInv, [Next]_vars
    PROVE  EndersBegan'
<1>0. TypeOK /\ stack \in Seq(Frame) /\ EndersBegan
  BY DEF RefinementInv, SlotInv, TypeOK
<1> USE DEF schedulerVars, loaderVars
<1>a. \A l \in Loaders : phase[l] # "new" => phase'[l] # "new"
  <2>1. ASSUME NEW l \in Loaders, NEW h \in AllHosts,
               \/ AddMainResourceLoad(l, h)
               \/ \E p \in Priorities, d \in Deferrals : ScheduleLoad(l, h, p, d)
        PROVE  \A m \in Loaders : phase[m] # "new" => phase'[m] # "new"
    BY <1>0, <2>1 DEF AddMainResourceLoad, ScheduleLoad, TypeOK
  <2>2. ASSUME NEW l \in Loaders, NEW b \in Deferrals, SetDefersLoading(l, b)
        PROVE  \A m \in Loaders : phase[m] # "new" => phase'[m] # "new"
    BY <1>0, <2>2 DEF SetDefersLoading, Start, SendAs, TypeOK
  <2>3. ASSUME NEW l \in Loaders, ReleaseResources(l)
        PROVE  \A m \in Loaders : phase[m] # "new" => phase'[m] # "new"
    BY <1>0, <2>3 DEF ReleaseResources, TypeOK
  <2>4. CASE ServeStart
    <3>1. PICK l, h, d : SendAs(l, h, d)
      BY <2>4 DEF ServeStart, Start
    <3>2. \A m \in Loaders : phase'[m] \in {phase[m], "deferred", "inFlight"}
      BY <1>0, <3>1 DEF SendAs, TypeOK
    <3> QED  BY <3>2
  <2>5. ASSUME NEW l \in Loaders,
               \/ DidFinishLoading(l) \/ DidFail(l) \/ Cancel(l)
               \/ EndReturnsEarly(l) \/ LeaveDocumentLoader(l)
               \/ \E h \in AllHosts : Redirect(l, h)
        PROVE  phase' = phase
    BY <2>5 DEF DidFinishLoading, DidFail, Cancel, EndReturnsEarly, LeaveDocumentLoader, Redirect
  <2>6. ASSUME \/ SuspendPendingRequests \/ ResumePendingRequests \/ ServeReturn
               \/ TimerFires \/ SnapshotHosts \/ SweepReturn \/ UNCHANGED vars
               \/ \E h \in Hosts : SweepHost(h)
               \/ \E b \in BOOLEAN : SetParsing(b)
        PROVE  phase' = phase
    BY <2>6 DEF SuspendPendingRequests, ResumePendingRequests, ServeReturn, TimerFires,
       SnapshotHosts, SweepReturn, SweepHost, SetParsing, vars
  <2> QED
    BY <2>1, <2>2, <2>3, <2>4, <2>5, <2>6 DEF Next, Callers, Network, Scheduler, Ending
<1>b. \A f \in ToSet(stack) : f.op \in EndOps => f.loader \in Loaders
  <2>1. ToSet(stack) \subseteq Frame
    BY <1>0 DEF ToSet
  <2> QED
    BY <2>1 DEF Frame, ServeFrame, SnapshotFrame, SweepFrame, EndFrame, AttachFrame, EndOps
<1>c. ASSUME \A f \in ToSet(stack') :
                \/ f \in ToSet(stack) \/ f.op \notin EndOps
                \/ f.loader \in Loaders /\ phase[f.loader] # "new"
      PROVE  EndersBegan'
  BY <1>0, <1>a, <1>b, <1>c DEF EndersBegan
<1>d. ASSUME NEW f \in Frame, Push(f),
             f.op \in EndOps => f.loader \in Loaders /\ phase[f.loader] # "new"
      PROVE  EndersBegan'
  BY <1>0, <1>c, <1>d, PushElements DEF Push
<1>e. ASSUME stack # <<>>, Pop PROVE EndersBegan'
  BY <1>0, <1>c, <1>e, PopElements DEF Pop
<1>f. ASSUME stack # <<>>, NEW f \in Frame, stack' = <<f>> \o Tail(stack),
             f.op \in EndOps => f.loader \in Loaders /\ phase[f.loader] # "new"
      PROVE  EndersBegan'
  <2>1. Tail(stack) \in Seq(Frame)
    BY <1>0, <1>f, StackTop
  <2>2. ToSet(stack') \subseteq {f} \cup ToSet(stack)
    BY <1>0, <1>f, <2>1, PushElements, PopElements
  <2> QED  BY <1>c, <1>f, <2>2
<1>g. ASSUME stack' = stack PROVE EndersBegan'
  BY <1>c, <1>g
<1>1. ASSUME NEW l \in Loaders, NEW h \in AllHosts, NEW p \in Priorities,
             NEW d \in Deferrals, ScheduleLoad(l, h, p, d)
      PROVE  EndersBegan'
  <2>1. Serve(h, p) \in Frame /\ Serve(h, p).op \notin EndOps
    BY PrioritiesAssumption, FrameTypes DEF Serve, EndOps
  <2> QED  BY <1>1, <1>d, <1>g, <2>1 DEF ScheduleLoad
<1>2. ASSUME NEW l \in Loaders, NEW b \in Deferrals, SetDefersLoading(l, b)
      PROVE  EndersBegan'
  BY <1>2, <1>g DEF SetDefersLoading, Start
<1>3. CASE ServeStart
  <2>1. PICK p \in Waiting(Top) : stack' = <<[Top EXCEPT !.prio = p]>> \o Tail(stack)
    BY <1>3 DEF ServeStart, Start
  <2>2. stack # <<>> /\ Top \in ServeFrame
    BY <1>0, <1>3, ServeTop DEF ServeStart, Running
  <2>3. p \in Priority
    BY <2>2 DEF Waiting, ServeFrame, Priority, VeryLow, High
  <2>4. [Top EXCEPT !.prio = p] \in ServeFrame /\ [Top EXCEPT !.prio = p].op = "serve"
    BY <2>2, <2>3 DEF ServeFrame
  <2> QED  BY <1>f, <2>1, <2>2, <2>4 DEF Frame, EndOps
<1>4. ASSUME NEW h \in Hosts, SweepHost(h)
      PROVE  EndersBegan'
  <2> DEFINE f == [Top EXCEPT !.todo = @ \ {h}]
             rest == <<f>> \o Tail(stack)
  <2>1. stack # <<>> /\ Top \in SweepFrame /\ Tail(stack) \in Seq(Frame)
    BY <1>0, <1>4, SweepTop, StackTop DEF SweepHost, Running
  <2>2. f \in Frame /\ f.op \notin EndOps
    BY <2>1 DEF SweepFrame, Frame, EndOps
  <2>3. stack' = rest \/ stack' = <<Serve(h, VeryLow)>> \o rest
    BY <1>4 DEF SweepHost
  <2> HIDE DEF f
  <2>4. CASE stack' = rest
    BY <1>f, <2>1, <2>2, <2>4
  <2>5. CASE stack' = <<Serve(h, VeryLow)>> \o rest
    <3>1. Serve(h, VeryLow) \in Frame /\ Serve(h, VeryLow).op \notin EndOps
      <4>1. h \in AllHosts /\ VeryLow \in Priority
        BY DEF AllHosts, VeryLow, High, Priority
      <4> QED  BY <4>1, FrameTypes DEF Serve, EndOps
    <3>2. rest \in Seq(Frame)
      BY <2>1, <2>2, StackPush
    <3>3. ToSet(rest) \subseteq {f} \cup ToSet(stack)
      BY <1>0, <2>1, <2>2, PushElements, PopElements
    <3>4. ToSet(stack') \subseteq {Serve(h, VeryLow)} \cup ToSet(rest)
      BY <2>5, <3>1, <3>2, PushElements
    <3> QED  BY <1>c, <2>2, <3>1, <3>3, <3>4
  <2> QED  BY <2>3, <2>4, <2>5
<1>5. CASE TimerFires
  <2> DEFINE calls == <<Serve(NonHTTP, VeryLow), [op |-> "snapshot"]>>
  <2>1. Serve(NonHTTP, VeryLow) \in Frame /\ [op |-> "snapshot"] \in Frame
    BY FrameTypes DEF AllHosts, VeryLow, High, Priority
  <2>2. calls \in Seq(Frame)
    BY <2>1
  <2>3. \A f \in ToSet(calls) : f.op \notin EndOps
    BY DEF ToSet, Serve, EndOps
  <2>4. stack' = stack \/ stack' = calls \o stack
    BY <1>5 DEF TimerFires
  <2> HIDE DEF calls
  <2> QED  BY <1>0, <1>c, <1>g, <2>2, <2>3, <2>4, ConcatElements
<1>6. CASE SnapshotHosts
  <2>1. [op |-> "sweep", todo |-> hostMap] \in Frame
    BY <1>0, FrameTypes DEF TypeOK
  <2> QED  BY <1>6, <1>f, <2>1 DEF SnapshotHosts, Running, EndOps
<1>7. CASE SuspendPendingRequests
  BY <1>7, <1>d, FrameTypes DEF SuspendPendingRequests, EndOps
<1>8. CASE ServeReturn \/ SweepReturn \/ ResumePendingRequests
  BY <1>8, <1>e DEF ServeReturn, SweepReturn, ResumePendingRequests, Running
<1>9. ASSUME NEW l \in Loaders, DidFinishLoading(l) \/ DidFail(l) \/ Cancel(l)
      PROVE  EndersBegan'
  <2>1. PICK op \in EndOps, t \in {"told", "removed"} : Push(End(op, l, t)) /\ phase[l] # "new"
    BY <1>9 DEF DidFinishLoading, DidFail, Cancel, HandleReports, Attached, Active, EndOps, FailStage
  <2>2. End(op, l, t) \in Frame /\ End(op, l, t).loader = l
    BY FrameTypes DEF End
  <2> QED  BY <1>d, <2>1, <2>2
<1>10. ASSUME NEW l \in Loaders, LeaveDocumentLoader(l)
       PROVE  EndersBegan'
  <2>1. PICK op \in EndOps :
            /\ stack # <<>> /\ Top = End(op, l, "told")
            /\ stack' = <<End(op, l, "removed")>> \o Tail(stack)
    BY <1>10 DEF LeaveDocumentLoader, Running
  <2>2. Top \in ToSet(stack) /\ Top.op \in EndOps /\ Top.loader = l
    BY <1>0, <2>1, PopElements DEF End
  <2>3. End(op, l, "removed") \in Frame /\ End(op, l, "removed").loader = l
    BY FrameTypes DEF End
  <2>4. phase[l] # "new"
    BY <1>0, <2>2 DEF EndersBegan
  <2> QED  BY <1>f, <2>1, <2>3, <2>4
<1>11. ASSUME NEW l \in Loaders, EndReturnsEarly(l) \/ ReleaseResources(l)
       PROVE  EndersBegan'
  BY <1>11, <1>e DEF EndReturnsEarly, ReleaseResources, Running
<1>12. ASSUME \/ UNCHANGED vars
              \/ \E b \in BOOLEAN : SetParsing(b)
              \/ \E l \in Loaders, h \in AllHosts : AddMainResourceLoad(l, h) \/ Redirect(l, h)
       PROVE  EndersBegan'
  BY <1>12, <1>g DEF vars, SetParsing, AddMainResourceLoad, Redirect
<1> QED
  BY <1>1, <1>2, <1>3, <1>4, <1>5, <1>6, <1>7, <1>8, <1>9, <1>10, <1>11, <1>12
     DEF Next, Callers, Network, Scheduler, Ending

(***************************************************************************)
(* Every step is one of LoadSlots, or changes nothing that it sees.        *)
(***************************************************************************)
LEMMA SlotsStep ==
    ASSUME InitialSend \subseteq {"keep"}, RefinementInv, [Next]_vars
    PROVE  [Slots!Next]_<<slotStatus, slotHost>>
<1> DEFINE Goal == [Slots!Next]_<<slotStatus, slotHost>>
<1>0. TypeOK /\ QueuedOnce /\ SlotsHeld /\ EndersBegan
  BY DEF RefinementInv, SlotInv, SlotOwnership
<1> USE DEF schedulerVars, loaderVars
<1>m. /\ slotStatus = phaseStatus /\ slotHost = phaseHost
      /\ slotStatus' = phaseStatus' /\ slotHost' = phaseHost'
  BY SlotStep, MappingReadsPhases, MappingReadsNextPhases DEF RefinementInv, ReadsPhases
<1>a. Slots!AllHosts = AllHosts
  BY DEF Slots!AllHosts, AllHosts
<1>b. \A l \in Loaders : url[l] \in AllHosts
  BY <1>0 DEF TypeOK
<1>1. ASSUME NEW l \in Loaders, NEW h \in AllHosts,
             \/ \E p \in Priorities, d \in Deferrals : ScheduleLoad(l, h, p, d)
             \/ AddMainResourceLoad(l, h)
      PROVE  Goal
  <2>1. PICK s \in {"pending", "inFlight"} :
            phase[l] = "new" /\ phase' = [phase EXCEPT ![l] = s] /\ url' = [url EXCEPT ![l] = h]
    BY <1>1 DEF ScheduleLoad, AddMainResourceLoad
  <2>2. phaseStatus[l] = "unscheduled"
    BY <2>1 DEF phaseStatus
  <2>3. phaseStatus' = [phaseStatus EXCEPT ![l] = IF s = "pending" THEN "waiting" ELSE "open"]
    BY <1>0, <2>1 DEF phaseStatus, TypeOK
  <2>4. phaseHost' = [phaseHost EXCEPT ![l] = h]
    BY <1>0, <2>1 DEF phaseHost, TypeOK, Active
  <2>5. Slots!Request(l, h)
    BY <1>m, <2>2, <2>3, <2>4 DEF Slots!Request
  <2> QED  BY <1>a, <2>5 DEF Slots!Next
<1>2. ASSUME NEW l \in Loaders, NEW h \in AllHosts, Redirect(l, h)
      PROVE  Goal
  <2>1. phase[l] = "inFlight" /\ phase' = phase /\ url' = [url EXCEPT ![l] = h]
    BY <1>2 DEF Redirect
  <2>2. phaseStatus' = phaseStatus /\ phaseStatus[l] = "open"
    BY <2>1 DEF phaseStatus
  <2>3. phaseHost' = [phaseHost EXCEPT ![l] = h]
    BY <1>0, <2>1 DEF phaseHost, TypeOK, Active
  <2>4. Slots!Move(l, h)
    BY <1>m, <2>2, <2>3 DEF Slots!Move
  <2> QED  BY <1>a, <2>4 DEF Slots!Next
<1>3. ASSUME ServeStart PROVE Goal
  <2>1. PICK p \in Waiting(Top) :
          LET h == Top.host
              l == Head(pending[h][p])
          IN /\ ~(ShouldLimit(h) /\ LimitRequests(h))
             /\ Start(l, defers[l], <<[Top EXCEPT !.prio = p]>> \o Tail(stack))
    BY <1>3 DEF ServeStart
  <2> DEFINE h == Top.host
             l == Head(pending[h][p])
  <2>2. Top \in ServeFrame
    BY <1>0, <1>3, ServeTop DEF ServeStart, TypeOK
  <2>3. h \in AllHosts /\ p \in Priority /\ pending[h][p] # <<>>
    BY <2>1, <2>2 DEF Waiting, ServeFrame, Priority, VeryLow, High
  <2>4. ~(ShouldLimit(h) /\ LimitRequests(h)) /\ SendAs(l, url[l], defers[l])
    BY <2>1 DEF Start
  <2> HIDE DEF h, l
  <2>5. l \in ToSet(pending[h][p]) /\ ToSet(pending[h][p]) \subseteq Loaders
    BY <1>0, <2>3, TailElements DEF TypeOK, QueuedOnce, ToSet, l
  <2>6. l \in Loaders /\ phase[l] = "pending" /\ url[l] = h
    BY <1>0, <2>3, <2>5 DEF QueuedOnce
  <2>7. PICK s \in {"inFlight", "deferred"} : phase' = [phase EXCEPT ![l] = s] /\ url' = url
    BY <1>0, <2>4, <2>6 DEF SendAs, TypeOK
  <2>8. phaseStatus[l] = "waiting" /\ phaseHost[l] = h
    BY <2>6 DEF phaseStatus, phaseHost, Active
  <2>9. phaseStatus' = [phaseStatus EXCEPT ![l] = "open"]
    BY <1>0, <2>7 DEF phaseStatus, TypeOK
  <2>10. phaseHost' = phaseHost
    BY <1>0, <2>6, <2>7 DEF phaseHost, TypeOK, Active
  <2>11. h \in Hosts => Cardinality(Slots!Open(h)) < MaxPerHost
    <3>1. Slots!Open(h) = loading[h]
      <4>1. \A m \in Loaders :
                slotStatus[m] = "open" /\ slotHost[m] = h <=> m \in loading[h]
        BY <1>0, <1>m, <2>3 DEF SlotsHeld, phaseStatus, phaseHost, Active
      <4>2. loading[h] \subseteq Loaders
        BY <1>0, <2>3 DEF TypeOK
      <4> QED  BY <4>1, <4>2 DEF Slots!Open
    <3>2. IsFiniteSet(loading[h])
      BY <1>0, <2>3, LoadersAssumption, FS_Subset DEF TypeOK
    <3>3. Cardinality(loading[h]) \in Nat
      BY <3>2, FS_CardinalityType
    <3>4. h \in Hosts => ~(Cardinality(loading[h]) >= MaxPerHost)
      BY <2>4, HostsAssumption DEF ShouldLimit, LimitRequests
    <3> QED  BY <3>1, <3>3, <3>4, LimitsAssumption
  <2>12. Slots!Grant(l)
    <3>1. /\ slotStatus[l] = "waiting" /\ slotHost' = slotHost
          /\ slotStatus' = [slotStatus EXCEPT ![l] = "open"]
          /\ slotHost[l] = h
      BY <1>m, <2>8, <2>9, <2>10
    <3>2. slotHost[l] \in Hosts => Cardinality(Slots!Open(slotHost[l])) < MaxPerHost
      BY <2>11, <3>1
    <3>3. Slots!Cardinality(Slots!Open(h)) = Cardinality(Slots!Open(h))
      BY DEF Slots!Cardinality, Cardinality
    <3> QED  BY <3>1, <3>2, <3>3 DEF Slots!Grant
  <2> QED  BY <2>6, <2>12 DEF Slots!Next
<1>4. ASSUME NEW l \in Loaders, ReleaseResources(l)
      PROVE  Goal
  <2>1. PICK s \in Terminal : phase' = [phase EXCEPT ![l] = s]
    BY <1>4 DEF ReleaseResources, Terminal
  <2>2. url' = [url EXCEPT ![l] = NonHTTP]
    BY <1>4 DEF ReleaseResources
  <2>3. phase[l] # "new"
    <3>1. PICK op \in EndOps : stack # <<>> /\ Top = End(op, l, "removed")
      BY <1>4 DEF ReleaseResources, Running
    <3>2. Top \in ToSet(stack) /\ Top.op \in EndOps /\ Top.loader = l
      BY <1>0, <3>1, PopElements DEF End, TypeOK
    <3> QED  BY <1>0, <3>2 DEF EndersBegan
  <2>4. phaseStatus' = [phaseStatus EXCEPT ![l] = "closed"]
    BY <1>0, <2>1 DEF phaseStatus, TypeOK, Terminal
  <2>5. phaseHost' = [phaseHost EXCEPT ![l] = NonHTTP]
    BY <1>0, <2>1, <2>2 DEF phaseHost, TypeOK, Terminal, Active
  <2>6. CASE phase[l] \in Active
    <3>1. phaseStatus[l] \in {"waiting", "open"}
      BY <2>6 DEF phaseStatus, Active
    <3>2. Slots!Close(l)
      BY <1>m, <2>4, <2>5, <3>1 DEF Slots!Close
    <3> QED  BY <3>2 DEF Slots!Next
  <2>7. CASE phase[l] \notin Active
    <3>1. phaseStatus[l] = "closed" /\ phaseHost[l] = NonHTTP
      BY <1>0, <2>3, <2>7 DEF phaseStatus, phaseHost, Active
    <3>2. phaseStatus' = phaseStatus
      BY <2>4, <3>1 DEF phaseStatus
    <3>3. phaseHost' = phaseHost
      BY <2>5, <3>1 DEF phaseHost
    <3> QED  BY <1>m, <3>2, <3>3
  <2> QED  BY <2>6, <2>7
<1>s. ASSUME UNCHANGED <<phase, url>> PROVE Goal
  BY <1>m, <1>s DEF phaseStatus, phaseHost
<1>5. ASSUME NEW l \in Loaders, NEW b \in Deferrals, SetDefersLoading(l, b)
      PROVE  Goal
  <2>1. CASE UNCHANGED <<phase, url>>
    BY <1>s, <2>1
  <2>2. CASE phase[l] = "deferred" /\ SendAs(l, url[l], FALSE)
    <3>1. phase' = [phase EXCEPT ![l] = "inFlight"] /\ url' = url
      BY <1>0, <2>2 DEF SendAs, TypeOK
    <3>2. phaseStatus' = phaseStatus
      BY <1>0, <2>2, <3>1 DEF phaseStatus, TypeOK
    <3>3. phaseHost' = phaseHost
      BY <1>0, <2>2, <3>1 DEF phaseHost, TypeOK, Active
    <3> QED  BY <1>m, <3>2, <3>3
  <2> QED  BY <1>5, <2>1, <2>2 DEF SetDefersLoading, Start
<1>6. ASSUME NEW l \in Loaders,
             \/ DidFinishLoading(l) \/ DidFail(l) \/ Cancel(l)
             \/ EndReturnsEarly(l) \/ LeaveDocumentLoader(l)
      PROVE  Goal
  BY <1>6, <1>s DEF DidFinishLoading, DidFail, Cancel, EndReturnsEarly, LeaveDocumentLoader
<1>7. ASSUME \/ SuspendPendingRequests \/ ResumePendingRequests \/ ServeReturn
             \/ TimerFires \/ SnapshotHosts \/ SweepReturn \/ UNCHANGED vars
             \/ \E h \in Hosts : SweepHost(h)
             \/ \E b \in BOOLEAN : SetParsing(b)
      PROVE  Goal
  BY <1>7, <1>s DEF SuspendPendingRequests, ResumePendingRequests, ServeReturn, TimerFires,
     SnapshotHosts, SweepReturn, SweepHost, SetParsing, vars
<1> HIDE DEF Goal
<1>8. Goal
  <2>1. CASE Callers
    BY <1>1, <1>5, <1>6, <1>7, <2>1 DEF Callers
  <2>2. CASE Network
    BY <1>2, <1>6, <2>2 DEF Network
  <2>3. CASE Scheduler
    BY <1>3, <1>7, <2>3 DEF Scheduler
  <2>4. CASE \E l \in Loaders : Ending(l)
    <3>1. PICK l \in Loaders : Ending(l)
      BY <2>4
    <3>2. ReleaseResources(l) \/ EndReturnsEarly(l) \/ LeaveDocumentLoader(l)
      BY <3>1 DEF Ending
    <3> QED  BY <1>4, <1>6, <3>2
  <2>5. CASE TimerFires \/ ResumePendingRequests \/ UNCHANGED vars
    BY <1>7, <2>5
  <2> QED  BY <2>1, <2>2, <2>3, <2>4, <2>5 DEF Next
<1> QED  BY <1>8 DEF Goal

\* The scheduler implements LoadSlots when the embedder leaves requests alone:
\* through queues, sweeps, redirects, restarts and calls from inside callbacks, a
\* load takes one slot, within the limit, and gives it back once
\* (ResourceLoadScheduler, ResourceLoader::releaseResources).
THEOREM SchedulerImplementsLoadSlots ==
    InitialSend \subseteq {"keep"} => (Spec => ImplementsLoadSlots)
<1> SUFFICES ASSUME InitialSend \subseteq {"keep"}
             PROVE  Spec => ImplementsLoadSlots
  OBVIOUS
<1>1. Init => RefinementInv
  BY InitSlots DEF Init, RefinementInv, EndersBegan, ToSet
<1>2. RefinementInv /\ [Next]_vars => RefinementInv'
  BY SlotStep, EndersStep DEF RefinementInv
<1>3. Init => Slots!Init
  <2> SUFFICES ASSUME Init PROVE Slots!Init
    OBVIOUS
  <2>1. slotStatus = phaseStatus /\ slotHost = phaseHost
    BY <1>1, MappingReadsPhases DEF RefinementInv, ReadsPhases
  <2>2. phaseStatus = [l \in Loaders |-> "unscheduled"]
    BY DEF Init, phaseStatus
  <2>3. phaseHost = [l \in Loaders |-> NonHTTP]
    BY DEF Init, phaseHost, Active
  <2> QED  BY <2>1, <2>2, <2>3 DEF Slots!Init
<1>4. RefinementInv /\ [Next]_vars => [Slots!Next]_<<slotStatus, slotHost>>
  BY SlotsStep
<1> QED  BY <1>1, <1>2, <1>3, <1>4, PTL DEF Spec, ImplementsLoadSlots, Slots!Spec

=============================================================================
