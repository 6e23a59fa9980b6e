----------------------------- MODULE WorkersProofs -----------------------------
(***************************************************************************)
(* Proofs about Workers for any number of messages and loads: the proxy    *)
(* is deleted after everything that points to it, and both directions      *)
(* between the page and the script implement MessageChannel, however early *)
(* or often the worker is terminated, closed or collected.                 *)
(***************************************************************************)
EXTENDS Workers, Integers, SequenceTheorems, TLAPS

(***************************************************************************)
(* Where a kind of task is in a queue, and how the operations on queues    *)
(* change that.                                                            *)
(***************************************************************************)
Places(queue, kind) == {i \in DOMAIN queue : queue[i].kind = kind}

LEMMA PlacesAfterAppend ==
    ASSUME NEW S, NEW q \in Seq(S), NEW t \in S, NEW kind
    PROVE  /\ Append(q, t) \in Seq(S)
           /\ t.kind # kind => Places(Append(q, t), kind) = Places(q, kind)
           /\ t.kind = kind => Places(Append(q, t), kind) = Places(q, kind) \cup {Len(q) + 1}
<1>1. /\ Append(q, t) \in Seq(S)
      /\ DOMAIN Append(q, t) = 1..(Len(q) + 1)
      /\ DOMAIN q = 1..Len(q) /\ Len(q) \in Nat
      /\ \A i \in 1..Len(q) : Append(q, t)[i] = q[i]
      /\ Append(q, t)[Len(q) + 1] = t
  OBVIOUS
<1> QED  BY <1>1 DEF Places

LEMMA OtherAppended ==
    ASSUME NEW S, NEW q \in Seq(S), NEW t \in S, NEW kind, t.kind # kind
    PROVE  Append(q, t) \in Seq(S) /\ Places(Append(q, t), kind) = Places(q, kind)
BY PlacesAfterAppend

LEMMA FirstAppended ==
    ASSUME NEW S, NEW q \in Seq(S), NEW t \in S, Places(q, t.kind) = {}
    PROVE  /\ Append(q, t) \in Seq(S)
           /\ Places(Append(q, t), t.kind) = {Len(Append(q, t))}
<1>1. Len(Append(q, t)) = Len(q) + 1
  OBVIOUS
<1> QED  BY <1>1, PlacesAfterAppend

LEMMA PlacesAfterTail ==
    ASSUME NEW S, NEW q \in Seq(S), q # <<>>, NEW kind
    PROVE  /\ Tail(q) \in Seq(S)
           /\ Head(q) \in S
           /\ \A i \in Places(Tail(q), kind) : i + 1 \in Places(q, kind) /\ i \in Nat \ {0}
           /\ Head(q).kind = kind => 1 \in Places(q, kind)
           /\ Len(Tail(q)) = Len(q) - 1 /\ Len(q) \in Nat
<1>1. /\ Tail(q) \in Seq(S) /\ Head(q) \in S /\ Head(q) = q[1]
      /\ Len(q) \in Nat \ {0} /\ Len(Tail(q)) = Len(q) - 1
      /\ \A i \in 1..(Len(q) - 1) : Tail(q)[i] = q[i + 1]
  BY HeadTailProperties
<1>2. DOMAIN q = 1..Len(q) /\ DOMAIN Tail(q) = 1..(Len(q) - 1)
  BY <1>1
<1> QED  BY <1>1, <1>2 DEF Places

LEMMA PlacesAfterConcat ==
    ASSUME NEW S, NEW q \in Seq(S), NEW r \in Seq(S), NEW kind, Places(r, kind) = {}
    PROVE  q \o r \in Seq(S) /\ Places(q \o r, kind) = Places(q, kind)
<1>1. /\ q \o r \in Seq(S) /\ Len(q \o r) = Len(q) + Len(r)
      /\ \A i \in 1..(Len(q) + Len(r)) :
            (q \o r)[i] = IF i <= Len(q) THEN q[i] ELSE r[i - Len(q)]
  BY ConcatProperties
<1>2. /\ Len(q) \in Nat /\ Len(r) \in Nat
      /\ DOMAIN q = 1..Len(q) /\ DOMAIN r = 1..Len(r)
  OBVIOUS
<1>3. DOMAIN (q \o r) = 1..(Len(q) + Len(r))
  BY <1>1
<1>4. ASSUME NEW i \in 1..(Len(q) + Len(r)), ~(i <= Len(q))
      PROVE  (q \o r)[i].kind # kind
  <2>1. i - Len(q) \in 1..Len(r)
    BY <1>2, <1>4
  <2> QED  BY <1>1, <1>2, <1>4, <2>1 DEF Places
<1> QED  BY <1>1, <1>2, <1>3, <1>4 DEF Places

LEMMA PlacesAfterRemove ==
    ASSUME NEW S, NEW q \in Seq(S), NEW i \in DOMAIN q
    PROVE  /\ RemoveAt(q, i) \in Seq(S)
           /\ \A j \in DOMAIN RemoveAt(q, i) :
                \E k \in DOMAIN q : k # i /\ RemoveAt(q, i)[j] = q[k]
<1> DEFINE a == SubSeq(q, 1, i - 1)
           b == SubSeq(q, i + 1, Len(q))
<1>1. Len(q) \in Nat /\ DOMAIN q = 1..Len(q) /\ i \in 1..Len(q)
  OBVIOUS
<1>2. a \in Seq(S) /\ Len(a) = i - 1 /\ \A j \in 1..(i - 1) : a[j] = q[j]
  BY <1>1
<1>3. b \in Seq(S) /\ Len(b) = Len(q) - i /\ \A j \in 1..(Len(q) - i) : b[j] = q[i + j]
  BY <1>1
<1>4. RemoveAt(q, i) = a \o b
  BY DEF RemoveAt
<1> HIDE DEF a, b
<1>5. /\ a \o b \in Seq(S) /\ Len(a \o b) = Len(a) + Len(b)
      /\ \A j \in 1..(Len(a) + Len(b)) :
            (a \o b)[j] = IF j <= Len(a) THEN a[j] ELSE b[j - Len(a)]
  BY <1>2, <1>3, ConcatProperties
<1>6. DOMAIN (a \o b) = 1..(Len(a) + Len(b))
  BY <1>5
<1>7. ASSUME NEW j \in 1..(Len(a) + Len(b))
      PROVE  \E k \in DOMAIN q : k # i /\ (a \o b)[j] = q[k]
  <2>1. CASE j <= Len(a)
    <3>1. j \in DOMAIN q /\ j # i
      BY <1>1, <1>2, <2>1
    <3>2. (a \o b)[j] = q[j]
      BY <1>1, <1>2, <1>5, <2>1
    <3> QED  BY <3>1, <3>2
  <2>2. CASE ~(j <= Len(a))
    <3>1. j - Len(a) \in 1..(Len(q) - i) /\ i + (j - Len(a)) = j + 1
      BY <1>1, <1>2, <1>3, <2>2
    <3>2. (a \o b)[j] = q[j + 1]
      BY <1>3, <1>5, <2>2, <3>1
    <3>3. j + 1 \in DOMAIN q /\ j + 1 # i
      BY <1>1, <1>2, <1>3, <2>2
    <3> QED  BY <3>2, <3>3
  <2> QED  BY <2>1, <2>2
<1> QED  BY <1>4, <1>5, <1>6, <1>7

(***************************************************************************)
(* The inductive invariant: what of the state's type the proof uses; a     *)
(* load is at one place at a time, and then the worker waits for it; when  *)
(* the context's end is announced, nothing follows; and the proxy knows    *)
(* whether there is a thread.                                              *)
(***************************************************************************)
MessageTask == {Message(n) : n \in 1..MaxPosts}

Typing ==
    /\ proxy \in [object : BOOLEAN, thread : BOOLEAN, asked : BOOLEAN, deleted : BOOLEAN,
                  unconfirmed : Int, hadPending : BOOLEAN, early : Seq(MessageTask)]
    /\ source \in {"loading", "loaded", "failed"}
    /\ worker \in [phase : Phases, task : {"none", "init", "message", "timer"},
                   active : BOOLEAN, closing : BOOLEAN, terminated : BOOLEAN,
                   queue : Seq(WorkerTask), killed : BOOLEAN]
    /\ mainQueue \in Seq(MainTask)
    /\ loader \in BOOLEAN
    /\ posted \in Nat /\ said \in Nat /\ thrown \in Nat

Requested == Places(mainQueue, "load")

Answered == Places(worker.queue, "answer")

OneLoad ==
    /\ Requested # {} \/ loader \/ Answered # {} => worker.phase = "load"
    /\ ~(Requested # {} /\ loader)
    /\ ~(Requested # {} /\ Answered # {})
    /\ ~(loader /\ Answered # {})
    /\ \A i, j \in Requested : i = j
    /\ \A i, j \in Answered : i = j

DestroyedIsLast ==
    \A i \in Places(mainQueue, "destroyed") :
        i = Len(mainQueue) /\ worker.phase = "ended" /\ proxy.thread

ThreadIsKnown ==
    /\ source = "loaded" <=> worker.phase # "none"
    /\ source = "loading" => proxy.object
    /\ ~proxy.thread => worker.phase \in {"none", "ended"} /\ mainQueue = <<>>
    /\ worker.phase = "none" => ~proxy.thread

ProxyInv == Typing /\ OneLoad /\ DestroyedIsLast /\ ThreadIsKnown /\ ProxyOutlivesItsUsers

(***************************************************************************)
(* Tasks that are posted to the main thread, other than loads and the end  *)
(* of the context, change neither of their places.                         *)
(***************************************************************************)
LEMMA OrdinaryTask ==
    ASSUME Typing, NEW t \in MainTask, t.kind \notin {"load", "destroyed"},
           mainQueue' = Append(mainQueue, t)
    PROVE  /\ mainQueue' \in Seq(MainTask)
           /\ Requested' = Requested
           /\ Places(mainQueue', "destroyed") = Places(mainQueue, "destroyed")
BY PlacesAfterAppend DEF Typing, Requested

(***************************************************************************)
(* While the thread lives, nothing announces its end.                      *)
(***************************************************************************)
LEMMA LivingThread ==
    ASSUME ProxyInv, worker.phase \notin {"none", "ended"}
    PROVE  /\ proxy.thread /\ ~proxy.deleted
           /\ source = "loaded"
           /\ Places(mainQueue, "destroyed") = {}
BY DEF ProxyInv, DestroyedIsLast, ThreadIsKnown, ProxyOutlivesItsUsers, Typing

(***************************************************************************)
(* A step of the worker's thread that goes on living: what it posts, and   *)
(* what it does to its own queue, leaves the loads alone.                  *)
(***************************************************************************)
LEMMA ThreadGoesOn ==
    ASSUME ProxyInv, Typing',
           worker.phase \notin {"none", "ended"}, worker'.phase \notin {"none", "ended"},
           UNCHANGED <<proxy, source, loader>>,
           Places(mainQueue', "destroyed") = {},
           OneLoad'
    PROVE  ProxyInv'
<1>1. proxy.thread /\ ~proxy.deleted /\ source = "loaded"
  BY LivingThread
<1>2. DestroyedIsLast'
  BY DEF DestroyedIsLast
<1>3. ThreadIsKnown'
  BY <1>1 DEF ThreadIsKnown
<1>4. ProxyOutlivesItsUsers'
  BY <1>1 DEF ProxyOutlivesItsUsers
<1> QED  BY <1>2, <1>3, <1>4 DEF ProxyInv

(***************************************************************************)
(* The page asks the thread to stop.                                       *)
(***************************************************************************)
LEMMA StopProperties ==
    ASSUME Typing
    PROVE  /\ Stop(worker) \in [phase : Phases, task : {"none", "init", "message", "timer"},
                                active : BOOLEAN, closing : BOOLEAN, terminated : BOOLEAN,
                                queue : Seq(WorkerTask), killed : BOOLEAN]
           /\ Stop(worker).phase = worker.phase
           /\ Places(Stop(worker).queue, "answer") = Places(worker.queue, "answer")
<1>1. Simple("start") \in WorkerTask /\ Simple("start").kind # "answer"
  BY DEF WorkerTask, Simple
<1>2. /\ Append(worker.queue, Simple("start")) \in Seq(WorkerTask)
      /\ Places(Append(worker.queue, Simple("start")), "answer") = Places(worker.queue, "answer")
  BY <1>1, PlacesAfterAppend DEF Typing
<1> QED  BY <1>2 DEF Stop, Typing

(***************************************************************************)
(* A step of the page that leaves both ends where they are.                *)
(***************************************************************************)
LEMMA PageGoesOn ==
    ASSUME ProxyInv, Typing', OneLoad', DestroyedIsLast',
           source' = source, worker'.phase = worker.phase,
           proxy'.object = proxy.object, proxy'.thread = proxy.thread, proxy'.deleted = proxy.deleted,
           mainQueue = <<>> => mainQueue' = <<>>,
           loader' => loader \/ mainQueue # <<>>
    PROVE  ProxyInv'
<1>1. ThreadIsKnown'
  BY DEF ProxyInv, ThreadIsKnown
<1>2. ProxyOutlivesItsUsers'
  BY DEF ProxyInv, Typing, ProxyOutlivesItsUsers
<1> QED  BY <1>1, <1>2 DEF ProxyInv

(***************************************************************************)
(* The next task of the main thread leaves the queue.                      *)
(***************************************************************************)
LEMMA TaskTaken ==
    ASSUME ProxyInv, mainQueue # <<>>, mainQueue' = Tail(mainQueue)
    PROVE  /\ mainQueue' \in Seq(MainTask)
           /\ Head(mainQueue) \in MainTask
           /\ Requested' # {} => Requested # {} /\ Head(mainQueue).kind # "load"
           /\ \A i, j \in Requested' : i = j
           /\ \A i \in Places(mainQueue', "destroyed") :
                i = Len(mainQueue') /\ worker.phase = "ended" /\ proxy.thread
           /\ Head(mainQueue).kind = "destroyed" =>
                mainQueue' = <<>> /\ worker.phase = "ended" /\ proxy.thread
<1>1. mainQueue \in Seq(MainTask)
  BY DEF ProxyInv, Typing
<1>2. /\ mainQueue' \in Seq(MainTask) /\ Head(mainQueue) \in MainTask
      /\ Len(mainQueue) \in Nat /\ Len(mainQueue') = Len(mainQueue) - 1
  BY <1>1, PlacesAfterTail
<1>3. /\ \A i \in Requested' : i + 1 \in Requested /\ i \in Nat \ {0}
      /\ Head(mainQueue).kind = "load" => 1 \in Requested
  BY <1>1, PlacesAfterTail DEF Requested
<1>4. /\ \A i \in Places(mainQueue', "destroyed") :
            i + 1 \in Places(mainQueue, "destroyed") /\ i \in Nat \ {0}
      /\ Head(mainQueue).kind = "destroyed" => 1 \in Places(mainQueue, "destroyed")
  BY <1>1, PlacesAfterTail
<1>5. \A i, j \in Requested : i = j
  BY DEF ProxyInv, OneLoad
<1>6. \A i \in Places(mainQueue, "destroyed") :
            i = Len(mainQueue) /\ worker.phase = "ended" /\ proxy.thread
  BY DEF ProxyInv, DestroyedIsLast
<1>7. \A i, j \in Requested' : i = j
  <2>1. ASSUME NEW i \in Requested', NEW j \in Requested' PROVE i = j
    <3>1. i + 1 = j + 1 /\ i \in Nat /\ j \in Nat
      BY <1>3, <1>5, <2>1
    <3> QED  BY <3>1
  <2> QED  BY <2>1
<1>8. Requested' # {} => Requested # {} /\ Head(mainQueue).kind # "load"
  <2>1. ASSUME NEW i \in Requested', Head(mainQueue).kind = "load" PROVE FALSE
    <3>1. i + 1 = 1 /\ i \in Nat \ {0}
      BY <1>3, <1>5, <2>1
    <3> QED  BY <3>1
  <2> QED  BY <1>3, <2>1
<1>9. \A i \in Places(mainQueue', "destroyed") :
            i = Len(mainQueue') /\ worker.phase = "ended" /\ proxy.thread
  <2>1. ASSUME NEW i \in Places(mainQueue', "destroyed")
        PROVE  i = Len(mainQueue') /\ worker.phase = "ended" /\ proxy.thread
    <3>1. i + 1 = Len(mainQueue) /\ i \in Nat
      BY <1>4, <1>6, <2>1
    <3>2. worker.phase = "ended" /\ proxy.thread
      BY <1>4, <1>6, <2>1
    <3>3. i = Len(mainQueue) - 1
      BY <3>1
    <3>4. i = Len(mainQueue')
      BY Zenon, <1>2, <3>3
    <3> QED  BY <3>2, <3>4
  <2> QED  BY <2>1
<1>10. ASSUME Head(mainQueue).kind = "destroyed"
       PROVE  mainQueue' = <<>> /\ worker.phase = "ended" /\ proxy.thread
  <2>1. Len(mainQueue) = 1 /\ worker.phase = "ended" /\ proxy.thread
    BY <1>4, <1>6, <1>10
  <2>2. Len(mainQueue') = 0
    BY <1>2, <2>1
  <2> QED  BY <1>2, <2>1, <2>2, EmptySeq
<1> QED  BY <1>2, <1>7, <1>8, <1>9, <1>10

(***************************************************************************)
(* The invariant holds initially.                                          *)
(***************************************************************************)
LEMMA InvInit == Init => ProxyInv
<1> SUFFICES ASSUME Init PROVE ProxyInv
  OBVIOUS
<1>1. Typing
  <2>1. <<>> \in Seq(MessageTask) /\ <<>> \in Seq(WorkerTask) /\ <<>> \in Seq(MainTask)
    OBVIOUS
  <2>2. /\ proxy \in [object : BOOLEAN, thread : BOOLEAN, asked : BOOLEAN, deleted : BOOLEAN,
                      unconfirmed : Int, hadPending : BOOLEAN, early : Seq(MessageTask)]
        /\ worker \in [phase : Phases, task : {"none", "init", "message", "timer"},
                       active : BOOLEAN, closing : BOOLEAN, terminated : BOOLEAN,
                       queue : Seq(WorkerTask), killed : BOOLEAN]
    BY <2>1 DEF Init, Phases
  <2> QED  BY <2>1, <2>2 DEF Init, Typing
<1>2. Requested = {} /\ Answered = {} /\ Places(mainQueue, "destroyed") = {}
  BY DEF Init, Requested, Answered, Places
<1> QED
  BY <1>1, <1>2
  DEF Init, ProxyInv, OneLoad, DestroyedIsLast, ThreadIsKnown, ProxyOutlivesItsUsers

(***************************************************************************)
(* The page's steps.                                                       *)
(***************************************************************************)
LEMMA MessageTasks ==
    /\ MessageTask \subseteq WorkerTask
    /\ \A t \in MessageTask : t.kind = "message"
BY DEF MessageTask, WorkerTask, Message

LEMMA InvPostMessage ==
    ASSUME ProxyInv, PostMessage PROVE ProxyInv'
<1>0. Typing
  BY DEF ProxyInv
<1>p. /\ posted < MaxPosts /\ posted' = posted + 1
      /\ UNCHANGED <<source, mainQueue, loader, said, thrown>>
      /\ IF proxy.thread
         THEN /\ proxy' = [proxy EXCEPT !.unconfirmed = @ + 1]
              /\ worker' = [worker EXCEPT !.queue = Append(@, Message(posted'))]
         ELSE /\ proxy' = [proxy EXCEPT !.early = Append(@, Message(posted'))]
              /\ worker' = worker
  BY DEF PostMessage
<1>1. Message(posted') \in MessageTask
  <2>1. posted' \in 1..MaxPosts
    BY <1>0, <1>p, BoundsAssumption DEF Typing
  <2> QED  BY <2>1 DEF MessageTask
<1>2. Message(posted') \in WorkerTask /\ Message(posted').kind = "message"
  BY <1>1, MessageTasks
<1>3. /\ Append(worker.queue, Message(posted')) \in Seq(WorkerTask)
      /\ Places(Append(worker.queue, Message(posted')), "answer") = Answered
  BY <1>0, <1>2, PlacesAfterAppend DEF Typing, Answered
<1>4. Append(proxy.early, Message(posted')) \in Seq(MessageTask)
  BY <1>0, <1>1 DEF Typing
<1>5. /\ proxy'.object = proxy.object /\ proxy'.thread = proxy.thread
      /\ proxy'.deleted = proxy.deleted /\ worker'.phase = worker.phase
      /\ Answered' = Answered
  BY <1>0, <1>3, <1>p DEF Typing, Answered
<1>6. Typing'
  <2>1. /\ proxy' \in [object : BOOLEAN, thread : BOOLEAN, asked : BOOLEAN, deleted : BOOLEAN,
                       unconfirmed : Int, hadPending : BOOLEAN, early : Seq(MessageTask)]
        /\ worker' \in [phase : Phases, task : {"none", "init", "message", "timer"},
                        active : BOOLEAN, closing : BOOLEAN, terminated : BOOLEAN,
                        queue : Seq(WorkerTask), killed : BOOLEAN]
    <3>1. CASE proxy.thread
      <4>1. /\ proxy' = [proxy EXCEPT !.unconfirmed = @ + 1]
            /\ worker' = [worker EXCEPT !.queue = Append(@, Message(posted'))]
        BY <1>p, <3>1
      <4>2. proxy.unconfirmed + 1 \in Int
        BY <1>0 DEF Typing
      <4> QED  BY <1>0, <1>3, <4>1, <4>2 DEF Typing
    <3>2. CASE ~proxy.thread
      <4>1. /\ proxy' = [proxy EXCEPT !.early = Append(@, Message(posted'))]
            /\ worker' = worker
        BY <1>p, <3>2
      <4> QED  BY <1>0, <1>4, <4>1 DEF Typing
    <3> QED  BY <3>1, <3>2
  <2>2. posted' \in Nat /\ UNCHANGED <<source, mainQueue, loader, said, thrown>>
    BY <1>0, <1>p DEF Typing
  <2> QED  BY <1>0, <2>1, <2>2 DEF Typing
<1>7. OneLoad'
  BY <1>5, <1>p DEF ProxyInv, OneLoad, Requested
<1>8. DestroyedIsLast'
  BY <1>5, <1>p DEF ProxyInv, DestroyedIsLast
<1> QED  BY <1>5, <1>6, <1>7, <1>8, <1>p, PageGoesOn

LEMMA InvTerminate ==
    ASSUME ProxyInv, TerminateWorkerContext, source' = source, loader' = loader,
           posted' = posted, said' = said, thrown' = thrown,
           mainQueue' \in Seq(MainTask),
           mainQueue = <<>> => mainQueue' = <<>>,
           Requested' # {} => Requested # {},
           \A i, j \in Requested' : i = j,
           \A i \in Places(mainQueue', "destroyed") :
                i = Len(mainQueue') /\ worker.phase = "ended" /\ proxy.thread
    PROVE  ProxyInv'
<1> USE DEF TerminateWorkerContext
<1>0. Typing
  BY DEF ProxyInv
<1>1. /\ proxy'.object = proxy.object /\ proxy'.thread = proxy.thread
      /\ proxy'.deleted = proxy.deleted
  BY <1>0 DEF Typing
<1>2. /\ worker'.phase = worker.phase /\ Answered' = Answered
      /\ worker' \in [phase : Phases, task : {"none", "init", "message", "timer"},
                      active : BOOLEAN, closing : BOOLEAN, terminated : BOOLEAN,
                      queue : Seq(WorkerTask), killed : BOOLEAN]
  BY <1>0, StopProperties DEF Typing, Answered
<1>3. Typing'
  BY <1>0, <1>2 DEF Typing
<1>4. OneLoad'
  BY <1>2 DEF ProxyInv, OneLoad
<1>5. DestroyedIsLast'
  BY <1>1, <1>2 DEF DestroyedIsLast
<1> QED  BY <1>1, <1>2, <1>3, <1>4, <1>5, PageGoesOn

LEMMA InvNotifyFinished ==
    ASSUME ProxyInv, NotifyFinished PROVE ProxyInv'
<1>0. Typing
  BY DEF ProxyInv
<1>1. /\ worker.phase = "none" /\ ~proxy.thread /\ mainQueue = <<>> /\ ~proxy.deleted
      /\ proxy.object /\ UNCHANGED <<mainQueue, loader, posted, said, thrown>> /\ source = "loading"
  BY <1>0 DEF NotifyFinished, ProxyInv, ThreadIsKnown, ProxyOutlivesItsUsers, history, Typing
<1>2. Requested = {} /\ Answered = {} /\ ~loader /\ Places(mainQueue, "destroyed") = {}
  BY <1>1 DEF ProxyInv, OneLoad, DestroyedIsLast
<1>3. CASE source' = "failed" /\ UNCHANGED <<proxy, worker>>
  BY <1>0, <1>1, <1>2, <1>3
  DEF ProxyInv, Typing, OneLoad, DestroyedIsLast, ThreadIsKnown, ProxyOutlivesItsUsers, Requested, Answered
<1>4. CASE source' = "loaded" /\ \E started \in Starts : WorkerThreadCreated(worker, started)
  <2>1. PICK started \in Starts : WorkerThreadCreated(worker, started)
    BY <1>4
  <2>2. /\ worker.queue \o proxy.early \in Seq(WorkerTask)
        /\ Places(worker.queue \o proxy.early, "answer") = {}
    <3>1. proxy.early \in Seq(WorkerTask) /\ Places(proxy.early, "answer") = {}
      BY <1>0, MessageTasks DEF Typing, Places
    <3> QED  BY <1>0, <1>2, <3>1, PlacesAfterConcat DEF Typing, Answered
  <2>3. Len(proxy.early) \in Int /\ <<>> \in Seq(MessageTask)
    BY <1>0 DEF Typing
  <2>4. /\ proxy' \in [object : BOOLEAN, thread : BOOLEAN, asked : BOOLEAN, deleted : BOOLEAN,
                       unconfirmed : Int, hadPending : BOOLEAN, early : Seq(MessageTask)]
        /\ proxy'.object /\ proxy'.thread /\ ~proxy'.deleted
    <3>1. CASE proxy.asked
      <4>1. proxy' = [proxy EXCEPT !.thread = TRUE]
        BY <2>1, <3>1 DEF WorkerThreadCreated
      <4> QED  BY <1>0, <1>1, <4>1 DEF Typing
    <3>2. CASE ~proxy.asked
      <4>1. proxy' = [proxy EXCEPT !.thread = TRUE, !.hadPending = TRUE,
                                   !.unconfirmed = Len(proxy.early), !.early = <<>>]
        BY <2>1, <3>2 DEF WorkerThreadCreated, AdoptEarlyTasks
      <4> QED  BY <1>0, <1>1, <2>3, <4>1 DEF Typing
    <3> QED  BY <3>1, <3>2
  <2>5. /\ worker' \in [phase : Phases, task : {"none", "init", "message", "timer"},
                        active : BOOLEAN, closing : BOOLEAN, terminated : BOOLEAN,
                        queue : Seq(WorkerTask), killed : BOOLEAN]
        /\ worker'.phase \in {"created", "failed"}
        /\ Answered' = {}
    <3>1. PICK p \in {"created", "failed"} :
            \/ worker' = [worker EXCEPT !.phase = p, !.killed = TRUE]
            \/ worker' = [worker EXCEPT !.phase = p, !.queue = @ \o proxy.early]
      BY <1>0, <2>1 DEF WorkerThreadCreated, Typing
    <3>2. CASE worker' = [worker EXCEPT !.phase = p, !.killed = TRUE]
      BY <1>0, <1>2, <3>2 DEF Typing, Phases, Answered
    <3>3. CASE worker' = [worker EXCEPT !.phase = p, !.queue = @ \o proxy.early]
      BY <1>0, <2>2, <3>3 DEF Typing, Phases, Answered
    <3> QED  BY <3>1, <3>2, <3>3
  <2>6. Typing'
    BY <1>0, <1>1, <1>4, <2>4, <2>5 DEF Typing
  <2>7. Requested' = {} /\ Places(mainQueue', "destroyed") = {} /\ ~loader'
    BY <1>1, <1>2 DEF Requested
  <2>8. OneLoad' /\ DestroyedIsLast'
    BY <2>5, <2>7 DEF OneLoad, DestroyedIsLast
  <2>9. ThreadIsKnown' /\ ProxyOutlivesItsUsers'
    BY <1>4, <2>4, <2>5 DEF ThreadIsKnown, ProxyOutlivesItsUsers
  <2> QED  BY <2>6, <2>8, <2>9 DEF ProxyInv
<1> QED  BY <1>3, <1>4 DEF NotifyFinished

LEMMA InvCollectWorker ==
    ASSUME ProxyInv, CollectWorker PROVE ProxyInv'
<1>0. Typing /\ UNCHANGED <<source, mainQueue, loader, posted, said, thrown>> /\ source # "loading"
  BY DEF ProxyInv, CollectWorker, history
<1>1. CASE proxy.thread
  <2>1. /\ proxy' = [proxy EXCEPT !.object = FALSE, !.asked = TRUE]
        /\ worker' = IF proxy.asked THEN worker ELSE Stop(worker)
    BY <1>1 DEF CollectWorker
  <2>2. ~proxy.deleted
    <3>1. proxy.object
      BY DEF CollectWorker
    <3> QED  BY <3>1 DEF ProxyInv, ProxyOutlivesItsUsers
  <2>3. /\ worker'.phase = worker.phase /\ Answered' = Answered
        /\ worker' \in [phase : Phases, task : {"none", "init", "message", "timer"},
                        active : BOOLEAN, closing : BOOLEAN, terminated : BOOLEAN,
                        queue : Seq(WorkerTask), killed : BOOLEAN]
    BY <1>0, <2>1, StopProperties DEF Typing, Answered
  <2>4. Typing' /\ proxy'.thread = proxy.thread /\ proxy'.deleted = proxy.deleted
    BY <1>0, <2>1, <2>3 DEF Typing
  <2>5. OneLoad' /\ DestroyedIsLast'
    BY <1>0, <2>3, <2>4 DEF ProxyInv, OneLoad, DestroyedIsLast, Requested
  <2>6. ThreadIsKnown'
    BY <1>0, <2>3, <2>4 DEF ProxyInv, ThreadIsKnown
  <2>7. ProxyOutlivesItsUsers'
    BY <2>2, <2>4 DEF ProxyOutlivesItsUsers
  <2> QED  BY <2>4, <2>5, <2>6, <2>7 DEF ProxyInv
<1>2. CASE ~proxy.thread
  <2>1. proxy' = WorkerContextDestroyed([proxy EXCEPT !.object = FALSE]) /\ worker' = worker
    BY <1>2 DEF CollectWorker
  <2>2. Typing' /\ ~proxy'.thread /\ ~proxy'.object
    BY <1>0, <2>1 DEF Typing, WorkerContextDestroyed
  <2>3. worker.phase \in {"none", "ended"} /\ mainQueue = <<>>
    BY <1>2 DEF ProxyInv, ThreadIsKnown
  <2>4. ~loader
    BY <2>3 DEF ProxyInv, OneLoad
  <2>5. OneLoad'
    BY <1>0, <2>1 DEF ProxyInv, OneLoad, Requested, Answered
  <2>6. DestroyedIsLast'
    BY <1>0, <2>3 DEF DestroyedIsLast, Places
  <2>7. ThreadIsKnown' /\ ProxyOutlivesItsUsers'
    BY <1>0, <2>1, <2>2, <2>3, <2>4 DEF ProxyInv, ThreadIsKnown, ProxyOutlivesItsUsers
  <2> QED  BY <2>2, <2>5, <2>6, <2>7 DEF ProxyInv
<1> QED  BY <1>1, <1>2

(***************************************************************************)
(* The main thread performs a task.                                        *)
(***************************************************************************)
LEMMA InvPerformMainTask ==
    ASSUME ProxyInv, PerformMainTask PROVE ProxyInv'
<1> DEFINE task == Head(mainQueue)
<1>0. Typing /\ OneLoad /\ DestroyedIsLast
  BY DEF ProxyInv
<1>1. /\ mainQueue # <<>> /\ mainQueue' = Tail(mainQueue)
      /\ UNCHANGED <<source, posted, said, thrown>>
  BY DEF PerformMainTask
<1>2. /\ mainQueue' \in Seq(MainTask)
      /\ task \in MainTask
      /\ Requested' # {} => Requested # {} /\ task.kind # "load"
      /\ \A i, j \in Requested' : i = j
      /\ \A i \in Places(mainQueue', "destroyed") :
            i = Len(mainQueue') /\ worker.phase = "ended" /\ proxy.thread
      /\ task.kind = "destroyed" =>
            mainQueue' = <<>> /\ worker.phase = "ended" /\ proxy.thread
  BY <1>1, TaskTaken
<1>3. task.kind = "load" => Requested # {}
  BY <1>0, <1>1, PlacesAfterTail DEF Typing, Requested
<1>4. proxy.thread /\ ~proxy.deleted
  BY <1>1 DEF ProxyInv, ThreadIsKnown, ProxyOutlivesItsUsers
<1> HIDE DEF task
\* A task that changes only the counters of the proxy.
<1>5. ASSUME UNCHANGED <<worker, loader>>,
             proxy' \in [object : BOOLEAN, thread : BOOLEAN, asked : BOOLEAN, deleted : BOOLEAN,
                         unconfirmed : Int, hadPending : BOOLEAN, early : Seq(MessageTask)],
             proxy'.object = proxy.object, proxy'.thread = proxy.thread,
             proxy'.deleted = proxy.deleted
      PROVE  ProxyInv'
  <2>1. Typing'
    BY <1>0, <1>1, <1>2, <1>5 DEF Typing
  <2>2. OneLoad'
    <3>1. Answered' = Answered /\ worker'.phase = worker.phase
      BY <1>5 DEF Answered
    <3> QED  BY <1>0, <1>2, <1>5, <3>1 DEF OneLoad
  <2>3. DestroyedIsLast'
    BY <1>2, <1>5 DEF DestroyedIsLast
  <2> QED  BY <1>1, <1>5, <2>1, <2>2, <2>3, PageGoesOn
<1>6. CASE ShowMessage(task.id) \/ ReportException
  BY <1>0, <1>5, <1>6 DEF ShowMessage, ReportException, Typing
<1>7. CASE task.kind = "report" /\ ReportPendingActivity(task.confirming, task.pending)
  <2>1. task.pending \in BOOLEAN
    BY <1>2, <1>7 DEF MainTask, Message, Simple, Report
  <2>2. proxy.unconfirmed - 1 \in Int /\ proxy.unconfirmed \in Int
    BY <1>0 DEF Typing
  <2> DEFINE n == IF task.confirming /\ ~proxy.asked
                  THEN proxy.unconfirmed - 1 ELSE proxy.unconfirmed
  <2>3. n \in Int
    BY <2>2
  <2>4. /\ proxy' = [proxy EXCEPT !.hadPending = task.pending, !.unconfirmed = n]
        /\ UNCHANGED <<worker, loader>>
    BY <1>0, <1>7 DEF ReportPendingActivity, Typing
  <2> HIDE DEF n
  <2> QED  BY <1>0, <1>5, <2>1, <2>3, <2>4 DEF Typing
<1>8. CASE TerminateWorkerContext /\ UNCHANGED <<loader, shown>>
  BY <1>1, <1>2, <1>8, InvTerminate
<1>9. CASE task.kind = "destroyed" /\ proxy' = WorkerContextDestroyed(proxy)
           /\ UNCHANGED <<worker, loader, shown>>
  <2>1. /\ Typing' /\ ~proxy'.thread /\ proxy'.object = proxy.object
        /\ proxy'.deleted = ~proxy.object
    <3>1. proxy' = [proxy EXCEPT !.asked = TRUE, !.thread = FALSE, !.deleted = ~proxy.object]
      BY <1>9 DEF WorkerContextDestroyed
    <3>2. /\ proxy' \in [object : BOOLEAN, thread : BOOLEAN, asked : BOOLEAN, deleted : BOOLEAN,
                          unconfirmed : Int, hadPending : BOOLEAN, early : Seq(MessageTask)]
          /\ ~proxy'.thread /\ proxy'.object = proxy.object
          /\ proxy'.deleted = ~proxy.object
      BY <1>0, <3>1 DEF Typing
    <3> QED  BY <1>0, <1>1, <1>2, <1>9, <3>2 DEF Typing
  <2>2. mainQueue' = <<>> /\ worker'.phase = "ended" /\ worker.phase = "ended"
    BY <1>2, <1>9
  <2>3. ~loader' /\ Requested' = {} /\ Answered' = {} /\ Places(mainQueue', "destroyed") = {}
    BY <1>0, <1>9, <2>2 DEF OneLoad, Requested, Answered, Places
  <2>4. OneLoad' /\ DestroyedIsLast'
    BY <2>3 DEF OneLoad, DestroyedIsLast
  <2>5. ThreadIsKnown'
    BY <1>1, <2>1, <2>2 DEF ProxyInv, ThreadIsKnown
  <2>6. ProxyOutlivesItsUsers'
    BY <1>0, <2>1, <2>2, <2>3 DEF ProxyOutlivesItsUsers, Typing
  <2> QED  BY <2>1, <2>4, <2>5, <2>6 DEF ProxyInv
<1>10. CASE task.kind = "load" /\ loader' = TRUE /\ UNCHANGED <<proxy, worker, shown>>
  <2>1. Typing'
    BY <1>0, <1>1, <1>2, <1>10 DEF Typing
  <2>2. Requested' = {} /\ Answered' = {} /\ worker'.phase = "load"
    BY <1>0, <1>2, <1>3, <1>10 DEF OneLoad, Answered
  <2>3. OneLoad' /\ DestroyedIsLast'
    BY <1>2, <1>10, <2>2 DEF OneLoad, DestroyedIsLast
  <2> QED  BY <1>1, <1>10, <2>1, <2>3, PageGoesOn
<1> QED
  BY <1>6, <1>7, <1>8, <1>9, <1>10 DEF PerformMainTask, task

(***************************************************************************)
(* A load ends on the main thread.                                         *)
(***************************************************************************)
LEMMA InvLoaderAnswers ==
    ASSUME ProxyInv, LoaderAnswers PROVE ProxyInv'
<1>0. Typing /\ OneLoad /\ DestroyedIsLast
  BY DEF ProxyInv
<1>1. /\ loader /\ loader' = FALSE
      /\ worker' = IF proxy.asked THEN worker
                   ELSE [worker EXCEPT !.queue = Append(@, Simple("answer"))]
      /\ UNCHANGED <<proxy, source, mainQueue, posted, said, thrown>>
  BY DEF LoaderAnswers, history
<1>2. Requested = {} /\ Answered = {} /\ worker.phase = "load"
  BY <1>0, <1>1 DEF OneLoad
<1>3. /\ Append(worker.queue, Simple("answer")) \in Seq(WorkerTask)
      /\ Places(Append(worker.queue, Simple("answer")), "answer") = {Len(worker.queue) + 1}
  <2>1. Simple("answer") \in WorkerTask /\ Simple("answer").kind = "answer"
    BY DEF WorkerTask, Simple
  <2>2. worker.queue \in Seq(WorkerTask) /\ Places(worker.queue, "answer") = {}
    BY <1>0, <1>2 DEF Typing, Answered
  <2>3. ASSUME NEW q \in Seq(WorkerTask), NEW t \in WorkerTask, t.kind = "answer",
               Places(q, "answer") = {}
        PROVE  /\ Append(q, t) \in Seq(WorkerTask)
               /\ Places(Append(q, t), "answer") = {Len(q) + 1}
    <3>1. Len(Append(q, t)) = Len(q) + 1
      OBVIOUS
    <3>2. Append(q, t) \in Seq(WorkerTask) /\ Places(Append(q, t), t.kind) = {Len(Append(q, t))}
      <4>1. Places(q, t.kind) = {}
        BY <2>3
      <4> QED  BY <4>1, FirstAppended
    <3> QED  BY <2>3, <3>1, <3>2
  <2> QED  BY <2>1, <2>2, <2>3
<1>4. /\ worker'.phase = "load"
      /\ \A i, j \in Answered' : i = j
      /\ worker' \in [phase : Phases, task : {"none", "init", "message", "timer"},
                      active : BOOLEAN, closing : BOOLEAN, terminated : BOOLEAN,
                      queue : Seq(WorkerTask), killed : BOOLEAN]
  BY <1>0, <1>1, <1>2, <1>3 DEF Typing, Answered
<1>5. Typing'
  BY <1>0, <1>1, <1>4 DEF Typing
<1>6. Requested' = {} /\ ~loader'
  BY <1>1, <1>2 DEF Requested
<1>7. OneLoad'
  BY <1>4, <1>6 DEF OneLoad
<1>8. DestroyedIsLast'
  BY <1>0, <1>1, <1>2 DEF DestroyedIsLast
<1> QED  BY <1>1, <1>2, <1>4, <1>5, <1>7, <1>8, PageGoesOn

(***************************************************************************)
(* A step of the worker's thread outside of a load, after which it goes on *)
(* living and waits for no load: it posts at most one ordinary task.       *)
(***************************************************************************)
OrdinaryPost ==
    \/ mainQueue' = mainQueue
    \/ \E t \in MainTask : t.kind \notin {"load", "destroyed"} /\ mainQueue' = Append(mainQueue, t)

LEMMA NoLoad ==
    ASSUME ProxyInv, worker.phase # "load"
    PROVE  Requested = {} /\ ~loader /\ Answered = {}
BY DEF ProxyInv, OneLoad

LEMMA InvOrdinaryStep ==
    ASSUME ProxyInv,
           worker.phase \notin {"none", "ended", "load"}, worker'.phase \notin {"none", "ended"},
           worker' \in [phase : Phases, task : {"none", "init", "message", "timer"},
                        active : BOOLEAN, closing : BOOLEAN, terminated : BOOLEAN,
                        queue : Seq(WorkerTask), killed : BOOLEAN],
           Answered' = {},
           UNCHANGED <<proxy, source, loader, posted>>, said' \in Nat, thrown' \in Nat,
           OrdinaryPost
    PROVE  ProxyInv'
<1>0. Typing
  BY DEF ProxyInv
<1>1. Requested = {} /\ ~loader /\ Places(mainQueue, "destroyed") = {}
  BY NoLoad, LivingThread
<1>2. mainQueue' \in Seq(MainTask) /\ Requested' = {} /\ Places(mainQueue', "destroyed") = {}
  <2>1. CASE mainQueue' = mainQueue
    BY <1>0, <1>1, <2>1 DEF Typing, Requested
  <2>2. ASSUME NEW t \in MainTask, t.kind \notin {"load", "destroyed"},
               mainQueue' = Append(mainQueue, t)
        PROVE  mainQueue' \in Seq(MainTask) /\ Requested' = {}
               /\ Places(mainQueue', "destroyed") = {}
    BY <1>0, <1>1, <2>2, OrdinaryTask
  <2> QED  BY <2>1, <2>2 DEF OrdinaryPost
<1>3. Typing'
  BY <1>0, <1>2 DEF Typing
<1>4. OneLoad'
  BY <1>1, <1>2 DEF OneLoad
<1> QED  BY <1>2, <1>3, <1>4, ThreadGoesOn

LEMMA MainTasks ==
    /\ \A n \in 1..MaxReplies : Message(n) \in MainTask /\ Message(n).kind = "message"
    /\ \A c, p \in BOOLEAN : Report(c, p) \in MainTask /\ Report(c, p).kind = "report"
    /\ \A k \in {"exception", "terminate", "destroyed", "load"} :
            Simple(k) \in MainTask /\ Simple(k).kind = k
<1>1. \A n \in 1..MaxReplies : Message(n) \in MainTask /\ Message(n).kind = "message"
  BY DEF MainTask, Message
<1>2. \A c, p \in BOOLEAN : Report(c, p) \in MainTask /\ Report(c, p).kind = "report"
  BY DEF MainTask, Report
<1>3. \A k \in {"exception", "terminate", "destroyed", "load"} :
            Simple(k) \in MainTask /\ Simple(k).kind = k
  BY DEF MainTask, Simple
<1> QED  BY <1>1, <1>2, <1>3

LEMMA WorkerTasks ==
    \A k \in {"close", "start", "finish", "answer"} :
        Simple(k) \in WorkerTask /\ Simple(k).kind = k
BY DEF WorkerTask, Simple

LEMMA InvCreateContext ==
    ASSUME ProxyInv, CreateContext PROVE ProxyInv'
<1>0. Typing /\ worker.phase = "created"
  BY DEF ProxyInv, CreateContext
<1>1. Answered = {}
  BY <1>0, NoLoad
<1>2. UNCHANGED <<proxy, source, loader, posted>> /\ said' \in Nat /\ thrown' \in Nat
  BY <1>0 DEF CreateContext, history, Typing
<1>3. OrdinaryPost
  BY MainTasks DEF CreateContext, OrdinaryPost
<1>4. /\ worker' \in [phase : Phases, task : {"none", "init", "message", "timer"},
                        active : BOOLEAN, closing : BOOLEAN, terminated : BOOLEAN,
                        queue : Seq(WorkerTask), killed : BOOLEAN]
      /\ worker'.phase \in {"script", "loop"} /\ worker'.queue = worker.queue
  BY <1>0 DEF CreateContext, Typing, Phases
<1> QED  BY <1>0, <1>1, <1>2, <1>3, <1>4, InvOrdinaryStep DEF Answered

(***************************************************************************)
(* The script's steps, but for a load.                                     *)
(***************************************************************************)
LEMMA InvScriptPosts ==
    ASSUME ProxyInv, ScriptPosts \/ ScriptThrows PROVE ProxyInv'
<1>0. Typing /\ worker.phase = "script" /\ Answered = {}
  BY NoLoad DEF ProxyInv, ScriptPosts, ScriptThrows
<1>1. UNCHANGED <<proxy, source, worker, loader, posted>>
  BY DEF ScriptPosts, ScriptThrows
<1>2. said' \in Nat /\ thrown' \in Nat /\ OrdinaryPost
  <2>1. CASE ScriptThrows
    BY <1>0, <2>1, MainTasks DEF ScriptThrows, OrdinaryPost, Typing
  <2>2. CASE ScriptPosts
    <3>1. said' = said + 1 /\ mainQueue' = Append(mainQueue, Message(said'))
      BY <2>2 DEF ScriptPosts
    <3>2. said' \in 1..MaxReplies /\ thrown' = thrown
      BY <1>0, <2>2, <3>1, BoundsAssumption DEF ScriptPosts, Typing
    <3>3. Message(said') \in MainTask /\ Message(said').kind = "message"
      BY <3>2, MainTasks
    <3>4. OrdinaryPost
      BY <3>1, <3>3 DEF OrdinaryPost
    <3> QED  BY <1>0, <3>2, <3>4 DEF Typing
  <2> QED  BY <2>1, <2>2
<1> QED  BY <1>0, <1>1, <1>2, InvOrdinaryStep DEF Typing, Answered

LEMMA InvScriptCloses ==
    ASSUME ProxyInv, ScriptCloses PROVE ProxyInv'
<1>0. Typing /\ worker.phase = "script" /\ Answered = {}
  BY NoLoad DEF ProxyInv, ScriptCloses
<1>1. /\ worker' = [worker EXCEPT !.closing = TRUE, !.queue = Append(@, Simple("close"))]
      /\ UNCHANGED <<proxy, source, loader, posted, said, thrown, mainQueue>>
  BY DEF ScriptCloses, history
<1>2. /\ Append(worker.queue, Simple("close")) \in Seq(WorkerTask)
      /\ Places(Append(worker.queue, Simple("close")), "answer") = {}
  <2>1. worker.queue \in Seq(WorkerTask) /\ Places(worker.queue, "answer") = {}
    BY <1>0 DEF Typing, Answered
  <2>2. Simple("close") \in WorkerTask /\ Simple("close").kind # "answer"
    BY WorkerTasks
  <2> QED  BY <2>1, <2>2, PlacesAfterAppend
<1>3. /\ worker' \in [phase : Phases, task : {"none", "init", "message", "timer"},
                        active : BOOLEAN, closing : BOOLEAN, terminated : BOOLEAN,
                        queue : Seq(WorkerTask), killed : BOOLEAN]
      /\ worker'.phase = "script" /\ Answered' = {}
  BY <1>0, <1>1, <1>2 DEF Typing, Answered
<1> QED  BY <1>0, <1>1, <1>3, InvOrdinaryStep DEF OrdinaryPost, Typing

LEMMA InvScriptChangesActivity ==
    ASSUME ProxyInv, ScriptChangesActivity PROVE ProxyInv'
<1>0. Typing /\ worker.phase = "script" /\ Answered = {}
  BY NoLoad DEF ProxyInv, ScriptChangesActivity
<1>1. /\ worker' = [worker EXCEPT !.active = ~@]
      /\ UNCHANGED <<proxy, source, loader, posted, said, thrown, mainQueue>>
  BY DEF ScriptChangesActivity, history
<1>2. /\ worker' \in [phase : Phases, task : {"none", "init", "message", "timer"},
                        active : BOOLEAN, closing : BOOLEAN, terminated : BOOLEAN,
                        queue : Seq(WorkerTask), killed : BOOLEAN]
      /\ worker'.phase = "script" /\ Answered' = {}
  BY <1>0, <1>1 DEF Typing, Answered
<1> QED  BY <1>0, <1>1, <1>2, InvOrdinaryStep DEF OrdinaryPost, Typing

LEMMA InvScriptEnds ==
    ASSUME ProxyInv, ScriptEnds PROVE ProxyInv'
<1>0. Typing /\ worker.phase = "script" /\ Answered = {}
  BY NoLoad DEF ProxyInv, ScriptEnds
<1>1. /\ worker' = [worker EXCEPT !.phase = "loop", !.task = "none"]
      /\ UNCHANGED <<proxy, source, loader, posted, said, thrown>>
  BY DEF ScriptEnds, history
<1>2. /\ worker' \in [phase : Phases, task : {"none", "init", "message", "timer"},
                        active : BOOLEAN, closing : BOOLEAN, terminated : BOOLEAN,
                        queue : Seq(WorkerTask), killed : BOOLEAN]
      /\ worker'.phase = "loop" /\ Answered' = {}
  BY <1>0, <1>1 DEF Typing, Phases, Answered
<1>3. OrdinaryPost
  BY <1>0, MainTasks DEF ScriptEnds, OrdinaryPost, Typing
<1> QED  BY <1>0, <1>1, <1>2, <1>3, InvOrdinaryStep DEF Typing

(***************************************************************************)
(* A synchronous load begins, and ends.                                    *)
(***************************************************************************)
LEMMA InvScriptLoads ==
    ASSUME ProxyInv, ScriptLoads PROVE ProxyInv'
<1>0. Typing /\ worker.phase = "script" /\ mainQueue \in Seq(MainTask)
  BY DEF ProxyInv, ScriptLoads, Typing
<1>1. /\ worker' = [worker EXCEPT !.phase = "load"]
      /\ mainQueue' = Append(mainQueue, Simple("load"))
      /\ UNCHANGED <<proxy, source, loader, posted, said, thrown>>
  BY DEF ScriptLoads, history
<1>2. /\ Requested = {} /\ ~loader /\ Answered = {}
      /\ Places(mainQueue, "destroyed") = {}
  BY <1>0, NoLoad, LivingThread
<1>3. /\ mainQueue' \in Seq(MainTask)
      /\ Requested' = {Len(mainQueue')}
      /\ Places(mainQueue', "destroyed") = {}
  <2>1. ASSUME NEW q \in Seq(MainTask), NEW t \in MainTask, t.kind = "load",
               Places(q, "load") = {}, Places(q, "destroyed") = {}
        PROVE  /\ Append(q, t) \in Seq(MainTask)
               /\ Places(Append(q, t), "load") = {Len(Append(q, t))}
               /\ Places(Append(q, t), "destroyed") = {}
    <3>1. t.kind # "destroyed"
      BY <2>1
    <3>2. Places(Append(q, t), "destroyed") = {}
      BY <2>1, <3>1, OtherAppended
    <3>3. Places(q, t.kind) = {}
      BY <2>1
    <3>4. Append(q, t) \in Seq(MainTask) /\ Places(Append(q, t), t.kind) = {Len(Append(q, t))}
      BY <3>3, FirstAppended
    <3> QED  BY <2>1, <3>2, <3>4
  <2> QED  BY <1>0, <1>1, <1>2, <2>1, MainTasks DEF Requested
<1>4. /\ worker' \in [phase : Phases, task : {"none", "init", "message", "timer"},
                        active : BOOLEAN, closing : BOOLEAN, terminated : BOOLEAN,
                        queue : Seq(WorkerTask), killed : BOOLEAN]
      /\ worker'.phase = "load" /\ Answered' = {}
  BY <1>0, <1>1, <1>2 DEF Typing, Phases, Answered
<1>5. Typing'
  BY <1>0, <1>1, <1>3, <1>4 DEF Typing
<1>6. OneLoad'
  BY <1>1, <1>2, <1>3, <1>4 DEF OneLoad
<1> QED  BY <1>0, <1>1, <1>3, <1>4, <1>5, <1>6, ThreadGoesOn

LEMMA InvTakeAnswer ==
    ASSUME ProxyInv, TakeAnswer PROVE ProxyInv'
<1>0. Typing /\ OneLoad /\ worker.phase = "load" /\ worker.queue \in Seq(WorkerTask)
  BY DEF ProxyInv, TakeAnswer, Typing
<1>1. PICK i \in DOMAIN worker.queue :
        /\ worker.queue[i].kind = "answer"
        /\ LET rest == [worker EXCEPT !.queue = RemoveAt(@, i)] IN
           IF worker.closing
           THEN /\ worker' = rest
                /\ UNCHANGED <<mainQueue, premature>>
           ELSE /\ worker' = [rest EXCEPT !.phase = "script"]
                /\ \/ UNCHANGED <<mainQueue, premature>>
                   \/ /\ mainQueue' = Append(mainQueue, Report(FALSE, worker.active))
                      /\ premature' = (premature \/ worker.task # "message")
  BY DEF TakeAnswer
<1>2. UNCHANGED <<proxy, source, loader, posted, said, thrown>>
  BY DEF TakeAnswer, history
<1>3. i \in Answered /\ Requested = {} /\ ~loader /\ Places(mainQueue, "destroyed") = {}
  <2>1. i \in Answered
    BY <1>1 DEF Answered, Places
  <2> QED  BY <1>0, <2>1, LivingThread DEF OneLoad
\* It was the only answer.
<1>4. /\ RemoveAt(worker.queue, i) \in Seq(WorkerTask)
      /\ Places(RemoveAt(worker.queue, i), "answer") = {}
  <2>1. /\ RemoveAt(worker.queue, i) \in Seq(WorkerTask)
        /\ \A j \in DOMAIN RemoveAt(worker.queue, i) :
             \E k \in DOMAIN worker.queue :
                k # i /\ RemoveAt(worker.queue, i)[j] = worker.queue[k]
    BY <1>0, PlacesAfterRemove
  <2>2. \A k \in DOMAIN worker.queue : k # i => worker.queue[k].kind # "answer"
    BY <1>0, <1>3 DEF OneLoad, Answered, Places
  <2> QED  BY <2>1, <2>2 DEF Places
<1>5. /\ worker' \in [phase : Phases, task : {"none", "init", "message", "timer"},
                        active : BOOLEAN, closing : BOOLEAN, terminated : BOOLEAN,
                        queue : Seq(WorkerTask), killed : BOOLEAN]
      /\ worker'.phase \in {"load", "script"}
      /\ worker'.queue = RemoveAt(worker.queue, i)
  <2> DEFINE rest == [worker EXCEPT !.queue = RemoveAt(@, i)]
  <2>1. /\ rest \in [phase : Phases, task : {"none", "init", "message", "timer"},
                     active : BOOLEAN, closing : BOOLEAN, terminated : BOOLEAN,
                     queue : Seq(WorkerTask), killed : BOOLEAN]
        /\ rest.phase = "load" /\ rest.queue = RemoveAt(worker.queue, i)
    BY <1>0, <1>4 DEF Typing
  <2>2. worker' = rest \/ worker' = [rest EXCEPT !.phase = "script"]
    BY <1>1
  <2> HIDE DEF rest
  <2> QED  BY <2>1, <2>2 DEF Phases
<1>6. Answered' = {}
  BY <1>4, <1>5 DEF Answered
<1>7. mainQueue' \in Seq(MainTask) /\ Requested' = {} /\ Places(mainQueue', "destroyed") = {}
  <2>1. CASE mainQueue' = mainQueue
    BY <1>0, <1>3, <2>1 DEF Typing, Requested
  <2>2. CASE mainQueue' = Append(mainQueue, Report(FALSE, worker.active))
    <3>1. /\ Report(FALSE, worker.active) \in MainTask
          /\ Report(FALSE, worker.active).kind = "report"
      BY <1>0, MainTasks DEF Typing
    <3> QED  BY <1>0, <1>3, <2>2, <3>1, OrdinaryTask
  <2> QED  BY <1>1, <2>1, <2>2
<1>8. Typing'
  BY <1>0, <1>2, <1>5, <1>7 DEF Typing
<1>9. OneLoad'
  BY <1>2, <1>3, <1>6, <1>7 DEF OneLoad
<1> QED  BY <1>0, <1>2, <1>5, <1>7, <1>8, <1>9, ThreadGoesOn

(***************************************************************************)
(* The thread's run loop.                                                  *)
(***************************************************************************)
LEMMA InvTakeTask ==
    ASSUME ProxyInv, TakeTask PROVE ProxyInv'
<1> DEFINE task == Head(worker.queue)
           rest == Tail(worker.queue)
           w    == [worker EXCEPT !.queue = rest]
<1>0. /\ Typing /\ worker.phase = "loop" /\ Answered = {}
      /\ worker.queue \in Seq(WorkerTask) /\ worker.queue # <<>>
  BY NoLoad DEF ProxyInv, TakeTask, Typing
<1>1. UNCHANGED <<proxy, source, loader, posted, said, thrown>>
  BY DEF TakeTask
<1>2. rest \in Seq(WorkerTask) /\ Places(rest, "answer") = {}
  BY <1>0, PlacesAfterTail DEF Answered
<1>3. /\ Append(rest, Simple("finish")) \in Seq(WorkerTask)
      /\ Places(Append(rest, Simple("finish")), "answer") = {}
  <2>1. Simple("finish") \in WorkerTask /\ Simple("finish").kind # "answer"
    BY WorkerTasks
  <2> HIDE DEF rest
  <2> QED  BY <1>2, <2>1, OtherAppended
<1> HIDE DEF rest
<1>4. /\ w \in [phase : Phases, task : {"none", "init", "message", "timer"},
                        active : BOOLEAN, closing : BOOLEAN, terminated : BOOLEAN,
                        queue : Seq(WorkerTask), killed : BOOLEAN]
      /\ w.phase = "loop" /\ w.queue = rest /\ w.active \in BOOLEAN
  BY <1>0, <1>2 DEF Typing
<1> HIDE DEF task, w
<1>5. \/ worker' = w /\ mainQueue' = mainQueue
      \/ HearMessage(w, task.id)
      \/ worker' = w /\ mainQueue' = Append(mainQueue, Simple("terminate"))
      \/ /\ worker' = [w EXCEPT !.active = FALSE, !.queue = Append(@, Simple("finish"))]
         /\ mainQueue' = mainQueue
      \/ worker' = [w EXCEPT !.killed = TRUE] /\ mainQueue' = mainQueue
  BY DEF TakeTask, task, w, rest
<1>6. /\ worker' \in [phase : Phases, task : {"none", "init", "message", "timer"},
                        active : BOOLEAN, closing : BOOLEAN, terminated : BOOLEAN,
                        queue : Seq(WorkerTask), killed : BOOLEAN]
      /\ worker'.phase \in {"loop", "script"}
      /\ worker'.queue \in {rest, Append(rest, Simple("finish"))}
  <2>1. CASE worker' = w
    BY <1>4, <2>1
  <2>2. CASE worker' = [w EXCEPT !.phase = "script", !.task = "message"]
    BY <1>4, <2>2 DEF Phases
  <2>3. CASE worker' = [w EXCEPT !.active = FALSE, !.queue = Append(@, Simple("finish"))]
    BY <1>3, <1>4, <2>3
  <2>4. CASE worker' = [w EXCEPT !.killed = TRUE]
    BY <1>4, <2>4
  <2> QED  BY <1>5, <2>1, <2>2, <2>3, <2>4 DEF HearMessage
<1>7. OrdinaryPost
  BY <1>4, <1>5, MainTasks DEF HearMessage, OrdinaryPost
<1>8. Answered' = {}
  BY <1>2, <1>3, <1>6 DEF Answered
<1> QED  BY <1>0, <1>1, <1>6, <1>7, <1>8, InvOrdinaryStep DEF Typing

LEMMA InvTimerFires ==
    ASSUME ProxyInv, TimerFires PROVE ProxyInv'
<1>0. Typing /\ worker.phase = "loop" /\ Answered = {}
  BY NoLoad DEF ProxyInv, TimerFires
<1>1. UNCHANGED <<proxy, source, loader, posted, said, thrown, mainQueue>>
  BY DEF TimerFires, history
<1>2. PICK again \in BOOLEAN :
        worker' = [worker EXCEPT !.phase = "script", !.task = "timer", !.active = again]
  BY DEF TimerFires
<1>3. /\ worker' \in [phase : Phases, task : {"none", "init", "message", "timer"},
                        active : BOOLEAN, closing : BOOLEAN, terminated : BOOLEAN,
                        queue : Seq(WorkerTask), killed : BOOLEAN]
      /\ worker'.phase = "script" /\ Answered' = {}
  BY <1>0, <1>2 DEF Typing, Phases, Answered
<1> QED  BY <1>0, <1>1, <1>3, InvOrdinaryStep DEF OrdinaryPost, Typing

LEMMA InvDestroyContext ==
    ASSUME ProxyInv, DestroyContext PROVE ProxyInv'
<1>0. /\ Typing /\ worker.phase = "loop" /\ mainQueue \in Seq(MainTask)
      /\ Requested = {} /\ ~loader /\ Answered = {} /\ Places(mainQueue, "destroyed") = {}
      /\ proxy.thread /\ ~proxy.deleted /\ source = "loaded"
  BY NoLoad, LivingThread DEF ProxyInv, DestroyContext, Typing
<1>1. /\ worker' = [worker EXCEPT !.phase = "ended", !.active = FALSE]
      /\ mainQueue' = Append(mainQueue, Simple("destroyed"))
      /\ UNCHANGED <<proxy, source, loader, posted, said, thrown>>
  BY DEF DestroyContext, history
<1>2. /\ mainQueue' \in Seq(MainTask)
      /\ Requested' = {}
      /\ Places(mainQueue', "destroyed") = {Len(mainQueue')}
  <2>1. ASSUME NEW q \in Seq(MainTask), NEW t \in MainTask, t.kind = "destroyed",
               Places(q, "load") = {}, Places(q, "destroyed") = {}
        PROVE  /\ Append(q, t) \in Seq(MainTask)
               /\ Places(Append(q, t), "load") = {}
               /\ Places(Append(q, t), "destroyed") = {Len(Append(q, t))}
    <3>1. t.kind # "load"
      BY <2>1
    <3>2. Places(Append(q, t), "load") = {}
      BY <2>1, <3>1, OtherAppended
    <3>3. Places(q, t.kind) = {}
      BY <2>1
    <3>4. Append(q, t) \in Seq(MainTask) /\ Places(Append(q, t), t.kind) = {Len(Append(q, t))}
      BY <3>3, FirstAppended
    <3> QED  BY <2>1, <3>2, <3>4
  <2> QED  BY <1>0, <1>1, <2>1, MainTasks DEF Requested
<1>3. /\ worker' \in [phase : Phases, task : {"none", "init", "message", "timer"},
                        active : BOOLEAN, closing : BOOLEAN, terminated : BOOLEAN,
                        queue : Seq(WorkerTask), killed : BOOLEAN]
      /\ worker'.phase = "ended" /\ Answered' = {}
  BY <1>0, <1>1 DEF Typing, Phases, Answered
<1>4. Typing'
  BY <1>0, <1>1, <1>2, <1>3 DEF Typing
<1>5. OneLoad'
  BY <1>0, <1>1, <1>2, <1>3 DEF OneLoad
<1>6. DestroyedIsLast'
  BY <1>0, <1>1, <1>2, <1>3 DEF DestroyedIsLast
<1>7. ThreadIsKnown'
  BY <1>0, <1>1, <1>3 DEF ThreadIsKnown
<1>8. ProxyOutlivesItsUsers'
  BY <1>0, <1>1 DEF ProxyOutlivesItsUsers
<1> QED  BY <1>4, <1>5, <1>6, <1>7, <1>8 DEF ProxyInv

(***************************************************************************)
(* Every step keeps the invariant.                                         *)
(***************************************************************************)
LEMMA InvNext == ProxyInv /\ [Next]_vars => ProxyInv'
<1> SUFFICES ASSUME ProxyInv, [Next]_vars PROVE ProxyInv'
  OBVIOUS
<1>1. CASE PageStep
  <2>1. CASE Terminate
    <3>1. /\ TerminateWorkerContext
          /\ UNCHANGED <<source, mainQueue, loader, posted, said, thrown>>
      BY <2>1 DEF Terminate, history
    <3> QED
      BY <3>1, InvTerminate DEF ProxyInv, Typing, OneLoad, DestroyedIsLast, Requested
  <2> QED
    BY <1>1, <2>1, InvPostMessage, InvNotifyFinished, InvCollectWorker DEF PageStep
<1>2. CASE PerformMainTask \/ LoaderAnswers
  BY <1>2, InvPerformMainTask, InvLoaderAnswers
<1>3. CASE ScriptStep \/ ScriptEnds
  BY <1>3, InvScriptPosts, InvScriptCloses, InvScriptChangesActivity, InvScriptLoads,
     InvScriptEnds DEF ScriptStep
<1>4. CASE ThreadStep \/ TimerFires
  BY <1>4, InvCreateContext, InvTakeAnswer, InvTakeTask, InvDestroyContext, InvTimerFires
  DEF ThreadStep
<1>5. CASE UNCHANGED vars
  BY <1>5
  DEF vars, history, ProxyInv, Typing, OneLoad, DestroyedIsLast, ThreadIsKnown,
      ProxyOutlivesItsUsers, Requested, Answered
<1> QED  BY <1>1, <1>2, <1>3, <1>4, <1>5 DEF Next

(***************************************************************************)
(* The proxy is deleted after the Worker object, the worker's thread, the  *)
(* load it started and every task that was posted for it                   *)
(* (workerObjectDestroyed, workerContextDestroyedInternal), in a behaviour *)
(* of any length with any number of messages and loads.                    *)
(***************************************************************************)
THEOREM ProxyIsLast == Spec => []ProxyOutlivesItsUsers
<1>1. ProxyInv => ProxyOutlivesItsUsers
  BY DEF ProxyInv
<1> QED  BY InvInit, InvNext, <1>1, PTL DEF Spec

(***************************************************************************)
(* The messages of a queue are those after one number up to another, in    *)
(* that order.                                                             *)
(***************************************************************************)
Messages(queue) == Places(queue, "message")

InOrder(queue, after, upTo) ==
    /\ after <= upTo
    /\ \A i \in Messages(queue) : queue[i].id \in (after + 1)..upTo
    /\ \A i, j \in Messages(queue) : i < j => queue[i].id < queue[j].id
    /\ \A n \in (after + 1)..upTo : \E i \in Messages(queue) : queue[i].id = n

LEMMA AppendKeeps ==
    ASSUME NEW S, NEW q \in Seq(S), NEW t \in S
    PROVE  /\ Append(q, t) \in Seq(S) /\ Len(q) \in Nat
           /\ \A i \in Messages(q) : i \in 1..Len(q) /\ Append(q, t)[i] = q[i]
           /\ Append(q, t)[Len(q) + 1] = t
<1>1. DOMAIN q = 1..Len(q) /\ Len(q) \in Nat
  OBVIOUS
<1> QED  BY <1>1 DEF Messages, Places

LEMMA OrderAfterOther ==
    ASSUME NEW S, NEW q \in Seq(S), NEW t \in S, t.kind # "message",
           NEW a \in Nat, NEW b \in Nat, InOrder(q, a, b)
    PROVE  InOrder(Append(q, t), a, b)
<1>1. Messages(Append(q, t)) = Messages(q)
  BY OtherAppended DEF Messages
<1>2. \A i \in Messages(q) : Append(q, t)[i] = q[i]
  BY AppendKeeps
<1> QED  BY <1>1, <1>2 DEF InOrder

LEMMA OrderAfterMessage ==
    ASSUME NEW S, NEW q \in Seq(S), NEW t \in S,
           NEW a \in Nat, NEW b \in Nat, InOrder(q, a, b),
           t.kind = "message", t.id = b + 1
    PROVE  InOrder(Append(q, t), a, b + 1)
<1> DEFINE r == Append(q, t)
           last == Len(q) + 1
<1>1. Messages(r) = Messages(q) \cup {last}
  BY PlacesAfterAppend DEF Messages
<1>2. /\ \A i \in Messages(q) : r[i] = q[i] /\ i < last /\ i \in Nat
      /\ r[last] = t /\ last \in Nat
  BY AppendKeeps
<1>3. \A i \in Messages(q) : q[i].id \in (a + 1)..b
  BY DEF InOrder
<1> HIDE DEF r, last
<1>4. \A i \in Messages(r) : r[i].id \in (a + 1)..(b + 1)
  <2>1. b + 1 \in (a + 1)..(b + 1)
    BY DEF InOrder
  <2>2. \A n \in (a + 1)..b : n \in (a + 1)..(b + 1)
    OBVIOUS
  <2> QED  BY <1>1, <1>2, <1>3, <2>1, <2>2
<1>5. ASSUME NEW i \in Messages(r), NEW j \in Messages(r), i < j
      PROVE  r[i].id < r[j].id
  <2>1. CASE j = last
    <3>1. i \in Messages(q) /\ r[i].id \in (a + 1)..b
      BY <1>1, <1>2, <1>3, <1>5, <2>1
    <3> QED  BY <1>2, <2>1, <3>1
  <2>2. CASE j # last
    <3>1. j \in Messages(q) /\ i \in Messages(q)
      BY <1>1, <1>2, <1>5, <2>2
    <3> QED  BY <1>2, <1>5, <3>1 DEF InOrder
  <2> QED  BY <2>1, <2>2
<1>6. ASSUME NEW n \in (a + 1)..(b + 1)
      PROVE  \E i \in Messages(r) : r[i].id = n
  <2>1. CASE n = b + 1
    BY <1>1, <1>2, <2>1
  <2>2. CASE n # b + 1
    <3>1. n \in (a + 1)..b
      BY <1>6, <2>2
    <3> QED  BY <1>1, <1>2, <3>1 DEF InOrder
  <2> QED  BY <2>1, <2>2
<1>7. a <= b + 1
  BY DEF InOrder
<1> QED  BY <1>4, <1>5, <1>6, <1>7 DEF InOrder, r

(***************************************************************************)
(* A message that is taken is the next one; other tasks change nothing.    *)
(***************************************************************************)
LEMMA TailKeeps ==
    ASSUME NEW S, NEW q \in Seq(S), q # <<>>
    PROVE  /\ Tail(q) \in Seq(S) /\ Head(q) = q[1] /\ 1 \in DOMAIN q
           /\ \A i \in Messages(Tail(q)) :
                i \in Nat \ {0} /\ i + 1 \in Messages(q) /\ Tail(q)[i] = q[i + 1]
           /\ \A i \in Messages(q) :
                i = 1 \/ (i \in Nat /\ 1 < i /\ i - 1 \in Messages(Tail(q)) /\ Tail(q)[i - 1] = q[i])
<1>1. /\ Tail(q) \in Seq(S) /\ Head(q) = q[1]
      /\ Len(q) \in Nat \ {0} /\ Len(Tail(q)) = Len(q) - 1
      /\ \A i \in 1..(Len(q) - 1) : Tail(q)[i] = q[i + 1]
  BY HeadTailProperties
<1>2. DOMAIN q = 1..Len(q) /\ DOMAIN Tail(q) = 1..(Len(q) - 1)
  BY <1>1
<1>3. ASSUME NEW i \in Messages(q), i # 1
      PROVE  i \in Nat /\ 1 < i /\ i - 1 \in Messages(Tail(q)) /\ Tail(q)[i - 1] = q[i]
  <2>1. i \in 1..Len(q) /\ i - 1 \in 1..(Len(q) - 1) /\ (i - 1) + 1 = i /\ q[i].kind = "message"
    BY <1>1, <1>2, <1>3 DEF Messages, Places
  <2>2. Tail(q)[i - 1] = q[i]
    BY <1>1, <2>1
  <2> QED  BY <1>2, <1>3, <2>1, <2>2 DEF Messages, Places
<1>4. \A i \in Messages(Tail(q)) :
        i \in Nat \ {0} /\ i + 1 \in Messages(q) /\ Tail(q)[i] = q[i + 1]
  BY <1>1, <1>2 DEF Messages, Places
<1>5. 1 \in DOMAIN q
  BY <1>1, <1>2
<1>6. \A i \in Messages(q) :
        i = 1 \/ (i \in Nat /\ 1 < i /\ i - 1 \in Messages(Tail(q)) /\ Tail(q)[i - 1] = q[i])
  BY <1>3
<1> QED  BY Zenon, <1>1, <1>4, <1>5, <1>6

LEMMA OrderAfterOtherTaken ==
    ASSUME NEW S, NEW q \in Seq(S), q # <<>>, Head(q).kind # "message",
           NEW a \in Nat, NEW b \in Nat, InOrder(q, a, b)
    PROVE  InOrder(Tail(q), a, b)
<1>1. 1 \notin Messages(q)
  BY TailKeeps DEF Messages, Places
<1>2. \A i \in Messages(Tail(q)) :
        i \in Nat \ {0} /\ i + 1 \in Messages(q) /\ Tail(q)[i] = q[i + 1]
  BY TailKeeps
<1>3. \A i \in Messages(q) :
        i - 1 \in Messages(Tail(q)) /\ Tail(q)[i - 1] = q[i]
  BY <1>1, TailKeeps
<1>4. ASSUME NEW i \in Messages(Tail(q)), NEW j \in Messages(Tail(q)), i < j
      PROVE  Tail(q)[i].id < Tail(q)[j].id
  <2>1. i + 1 < j + 1
    BY <1>2, <1>4
  <2> QED  BY <1>2, <2>1 DEF InOrder
<1>5. \A n \in (a + 1)..b : \E i \in Messages(Tail(q)) : Tail(q)[i].id = n
  BY <1>3 DEF InOrder
<1> QED  BY <1>2, <1>4, <1>5 DEF InOrder

LEMMA OrderAfterMessageTaken ==
    ASSUME NEW S, NEW q \in Seq(S), q # <<>>, Head(q).kind = "message",
           NEW a \in Nat, NEW b \in Nat, InOrder(q, a, b)
    PROVE  Head(q).id = a + 1 /\ a < b /\ InOrder(Tail(q), a + 1, b)
<1>1. 1 \in Messages(q) /\ Head(q) = q[1]
  BY TailKeeps DEF Messages, Places
<1>2. \A i \in Messages(Tail(q)) :
        i \in Nat \ {0} /\ i + 1 \in Messages(q) /\ Tail(q)[i] = q[i + 1]
  BY TailKeeps
<1>3. \A i \in Messages(q) :
        i = 1 \/ (i \in Nat /\ 1 < i /\ i - 1 \in Messages(Tail(q)) /\ Tail(q)[i - 1] = q[i])
  BY Zenon, TailKeeps
<1>4. \A i \in Messages(q) : q[i].id \in (a + 1)..b
  BY DEF InOrder
<1>5. q[1].id \in (a + 1)..b
  BY <1>1, <1>4
<1>6. a < b
  BY <1>5
<1>7. q[1].id = a + 1
  <2>1. a + 1 \in (a + 1)..b
    BY <1>6
  <2>2. PICK i \in Messages(q) : q[i].id = a + 1
    BY <2>1 DEF InOrder
  <2>3. 1 < i => q[1].id < q[i].id
    BY <1>1 DEF InOrder
  <2> QED  BY <1>3, <1>5, <2>2, <2>3
<1>8. ASSUME NEW i \in Messages(Tail(q)) PROVE Tail(q)[i].id \in (a + 2)..b
  <2>0. i \in Nat \ {0} /\ i + 1 \in Messages(q) /\ Tail(q)[i] = q[i + 1]
    BY Zenon, <1>2, <1>8
  <2>1. 1 < i + 1
    BY <2>0
  <2>2. q[1].id < q[i + 1].id
    BY <1>1, <2>0, <2>1 DEF InOrder
  <2>3. q[i + 1].id \in (a + 1)..b
    BY <1>4, <2>0
  <2>4. q[i + 1].id \in (a + 2)..b
    BY <1>7, <2>2, <2>3
  <2> QED  BY <2>0, <2>4
<1>9. ASSUME NEW i \in Messages(Tail(q)), NEW j \in Messages(Tail(q)), i < j
      PROVE  Tail(q)[i].id < Tail(q)[j].id
  <2>1. i + 1 < j + 1
    BY <1>2, <1>9
  <2> QED  BY <1>2, <2>1 DEF InOrder
<1>10. ASSUME NEW n \in (a + 2)..b PROVE \E i \in Messages(Tail(q)) : Tail(q)[i].id = n
  <2>1. n \in (a + 1)..b /\ n # a + 1
    BY <1>10
  <2>2. PICK i \in Messages(q) : q[i].id = n
    BY <2>1 DEF InOrder
  <2> QED  BY <1>3, <1>7, <2>1, <2>2
<1>11. (a + 1) + 1 = a + 2 /\ a + 1 <= b
  BY <1>6
<1> QED  BY <1>1, <1>6, <1>7, <1>8, <1>9, <1>10, <1>11 DEF InOrder

LEMMA RemoveKeeps ==
    ASSUME NEW S, NEW q \in Seq(S), NEW k \in DOMAIN q
    PROVE  /\ DOMAIN RemoveAt(q, k) = 1..(Len(q) - 1) /\ Len(q) \in Nat
           /\ \A j \in 1..(Len(q) - 1) :
                RemoveAt(q, k)[j] = IF j < k THEN q[j] ELSE q[j + 1]
<1> DEFINE front == SubSeq(q, 1, k - 1)
           back  == SubSeq(q, k + 1, Len(q))
<1>1. Len(q) \in Nat /\ DOMAIN q = 1..Len(q) /\ k \in 1..Len(q)
  OBVIOUS
<1>2. front \in Seq(S) /\ Len(front) = k - 1 /\ \A j \in 1..(k - 1) : front[j] = q[j]
  BY <1>1
<1>3. back \in Seq(S) /\ Len(back) = Len(q) - k /\ \A j \in 1..(Len(q) - k) : back[j] = q[k + j]
  BY <1>1
<1>4. RemoveAt(q, k) = front \o back
  BY DEF RemoveAt
<1> HIDE DEF front, back
<1>5. /\ front \o back \in Seq(S) /\ Len(front \o back) = Len(front) + Len(back)
      /\ \A j \in 1..(Len(front) + Len(back)) :
            (front \o back)[j] = IF j <= Len(front) THEN front[j] ELSE back[j - Len(front)]
  BY <1>2, <1>3, ConcatProperties
<1>6. Len(front) + Len(back) = Len(q) - 1
  BY <1>1, <1>2, <1>3
<1>7. DOMAIN (front \o back) = 1..(Len(q) - 1)
  BY <1>5, <1>6
<1>8. ASSUME NEW j \in 1..(Len(q) - 1)
      PROVE  (front \o back)[j] = IF j < k THEN q[j] ELSE q[j + 1]
  <2>1. CASE j < k
    <3>1. j <= Len(front) /\ j \in 1..(k - 1)
      BY <1>1, <1>2, <2>1
    <3> QED  BY <1>2, <1>5, <1>6, <2>1, <3>1
  <2>2. CASE ~(j < k)
    <3>1. ~(j <= Len(front)) /\ j - Len(front) \in 1..(Len(q) - k) /\ k + (j - Len(front)) = j + 1
      BY <1>1, <1>2, <2>2
    <3>2. back[j - Len(front)] = q[j + 1]
      BY <1>3, <3>1
    <3> QED  BY <1>5, <1>6, <2>2, <3>1, <3>2
  <2> QED  BY <2>1, <2>2
<1> QED  BY <1>1, <1>4, <1>7, <1>8

LEMMA OrderAfterOtherRemoved ==
    ASSUME NEW S, NEW q \in Seq(S), NEW k \in DOMAIN q, q[k].kind # "message",
           NEW a \in Nat, NEW b \in Nat, InOrder(q, a, b)
    PROVE  InOrder(RemoveAt(q, k), a, b)
<1> DEFINE r == RemoveAt(q, k)
           Old(j) == IF j < k THEN j ELSE j + 1
           New(i) == IF i < k THEN i ELSE i - 1
<1>1. /\ DOMAIN r = 1..(Len(q) - 1) /\ Len(q) \in Nat
      /\ \A j \in 1..(Len(q) - 1) : r[j] = IF j < k THEN q[j] ELSE q[j + 1]
  BY RemoveKeeps
<1>2. DOMAIN q = 1..Len(q) /\ k \in 1..Len(q) /\ k \notin Messages(q)
  BY <1>1 DEF Messages, Places
<1> HIDE DEF r
<1>3. ASSUME NEW j \in Messages(r)
      PROVE  j \in Nat /\ Old(j) \in Messages(q) /\ r[j] = q[Old(j)]
  <2>1. j \in 1..(Len(q) - 1) /\ r[j].kind = "message"
    BY <1>1, <1>3 DEF Messages, Places
  <2>2. Old(j) \in 1..Len(q) /\ j \in Nat
    BY <1>1, <1>2, <2>1
  <2>3. r[j] = q[Old(j)]
    BY <1>1, <2>1
  <2> QED  BY <1>2, <2>1, <2>2, <2>3 DEF Messages, Places
<1>4. ASSUME NEW i \in Messages(q)
      PROVE  New(i) \in Messages(r) /\ r[New(i)] = q[i]
  <2>1. i \in 1..Len(q) /\ i # k /\ q[i].kind = "message"
    BY <1>2, <1>4 DEF Messages, Places
  <2>2. New(i) \in 1..(Len(q) - 1) /\ Old(New(i)) = i
    BY <1>1, <1>2, <2>1
  <2>3. r[New(i)] = q[Old(New(i))]
    BY <1>1, <2>2
  <2> QED  BY <1>1, <2>1, <2>2, <2>3 DEF Messages, Places
<1>5. ASSUME NEW i \in Messages(r), NEW j \in Messages(r), i < j
      PROVE  r[i].id < r[j].id
  <2>1. Old(i) < Old(j)
    BY <1>2, <1>3, <1>5
  <2>2. Old(i) \in Messages(q) /\ Old(j) \in Messages(q) /\ r[i] = q[Old(i)] /\ r[j] = q[Old(j)]
    BY <1>3, <1>5
  <2> HIDE DEF Old
  <2> QED  BY <2>1, <2>2 DEF InOrder
<1>6. \A i \in Messages(r) : r[i].id \in (a + 1)..b
  <2> HIDE DEF Old
  <2> QED  BY <1>3 DEF InOrder
<1>7. \A n \in (a + 1)..b : \E j \in Messages(r) : r[j].id = n
  <2> HIDE DEF New
  <2> QED  BY <1>4 DEF InOrder
<1> QED  BY <1>5, <1>6, <1>7 DEF InOrder, r

(***************************************************************************)
(* The inductive invariant: as long as a direction is open, what is under  *)
(* way are the messages after the last one that arrived; a worker that was *)
(* asked to terminate, and no other, is being shut down.                   *)
(***************************************************************************)
ToWorkerOpen ==
    /\ proxy.object /\ ~proxy.asked /\ ~worker.closing
    /\ source # "failed" /\ worker.phase # "failed"

ToPageOpen == proxy.object /\ ~proxy.asked

ToWorkerInOrder ==
    ToWorkerOpen =>
        IF proxy.thread THEN InOrder(worker.queue, Len(heard), posted)
        ELSE /\ source = "loading" /\ worker.queue = <<>> /\ heard = <<>>
             /\ InOrder(proxy.early, 0, posted)

ToPageInOrder == ToPageOpen => InOrder(mainQueue, Len(shown), said)

Histories == heard \in Seq(Nat) /\ shown \in Seq(Nat)

ShutdownTasks == Places(worker.queue, "start") \cup Places(worker.queue, "finish")

Shutdown ==
    /\ ~proxy.object => proxy.asked
    /\ proxy.asked /\ worker.phase \notin {"none", "failed"} => worker.terminated \/ worker.killed
    /\ worker.terminated \/ worker.killed => proxy.asked
    /\ ShutdownTasks # {} => worker.terminated
    /\ worker.phase = "ended" => worker.killed

ChannelInv == ProxyInv /\ Histories /\ Shutdown /\ ToWorkerInOrder /\ ToPageInOrder

(***************************************************************************)
(* What a step of the worker's thread does to its end, to its queue and to *)
(* the main thread's.                                                      *)
(***************************************************************************)
ThreadLives ==
    /\ UNCHANGED <<proxy, source, posted, shown>>
    /\ worker.phase \notin {"none", "failed", "ended"} /\ worker'.phase \notin {"none", "failed"}
    /\ worker.closing => worker'.closing
    /\ worker'.terminated \/ worker'.killed <=> worker.terminated \/ worker.killed
    /\ worker.terminated => worker'.terminated
    /\ worker'.phase = "ended" => worker'.killed

Keeps == heard' = heard /\ worker'.queue = worker.queue

Adds ==
    /\ heard' = heard
    /\ worker'.closing
    /\ worker'.queue = Append(worker.queue, Simple("close"))

Removes ==
    /\ heard' = heard
    /\ \E k \in DOMAIN worker.queue :
        /\ worker.queue[k].kind = "answer"
        /\ worker'.queue = RemoveAt(worker.queue, k)

Skips ==
    /\ worker.queue # <<>>
    /\ Head(worker.queue).kind = "message" => worker.closing \/ worker.terminated
    /\ heard' = heard
    /\ \/ worker'.queue = Tail(worker.queue)
       \/ /\ worker.terminated
          /\ worker'.queue = Append(Tail(worker.queue), Simple("finish"))

Hears ==
    /\ worker.queue # <<>> /\ Head(worker.queue).kind = "message"
    /\ ~worker.closing /\ ~worker.terminated /\ ~worker.killed
    /\ worker'.closing = worker.closing
    /\ heard' = Append(heard, Head(worker.queue).id)
    /\ worker'.queue = Tail(worker.queue)

QueueStep == Keeps \/ Adds \/ Removes \/ Skips \/ Hears

PostsNoMessage ==
    /\ said' = said
    /\ \/ mainQueue' = mainQueue
       \/ \E t \in MainTask : t.kind # "message" /\ mainQueue' = Append(mainQueue, t)

PostsMessage ==
    /\ said' = said + 1
    /\ Message(said') \in MainTask
    /\ mainQueue' = Append(mainQueue, Message(said'))

ThreadMoves == ThreadLives /\ QueueStep /\ (PostsNoMessage \/ PostsMessage)

(***************************************************************************)
(* Such a step keeps the invariant.                                        *)
(***************************************************************************)
LEMMA ShutdownKept ==
    ASSUME ChannelInv, ThreadLives, QueueStep
    PROVE  Shutdown'
<1>0. Typing /\ Shutdown /\ worker.queue \in Seq(WorkerTask)
  BY DEF ChannelInv, ProxyInv, Typing
<1>1. ShutdownTasks' # {} => worker.terminated
  <2>1. CASE Keeps
    BY <1>0, <2>1 DEF Keeps, Shutdown, ShutdownTasks
  <2>2. CASE Adds
    <3>1. \A kind \in {"start", "finish"} :
            Places(Append(worker.queue, Simple("close")), kind) = Places(worker.queue, kind)
      BY <1>0, WorkerTasks, OtherAppended
    <3> QED  BY <1>0, <2>2, <3>1 DEF Adds, Shutdown, ShutdownTasks
  <2>3. CASE Removes
    <3>1. PICK k \in DOMAIN worker.queue : worker'.queue = RemoveAt(worker.queue, k)
      BY <2>3 DEF Removes
    <3>2. \A j \in DOMAIN worker'.queue :
            \E i \in DOMAIN worker.queue : worker'.queue[j] = worker.queue[i]
      BY <1>0, <3>1, PlacesAfterRemove
    <3> QED  BY <1>0, <3>2 DEF Shutdown, ShutdownTasks, Places
  <2>4. CASE worker.queue # <<>> /\ worker'.queue = Tail(worker.queue)
    <3>1. \A kind \in {"start", "finish"} : \A i \in Places(worker'.queue, kind) :
            i + 1 \in Places(worker.queue, kind)
      BY <1>0, <2>4, PlacesAfterTail
    <3> QED  BY <1>0, <3>1 DEF Shutdown, ShutdownTasks
  <2> QED  BY <2>1, <2>2, <2>3, <2>4 DEF QueueStep, Skips, Hears
<1>2. ShutdownTasks' # {} => worker'.terminated
  BY <1>1 DEF ThreadLives
<1> QED  BY <1>0, <1>2 DEF Shutdown, ThreadLives

LEMMA HistoriesKept ==
    ASSUME ChannelInv, ThreadLives, QueueStep
    PROVE  Histories'
<1>1. Histories /\ shown' = shown /\ worker.queue \in Seq(WorkerTask)
  BY DEF ChannelInv, ThreadLives, ProxyInv, Typing
<1>2. CASE heard' = heard
  BY <1>1, <1>2 DEF Histories
<1>3. CASE Hears
  <2>1. Head(worker.queue) \in WorkerTask /\ Head(worker.queue).kind = "message"
    BY <1>1, <1>3, PlacesAfterTail DEF Hears
  <2>2. Head(worker.queue).id \in Nat
    BY <2>1 DEF WorkerTask, Message, Simple
  <2> QED  BY <1>1, <1>3, <2>2 DEF Hears, Histories
<1> QED  BY <1>2, <1>3 DEF QueueStep, Keeps, Adds, Removes, Skips

LEMMA WorkerOrderKept ==
    ASSUME ChannelInv, ThreadLives, QueueStep
    PROVE  ToWorkerInOrder'
<1>0. /\ worker.queue \in Seq(WorkerTask) /\ posted \in Nat /\ Len(heard) \in Nat
      /\ heard \in Seq(Nat) /\ Shutdown /\ ToWorkerInOrder
  BY DEF ChannelInv, ProxyInv, Typing, Histories
<1> SUFFICES ASSUME ToWorkerOpen'
             PROVE  proxy'.thread /\ InOrder(worker'.queue, Len(heard'), posted')
  BY DEF ToWorkerInOrder
<1>1. ToWorkerOpen /\ posted' = posted /\ ~worker.closing
  BY DEF ToWorkerOpen, ThreadLives
<1>2. proxy.thread /\ proxy' = proxy
  BY DEF ChannelInv, ProxyInv, ThreadIsKnown, ThreadLives
<1>3. InOrder(worker.queue, Len(heard), posted)
  BY <1>0, <1>1, <1>2 DEF ToWorkerInOrder
<1>4. ~worker.terminated
  BY <1>0, <1>1 DEF Shutdown, ToWorkerOpen
<1>5. CASE Keeps
  BY <1>1, <1>2, <1>3, <1>5 DEF Keeps
<1>6. CASE Adds
  <2>1. InOrder(Append(worker.queue, Simple("close")), Len(heard), posted)
    BY <1>0, <1>3, WorkerTasks, OrderAfterOther
  <2> QED  BY <1>1, <1>2, <1>6, <2>1 DEF Adds
<1>7. CASE Removes
  <2>1. PICK k \in DOMAIN worker.queue :
            /\ worker.queue[k].kind = "answer"
            /\ worker'.queue = RemoveAt(worker.queue, k)
    BY <1>7 DEF Removes
  <2>2. InOrder(RemoveAt(worker.queue, k), Len(heard), posted)
    BY <1>0, <1>3, <2>1, OrderAfterOtherRemoved
  <2> QED  BY <1>1, <1>2, <1>7, <2>1, <2>2 DEF Removes
<1>8. CASE Skips
  <2>1. Head(worker.queue).kind # "message" /\ worker.queue # <<>>
    BY <1>1, <1>4, <1>8 DEF Skips
  <2>2. InOrder(Tail(worker.queue), Len(heard), posted)
    BY <1>0, <1>3, <2>1, OrderAfterOtherTaken
  <2> QED  BY <1>1, <1>2, <1>4, <1>8, <2>2 DEF Skips
<1>9. CASE Hears
  <2>1. InOrder(Tail(worker.queue), Len(heard) + 1, posted)
    BY <1>0, <1>3, <1>9, OrderAfterMessageTaken DEF Hears
  <2>2. Len(heard') = Len(heard) + 1
    BY <1>0, <1>9 DEF Hears
  <2> QED  BY <1>1, <1>2, <1>9, <2>1, <2>2 DEF Hears
<1> QED  BY <1>5, <1>6, <1>7, <1>8, <1>9 DEF QueueStep

LEMMA PageOrderKept ==
    ASSUME ChannelInv, proxy'.object => proxy.object, proxy.asked => proxy'.asked,
           shown' = shown, PostsNoMessage \/ PostsMessage
    PROVE  ToPageInOrder'
<1>0. mainQueue \in Seq(MainTask) /\ said \in Nat /\ Len(shown) \in Nat /\ ToPageInOrder
  BY DEF ChannelInv, ProxyInv, Typing, Histories
<1> SUFFICES ASSUME ToPageOpen' PROVE InOrder(mainQueue', Len(shown), said')
  BY DEF ToPageInOrder
<1>1. InOrder(mainQueue, Len(shown), said)
  BY <1>0 DEF ToPageOpen, ToPageInOrder
<1>2. CASE PostsNoMessage
  BY <1>0, <1>1, <1>2, OrderAfterOther DEF PostsNoMessage
<1>3. CASE PostsMessage
  <2>1. Message(said').kind = "message" /\ Message(said').id = said + 1
    BY <1>3 DEF PostsMessage, Message
  <2>2. InOrder(Append(mainQueue, Message(said')), Len(shown), said + 1)
    BY <1>0, <1>1, <1>3, <2>1, OrderAfterMessage DEF PostsMessage
  <2> QED  BY <1>3, <2>2 DEF PostsMessage
<1> QED  BY <1>2, <1>3

LEMMA ThreadKeepsOrder ==
    ASSUME ChannelInv, ProxyInv', ThreadMoves
    PROVE  ChannelInv'
<1>1. Shutdown' /\ Histories' /\ ToWorkerInOrder'
  BY ShutdownKept, HistoriesKept, WorkerOrderKept DEF ThreadMoves
<1>2. ToPageInOrder'
  BY PageOrderKept DEF ThreadMoves, ThreadLives
<1> QED  BY <1>1, <1>2 DEF ChannelInv

(***************************************************************************)
(* The steps of the worker's thread.                                       *)
(***************************************************************************)
LEMMA ScriptMoves ==
    ASSUME ChannelInv, ScriptStep \/ ScriptEnds PROVE ThreadMoves
<1>0. Typing /\ worker.phase = "script"
  BY DEF ChannelInv, ProxyInv, ScriptStep, ScriptEnds, ScriptPosts, ScriptThrows, ScriptCloses,
         ScriptChangesActivity, ScriptLoads
<1>1. CASE ScriptPosts
  <2>1. /\ UNCHANGED <<proxy, source, worker, posted, shown, heard>>
        /\ said' = said + 1 /\ mainQueue' = Append(mainQueue, Message(said'))
    BY <1>1 DEF ScriptPosts
  <2>2. said' \in 1..MaxReplies
    BY <1>0, <1>1, <2>1, BoundsAssumption DEF ScriptPosts, Typing
  <2>3. Message(said') \in MainTask
    BY <2>2, MainTasks
  <2> QED
    BY <1>0, <2>1, <2>3 DEF ThreadMoves, ThreadLives, QueueStep, Keeps, PostsMessage
<1>2. CASE ScriptThrows
  <2>1. /\ UNCHANGED <<proxy, source, worker, posted, shown, heard, said>>
        /\ mainQueue' = Append(mainQueue, Simple("exception"))
    BY <1>2 DEF ScriptThrows
  <2> QED
    BY <1>0, <2>1, MainTasks DEF ThreadMoves, ThreadLives, QueueStep, Keeps, PostsNoMessage
<1>3. CASE ScriptCloses
  <2>1. /\ UNCHANGED <<proxy, source, mainQueue, posted, shown, heard, said>>
        /\ worker' = [worker EXCEPT !.closing = TRUE, !.queue = Append(@, Simple("close"))]
    BY <1>3 DEF ScriptCloses, history
  <2>2. /\ worker'.phase = "script" /\ worker'.closing
        /\ worker'.terminated = worker.terminated /\ worker'.killed = worker.killed
        /\ worker'.queue = Append(worker.queue, Simple("close"))
    BY <1>0, <2>1 DEF Typing
  <2> QED
    BY <1>0, <2>1, <2>2 DEF ThreadMoves, ThreadLives, QueueStep, Adds, PostsNoMessage
<1>4. CASE ScriptChangesActivity \/ ScriptLoads \/ ScriptEnds
  <2>1. UNCHANGED <<proxy, source, posted, shown, heard, said>>
    BY <1>4 DEF ScriptChangesActivity, ScriptLoads, ScriptEnds, history
  <2>2. /\ worker'.phase \in {"script", "load", "loop"} /\ worker'.closing = worker.closing
        /\ worker'.terminated = worker.terminated /\ worker'.killed = worker.killed
        /\ worker'.queue = worker.queue
    BY <1>0, <1>4 DEF Typing, ScriptChangesActivity, ScriptLoads, ScriptEnds
  <2>3. worker.active \in BOOLEAN
    BY <1>0 DEF Typing
  <2>4. PostsNoMessage
    BY <1>4, <2>1, <2>3, MainTasks DEF PostsNoMessage, ScriptChangesActivity, ScriptLoads, ScriptEnds
  <2> QED
    BY <1>0, <2>1, <2>2, <2>4 DEF ThreadMoves, ThreadLives, QueueStep, Keeps
<1> QED  BY <1>1, <1>2, <1>3, <1>4 DEF ScriptStep

LEMMA OtherThreadMoves ==
    ASSUME ChannelInv, CreateContext \/ TimerFires \/ DestroyContext PROVE ThreadMoves
<1>0. Typing /\ UNCHANGED <<proxy, source, posted, shown, heard, said>>
  BY DEF ChannelInv, ProxyInv, CreateContext, TimerFires, DestroyContext, history
<1>1. worker.phase \in {"created", "loop"} /\ worker'.phase \in {"script", "loop", "ended"}
  BY <1>0 DEF Typing, CreateContext, TimerFires, DestroyContext
<1>2. /\ worker'.closing = worker.closing /\ worker'.killed = worker.killed
      /\ worker'.queue = worker.queue
      /\ worker.terminated => worker'.terminated
      /\ worker'.terminated => worker.terminated \/ worker.killed
      /\ worker'.phase = "ended" => worker'.killed
  BY <1>0 DEF Typing, CreateContext, TimerFires, DestroyContext
<1>3. PostsNoMessage
  BY <1>0, MainTasks DEF PostsNoMessage, CreateContext, TimerFires, DestroyContext
<1> QED
  BY <1>0, <1>1, <1>2, <1>3 DEF ThreadMoves, ThreadLives, QueueStep, Keeps

LEMMA AnswerMoves ==
    ASSUME ChannelInv, TakeAnswer PROVE ThreadMoves
<1>0. /\ Typing /\ worker.phase = "load"
      /\ UNCHANGED <<proxy, source, posted, shown, heard, said>>
  BY DEF ChannelInv, ProxyInv, TakeAnswer, history
<1>1. PICK k \in DOMAIN worker.queue :
        /\ worker.queue[k].kind = "answer"
        /\ LET rest == [worker EXCEPT !.queue = RemoveAt(@, k)]
           IN  worker' = rest \/ worker' = [rest EXCEPT !.phase = "script"]
        /\ mainQueue' = mainQueue \/ mainQueue' = Append(mainQueue, Report(FALSE, worker.active))
  BY DEF TakeAnswer
<1>2. /\ worker'.phase \in {"load", "script"} /\ worker'.closing = worker.closing
      /\ worker'.terminated = worker.terminated /\ worker'.killed = worker.killed
      /\ worker'.queue = RemoveAt(worker.queue, k)
  BY <1>0, <1>1 DEF Typing
<1>3. PostsNoMessage
  <2>1. worker.active \in BOOLEAN
    BY <1>0 DEF Typing
  <2> QED  BY <1>0, <1>1, <2>1, MainTasks DEF PostsNoMessage
<1> QED
  BY <1>0, <1>1, <1>2, <1>3 DEF ThreadMoves, ThreadLives, QueueStep, Removes

LEMMA TaskMoves ==
    ASSUME ChannelInv, TakeTask PROVE ThreadMoves
<1> DEFINE task == Head(worker.queue)
           w    == [worker EXCEPT !.queue = Tail(@)]
<1>0. /\ Typing /\ Shutdown /\ worker.phase = "loop" /\ ~worker.killed
      /\ worker.queue # <<>> /\ worker.queue \in Seq(WorkerTask)
      /\ UNCHANGED <<proxy, source, posted, shown, said>>
  BY DEF ChannelInv, ProxyInv, Typing, TakeTask
<1>1. /\ w.phase = "loop" /\ w.queue = Tail(worker.queue) /\ w.closing = worker.closing
      /\ w.terminated = worker.terminated /\ w.killed = worker.killed /\ w.active = worker.active
  BY <1>0 DEF Typing
<1>2. /\ worker.active \in BOOLEAN
      /\ \A kind \in {"start", "finish"} : task.kind = kind => worker.terminated
  <2>1. \A kind \in {"start", "finish"} : task.kind = kind => 1 \in Places(worker.queue, kind)
    BY <1>0, PlacesAfterTail
  <2> QED  BY <1>0, <2>1 DEF Shutdown, ShutdownTasks, Typing
<1>3. w \in [phase : Phases, task : {"none", "init", "message", "timer"},
                active : BOOLEAN, closing : BOOLEAN, terminated : BOOLEAN,
                queue : Seq(WorkerTask), killed : BOOLEAN]
  BY <1>0, PlacesAfterTail DEF Typing
<1> HIDE DEF w, task
<1> USE DEF ThreadMoves, ThreadLives, QueueStep
<1>4. CASE worker.closing /\ ~IsCleanupTask(task) /\ worker' = w /\ UNCHANGED <<mainQueue, heard>>
  BY <1>0, <1>1, <1>4 DEF Skips, PostsNoMessage
<1>5. CASE ~worker.closing /\ task.kind = "message" /\ HearMessage(w, task.id)
  <2>1. CASE Forbidden(w)
    <3>1. /\ worker' = w /\ heard' = heard
          /\ mainQueue' = Append(mainQueue, Report(TRUE, worker.active))
      BY <1>1, <1>5, <2>1 DEF HearMessage
    <3>2. worker.terminated
      BY <1>1, <1>5, <2>1 DEF Forbidden
    <3> QED  BY <1>0, <1>1, <1>2, <3>1, <3>2, MainTasks DEF Skips, PostsNoMessage
  <2>2. CASE ~Forbidden(w)
    <3>1. /\ worker' = [w EXCEPT !.phase = "script", !.task = "message"]
          /\ heard' = Append(heard, task.id) /\ mainQueue' = mainQueue
      BY <1>5, <2>2 DEF HearMessage
    <3>2. /\ worker'.phase = "script" /\ worker'.queue = w.queue /\ worker'.closing = w.closing
          /\ worker'.terminated = w.terminated /\ worker'.killed = w.killed
      BY <1>3, <3>1
    <3>3. ~worker.terminated
      BY <1>1, <2>2 DEF Forbidden
    <3> QED  BY <1>0, <1>1, <1>5, <3>1, <3>2, <3>3 DEF Hears, PostsNoMessage, task
  <2> QED  BY <2>1, <2>2
<1>6. CASE task.kind = "close" /\ worker' = w /\ heard' = heard
           /\ mainQueue' = Append(mainQueue, Simple("terminate"))
  BY <1>0, <1>1, <1>6, MainTasks DEF Skips, PostsNoMessage, task
<1>7. CASE /\ task.kind = "start" /\ UNCHANGED <<mainQueue, heard>>
           /\ worker' = [w EXCEPT !.active = FALSE, !.queue = Append(@, Simple("finish"))]
  <2>1. /\ worker'.phase = "loop" /\ worker'.queue = Append(Tail(worker.queue), Simple("finish"))
        /\ worker'.closing = worker.closing
        /\ worker'.terminated = worker.terminated /\ worker'.killed = worker.killed
    BY <1>1, <1>3, <1>7
  <2> QED  BY <1>0, <1>2, <1>7, <2>1 DEF Skips, PostsNoMessage, task
<1>8. CASE task.kind = "finish" /\ worker' = [w EXCEPT !.killed = TRUE] /\ UNCHANGED <<mainQueue, heard>>
  <2>1. /\ worker'.phase = "loop" /\ worker'.queue = Tail(worker.queue)
        /\ worker'.closing = worker.closing
        /\ worker'.terminated = worker.terminated /\ worker'.killed
    BY <1>1, <1>3, <1>8
  <2> QED  BY <1>0, <1>2, <1>8, <2>1 DEF Skips, PostsNoMessage, task
<1> QED  BY <1>4, <1>5, <1>6, <1>7, <1>8 DEF TakeTask, task, w

(***************************************************************************)
(* The steps of the page and of the main thread.                           *)
(***************************************************************************)
LEMMA AskedIsShutDown ==
    ASSUME ChannelInv, ProxyInv', proxy'.asked,
           worker' = IF ~proxy.asked /\ proxy.thread THEN Stop(worker) ELSE worker,
           UNCHANGED <<heard, shown>>
    PROVE  ChannelInv'
<1>0. Typing /\ Shutdown /\ ThreadIsKnown /\ worker.queue \in Seq(WorkerTask)
  BY DEF ChannelInv, ProxyInv, Typing
<1>1. Shutdown'
  <2>1. CASE ~proxy.asked /\ proxy.thread /\ HasContext(worker)
    <3>1. worker' = [worker EXCEPT !.terminated = TRUE, !.queue = Append(@, Simple("start"))]
      BY <2>1 DEF Stop
    <3>2. worker'.terminated /\ worker'.phase \in {"script", "load", "loop"}
      BY <1>0, <2>1, <3>1 DEF Typing, HasContext
    <3> QED  BY <3>2 DEF Shutdown
  <2>2. CASE ~proxy.asked /\ proxy.thread /\ ~HasContext(worker)
    <3>1. worker' = [worker EXCEPT !.killed = TRUE]
      BY <2>2 DEF Stop
    <3>2. worker'.killed /\ worker'.terminated = worker.terminated /\ worker'.queue = worker.queue
      BY <1>0, <3>1 DEF Typing
    <3> QED  BY <1>0, <3>2 DEF Shutdown, ShutdownTasks
  <2>3. CASE ~(~proxy.asked /\ proxy.thread)
    <3>1. worker' = worker
      BY <2>3
    <3>2. proxy.asked \/ worker.phase \in {"none", "ended"}
      BY <1>0, <2>3 DEF ThreadIsKnown
    <3> QED  BY <1>0, <3>1, <3>2 DEF Shutdown, ShutdownTasks
  <2> QED  BY <2>1, <2>2, <2>3
<1>2. ToWorkerInOrder' /\ ToPageInOrder'
  BY DEF ToWorkerInOrder, ToPageInOrder, ToWorkerOpen, ToPageOpen
<1>3. Histories'
  BY DEF ChannelInv, Histories
<1> QED  BY <1>1, <1>2, <1>3 DEF ChannelInv

LEMMA TerminateKeepsOrder ==
    ASSUME ChannelInv, ProxyInv', TerminateWorkerContext, UNCHANGED <<heard, shown>>
    PROVE  ChannelInv'
<1>1. proxy'.asked
  BY DEF ChannelInv, ProxyInv, Typing, TerminateWorkerContext
<1> QED  BY <1>1, AskedIsShutDown DEF TerminateWorkerContext

LEMMA CollectKeepsOrder ==
    ASSUME ChannelInv, ProxyInv', CollectWorker
    PROVE  ChannelInv'
<1>0. Typing /\ UNCHANGED <<heard, shown>>
  BY DEF ChannelInv, ProxyInv, CollectWorker, history
<1>1. proxy'.asked
  BY <1>0 DEF CollectWorker, Typing, WorkerContextDestroyed
<1>2. worker' = IF ~proxy.asked /\ proxy.thread THEN Stop(worker) ELSE worker
  BY DEF CollectWorker
<1> QED  BY <1>0, <1>1, <1>2, AskedIsShutDown

LEMMA PostKeepsOrder ==
    ASSUME ChannelInv, ProxyInv', PostMessage
    PROVE  ChannelInv'
<1>0. /\ Typing /\ Shutdown /\ Histories /\ ToWorkerInOrder /\ ThreadIsKnown
      /\ worker.queue \in Seq(WorkerTask) /\ proxy.early \in Seq(MessageTask)
      /\ posted \in Nat /\ Len(heard) \in Nat
  BY DEF ChannelInv, ProxyInv, Typing, Histories
<1>1. /\ proxy.object /\ ~proxy.asked /\ posted < MaxPosts /\ posted' = posted + 1
      /\ UNCHANGED <<source, mainQueue, heard, said, shown>>
  BY DEF PostMessage
<1>2. Message(posted') \in MessageTask
  <2>1. posted' \in 1..MaxPosts
    BY <1>0, <1>1, BoundsAssumption
  <2> QED  BY <2>1 DEF MessageTask
<1>3. /\ Message(posted') \in WorkerTask
      /\ Message(posted').kind = "message" /\ Message(posted').id = posted + 1
  BY <1>1, <1>2, MessageTasks DEF Message
<1>4. Histories'
  BY <1>0, <1>1 DEF Histories
<1>5. CASE proxy.thread
  <2>1. /\ proxy' = [proxy EXCEPT !.unconfirmed = @ + 1]
        /\ worker' = [worker EXCEPT !.queue = Append(@, Message(posted'))]
    BY <1>5 DEF PostMessage
  <2>2. /\ proxy'.object = proxy.object /\ proxy'.asked = proxy.asked /\ proxy'.thread
        /\ worker'.queue = Append(worker.queue, Message(posted'))
        /\ worker'.phase = worker.phase /\ worker'.closing = worker.closing
        /\ worker'.terminated = worker.terminated /\ worker'.killed = worker.killed
    BY <1>0, <1>5, <2>1 DEF Typing
  <2>3. ToWorkerInOrder'
    <3> SUFFICES ASSUME ToWorkerOpen' PROVE InOrder(worker'.queue, Len(heard'), posted')
      BY <2>2 DEF ToWorkerInOrder
    <3>1. InOrder(worker.queue, Len(heard), posted)
      BY <1>0, <1>1, <1>5, <2>2 DEF ToWorkerInOrder, ToWorkerOpen
    <3>2. InOrder(Append(worker.queue, Message(posted')), Len(heard), posted + 1)
      BY <1>0, <1>3, <3>1, OrderAfterMessage
    <3> QED  BY <1>1, <2>2, <3>2
  <2>4. Shutdown'
    <3>1. \A kind \in {"start", "finish"} :
            Places(Append(worker.queue, Message(posted')), kind) = Places(worker.queue, kind)
      BY <1>0, <1>3, OtherAppended
    <3> QED  BY <1>0, <2>2, <3>1 DEF Shutdown, ShutdownTasks
  <2>5. ToPageInOrder'
    BY <1>1, <2>2, PageOrderKept DEF PostsNoMessage
  <2> QED  BY <1>4, <2>3, <2>4, <2>5 DEF ChannelInv
<1>6. CASE ~proxy.thread
  <2>1. /\ proxy' = [proxy EXCEPT !.early = Append(@, Message(posted'))]
        /\ worker' = worker
    BY <1>6 DEF PostMessage
  <2>2. /\ proxy'.object = proxy.object /\ proxy'.asked = proxy.asked /\ ~proxy'.thread
        /\ proxy'.early = Append(proxy.early, Message(posted'))
    BY <1>0, <1>6, <2>1 DEF Typing
  <2>3. ToWorkerInOrder'
    <3> SUFFICES ASSUME ToWorkerOpen'
                 PROVE  /\ source = "loading" /\ worker.queue = <<>> /\ heard = <<>>
                        /\ InOrder(proxy'.early, 0, posted')
      BY <1>1, <2>1, <2>2 DEF ToWorkerInOrder
    <3>1. ToWorkerOpen
      BY <1>1, <2>1, <2>2 DEF ToWorkerOpen
    <3>2. /\ source = "loading" /\ worker.queue = <<>> /\ heard = <<>>
          /\ InOrder(proxy.early, 0, posted)
      BY <1>0, <1>6, <3>1 DEF ToWorkerInOrder
    <3>3. InOrder(Append(proxy.early, Message(posted')), 0, posted + 1)
      BY <1>0, <1>2, <1>3, <3>2, OrderAfterMessage
    <3> QED  BY <1>1, <2>2, <3>2, <3>3
  <2>4. Shutdown'
    BY <1>0, <2>1, <2>2 DEF Shutdown, ShutdownTasks
  <2>5. ToPageInOrder'
    BY <1>1, <2>2, PageOrderKept DEF PostsNoMessage
  <2> QED  BY <1>4, <2>3, <2>4, <2>5 DEF ChannelInv
<1> QED  BY <1>5, <1>6

LEMMA AnswerKeepsOrder ==
    ASSUME ChannelInv, ProxyInv', LoaderAnswers
    PROVE  ChannelInv'
<1>0. /\ Typing /\ Shutdown /\ Histories /\ ToWorkerInOrder
      /\ worker.queue \in Seq(WorkerTask) /\ posted \in Nat /\ Len(heard) \in Nat
  BY DEF ChannelInv, ProxyInv, Typing, Histories
<1>1. UNCHANGED <<proxy, source, mainQueue, posted, heard, said, shown>>
  BY DEF LoaderAnswers, history
<1>2. Histories' /\ ToPageInOrder'
  BY <1>0, <1>1, PageOrderKept DEF Histories, PostsNoMessage
<1>3. CASE worker' = worker
  BY <1>0, <1>1, <1>2, <1>3
  DEF ChannelInv, Shutdown, ShutdownTasks, ToWorkerInOrder, ToWorkerOpen
<1>4. CASE worker' = [worker EXCEPT !.queue = Append(@, Simple("answer"))]
  <2>1. /\ worker'.queue = Append(worker.queue, Simple("answer"))
        /\ worker'.phase = worker.phase /\ worker'.closing = worker.closing
        /\ worker'.terminated = worker.terminated /\ worker'.killed = worker.killed
    BY <1>0, <1>4 DEF Typing
  <2>2. Shutdown'
    <3>1. \A kind \in {"start", "finish"} :
            Places(Append(worker.queue, Simple("answer")), kind) = Places(worker.queue, kind)
      BY <1>0, WorkerTasks, OtherAppended
    <3> QED  BY <1>0, <1>1, <2>1, <3>1 DEF Shutdown, ShutdownTasks
  <2>3. ToWorkerInOrder'
    <3>1. worker.phase = "load"
      BY DEF ChannelInv, ProxyInv, OneLoad, LoaderAnswers
    <3>2. proxy.thread
      BY <3>1, LivingThread DEF ChannelInv
    <3> SUFFICES ASSUME ToWorkerOpen' PROVE InOrder(worker'.queue, Len(heard'), posted')
      BY <1>1, <3>2 DEF ToWorkerInOrder
    <3>3. InOrder(worker.queue, Len(heard), posted)
      BY <1>0, <1>1, <2>1, <3>2 DEF ToWorkerInOrder, ToWorkerOpen
    <3>4. InOrder(Append(worker.queue, Simple("answer")), Len(heard), posted)
      BY <1>0, <3>3, WorkerTasks, OrderAfterOther
    <3> QED  BY <1>1, <2>1, <3>4
  <2> QED  BY <1>2, <2>2, <2>3 DEF ChannelInv
<1> QED  BY <1>3, <1>4 DEF LoaderAnswers

LEMMA NotifyKeepsOrder ==
    ASSUME ChannelInv, ProxyInv', NotifyFinished
    PROVE  ChannelInv'
<1>0. /\ Typing /\ Shutdown /\ Histories /\ ToWorkerInOrder
      /\ proxy.early \in Seq(MessageTask)
  BY DEF ChannelInv, ProxyInv, Typing
<1>1. /\ source = "loading" /\ worker.phase = "none" /\ ~proxy.thread /\ proxy.object
      /\ UNCHANGED <<mainQueue, posted, heard, said, shown>>
  BY <1>0 DEF ChannelInv, ProxyInv, ThreadIsKnown, NotifyFinished, history
<1>2. Histories'
  BY <1>0, <1>1 DEF Histories
<1>3. CASE source' = "failed" /\ UNCHANGED <<proxy, worker>>
  <2>1. Shutdown' /\ ToWorkerInOrder'
    BY <1>0, <1>3 DEF Shutdown, ShutdownTasks, ToWorkerInOrder, ToWorkerOpen
  <2>2. ToPageInOrder'
    BY <1>1, <1>3, PageOrderKept DEF PostsNoMessage
  <2> QED  BY <1>2, <2>1, <2>2 DEF ChannelInv
<1>4. CASE source' = "loaded" /\ \E started \in Starts : WorkerThreadCreated(worker, started)
  <2>1. PICK started \in Starts : WorkerThreadCreated(worker, started)
    BY <1>4
  <2>2. PICK p \in {"created", "failed"} :
            IF proxy.asked
            THEN /\ proxy' = [proxy EXCEPT !.thread = TRUE]
                 /\ worker' = [worker EXCEPT !.phase = p, !.killed = TRUE]
            ELSE /\ proxy' = [proxy EXCEPT !.thread = TRUE, !.hadPending = TRUE,
                                           !.unconfirmed = Len(proxy.early), !.early = <<>>]
                 /\ worker' = [worker EXCEPT !.phase = p, !.queue = @ \o proxy.early]
    BY <1>0, <2>1 DEF WorkerThreadCreated, AdoptEarlyTasks, Typing
  <2>3. CASE proxy.asked
    <3>1. /\ proxy' = [proxy EXCEPT !.thread = TRUE]
          /\ worker' = [worker EXCEPT !.phase = p, !.killed = TRUE]
      BY <2>2, <2>3
    <3>2. /\ proxy'.asked /\ proxy'.object /\ worker'.killed /\ worker'.phase = p
          /\ worker'.terminated = worker.terminated /\ worker'.queue = worker.queue
      BY <1>0, <1>1, <2>3, <3>1 DEF Typing
    <3>3. Shutdown'
      BY <1>0, <3>2 DEF Shutdown, ShutdownTasks
    <3>4. ToWorkerInOrder' /\ ToPageInOrder'
      BY <3>2 DEF ToWorkerInOrder, ToPageInOrder, ToWorkerOpen, ToPageOpen
    <3> QED  BY <1>2, <3>3, <3>4 DEF ChannelInv
  <2>4. CASE ~proxy.asked
    <3>1. /\ proxy' = [proxy EXCEPT !.thread = TRUE, !.hadPending = TRUE,
                                    !.unconfirmed = Len(proxy.early), !.early = <<>>]
          /\ worker' = [worker EXCEPT !.phase = p, !.queue = @ \o proxy.early]
      BY <2>2, <2>4
    <3>2. /\ ~proxy'.asked /\ proxy'.object /\ proxy'.thread /\ worker'.phase = p
          /\ worker'.terminated = worker.terminated /\ worker'.killed = worker.killed
          /\ worker'.closing = worker.closing
          /\ worker'.queue = worker.queue \o proxy.early
      BY <1>0, <1>1, <2>4, <3>1 DEF Typing
    <3>3. ~worker.terminated /\ ~worker.killed /\ ShutdownTasks = {}
      BY <1>0, <2>4 DEF Shutdown
    <3>4. ShutdownTasks' = {}
      <4>1. ASSUME NEW kind \in {"start", "finish"}
            PROVE  Places(worker.queue \o proxy.early, kind) = {}
        <5>1. proxy.early \in Seq(WorkerTask) /\ Places(proxy.early, kind) = {}
          BY <1>0, MessageTasks DEF Places
        <5>2. worker.queue \in Seq(WorkerTask) /\ Places(worker.queue, kind) = {}
          BY <1>0, <3>3 DEF Typing, ShutdownTasks
        <5> QED  BY <5>1, <5>2, PlacesAfterConcat
      <4> QED  BY <3>2, <4>1 DEF ShutdownTasks
    <3>5. Shutdown'
      BY <3>2, <3>3, <3>4 DEF Shutdown
    <3>6. ToWorkerInOrder'
      <4> SUFFICES ASSUME ToWorkerOpen' PROVE InOrder(worker'.queue, Len(heard'), posted')
        BY <3>2 DEF ToWorkerInOrder
      <4>1. ToWorkerOpen
        BY <1>1, <2>4, <3>2 DEF ToWorkerOpen
      <4>2. worker.queue = <<>> /\ heard = <<>> /\ InOrder(proxy.early, 0, posted)
        BY <1>0, <1>1, <4>1 DEF ToWorkerInOrder
      <4>3. worker'.queue = proxy.early
        BY <1>0, <3>2, <4>2
      <4>4. Len(heard') = 0
        BY <1>1, <4>2
      <4> QED  BY <1>1, <4>2, <4>3, <4>4
    <3>7. ToPageInOrder'
      BY <1>1, <2>4, PageOrderKept DEF PostsNoMessage
    <3> QED  BY <1>2, <3>5, <3>6, <3>7 DEF ChannelInv
  <2> QED  BY <2>3, <2>4
<1> QED  BY <1>3, <1>4 DEF NotifyFinished

LEMMA TaskKeepsOrder ==
    ASSUME ChannelInv, ProxyInv', PerformMainTask
    PROVE  ChannelInv'
<1> DEFINE task == Head(mainQueue)
<1>0. /\ Typing /\ Shutdown /\ Histories /\ ToWorkerInOrder /\ ToPageInOrder
      /\ mainQueue \in Seq(MainTask) /\ Len(shown) \in Nat /\ said \in Nat /\ shown \in Seq(Nat)
  BY DEF ChannelInv, ProxyInv, Typing, Histories
<1>1. /\ mainQueue # <<>> /\ mainQueue' = Tail(mainQueue)
      /\ UNCHANGED <<source, posted, heard, said>>
  BY DEF PerformMainTask
<1>2. task \in MainTask
  BY <1>0, <1>1, PlacesAfterTail
<1> HIDE DEF task
\* A task that leaves both ends where they are.
<1>3. ASSUME proxy'.object = proxy.object, proxy'.asked = proxy.asked,
             proxy'.thread = proxy.thread, proxy'.early = proxy.early,
             worker' = worker, Histories', ToPageInOrder'
      PROVE  ChannelInv'
  <2>1. Shutdown' /\ ToWorkerInOrder'
    BY <1>0, <1>1, <1>3 DEF Shutdown, ShutdownTasks, ToWorkerInOrder, ToWorkerOpen
  <2> QED  BY <1>3, <2>1 DEF ChannelInv
<1>4. ASSUME proxy'.object = proxy.object, proxy'.asked = proxy.asked,
             task.kind # "message", shown' = shown
      PROVE  Histories' /\ ToPageInOrder'
  <2>1. ToPageOpen' => InOrder(Tail(mainQueue), Len(shown), said)
    BY <1>0, <1>1, <1>4, OrderAfterOtherTaken DEF ToPageInOrder, ToPageOpen, task
  <2> QED  BY <1>0, <1>1, <1>4, <2>1 DEF Histories, ToPageInOrder
<1>5. CASE task.kind = "message" /\ ShowMessage(task.id)
  <2>1. UNCHANGED <<proxy, worker>>
    BY <1>5 DEF ShowMessage
  <2>2. CASE proxy.object /\ ~proxy.asked
    <3>1. shown' = Append(shown, task.id)
      BY <1>5, <2>2 DEF ShowMessage
    <3>2. InOrder(mainQueue, Len(shown), said)
      BY <1>0, <2>2 DEF ToPageInOrder, ToPageOpen
    <3>3. task.id = Len(shown) + 1 /\ InOrder(Tail(mainQueue), Len(shown) + 1, said)
      BY <1>0, <1>1, <1>5, <3>2, OrderAfterMessageTaken DEF task
    <3>4. Len(shown') = Len(shown) + 1 /\ shown' \in Seq(Nat)
      <4>1. task.id \in Nat
        BY <1>0, <3>3
      <4> QED  BY <1>0, <3>1, <4>1
    <3>5. Histories' /\ ToPageInOrder'
      BY <1>0, <1>1, <3>3, <3>4 DEF Histories, ToPageInOrder
    <3> QED  BY <1>3, <2>1, <3>5
  <2>3. CASE ~(proxy.object /\ ~proxy.asked)
    <3>1. Histories' /\ ToPageInOrder'
      BY <1>0, <1>1, <1>5, <2>1, <2>3 DEF ShowMessage, Histories, ToPageInOrder, ToPageOpen
    <3> QED  BY <1>3, <2>1, <3>1
  <2> QED  BY <2>2, <2>3
<1>6. CASE task.kind = "exception" /\ ReportException
  BY <1>3, <1>4, <1>6 DEF ReportException
<1>7. CASE task.kind = "report" /\ ReportPendingActivity(task.confirming, task.pending)
  <2>1. /\ proxy'.object = proxy.object /\ proxy'.asked = proxy.asked
        /\ proxy'.thread = proxy.thread /\ proxy'.early = proxy.early
        /\ worker' = worker /\ shown' = shown
    BY <1>0, <1>7 DEF ReportPendingActivity, Typing
  <2> QED  BY <1>3, <1>4, <1>7, <2>1
<1>8. CASE TerminateWorkerContext /\ shown' = shown
  BY <1>1, <1>8, TerminateKeepsOrder
<1>9. CASE task.kind = "destroyed" /\ proxy' = WorkerContextDestroyed(proxy) /\ UNCHANGED <<worker, shown>>
  <2>1. worker.phase = "ended" /\ proxy.thread
    BY <1>1, <1>9, TaskTaken DEF ChannelInv, task
  <2>2. /\ proxy'.object = proxy.object /\ proxy'.asked
    BY <1>0, <1>9 DEF WorkerContextDestroyed, Typing
  <2>3. Shutdown'
    BY <1>0, <1>9, <2>1, <2>2 DEF Shutdown, ShutdownTasks
  <2>4. Histories' /\ ToWorkerInOrder' /\ ToPageInOrder'
    BY <1>0, <1>1, <1>9, <2>2
    DEF Histories, ToWorkerInOrder, ToPageInOrder, ToWorkerOpen, ToPageOpen
  <2> QED  BY <2>3, <2>4 DEF ChannelInv
<1>10. CASE task.kind = "load" /\ UNCHANGED <<proxy, worker, shown>>
  BY <1>3, <1>4, <1>10
<1> QED  BY <1>5, <1>6, <1>7, <1>8, <1>9, <1>10 DEF PerformMainTask, task

(***************************************************************************)
(* The invariant holds.                                                    *)
(***************************************************************************)
LEMMA ChannelInit == Init => ChannelInv
<1> SUFFICES ASSUME Init PROVE ChannelInv
  OBVIOUS
<1>1. ProxyInv
  BY InvInit
<1>2. Messages(<<>>) = {} /\ Len(<<>>) = 0 /\ <<>> \in Seq(Nat)
  BY DEF Messages, Places
<1>3. InOrder(<<>>, 0, 0)
  BY <1>2 DEF InOrder
<1>4. Histories /\ Shutdown
  BY <1>2 DEF Init, Histories, Shutdown, ShutdownTasks, Places
<1>5. ToWorkerInOrder /\ ToPageInOrder
  BY <1>2, <1>3 DEF Init, ToWorkerInOrder, ToPageInOrder
<1> QED  BY <1>1, <1>4, <1>5 DEF ChannelInv

LEMMA ChannelNext == ChannelInv /\ [Next]_vars => ChannelInv'
<1> SUFFICES ASSUME ChannelInv, [Next]_vars PROVE ChannelInv'
  OBVIOUS
<1>0. ProxyInv'
  BY InvNext DEF ChannelInv
<1>1. CASE PageStep
  <2>1. CASE Terminate
    <3>1. TerminateWorkerContext /\ UNCHANGED <<heard, shown>>
      BY <2>1 DEF Terminate, history
    <3> QED  BY <1>0, <3>1, TerminateKeepsOrder
  <2> QED
    BY <1>0, <1>1, <2>1, PostKeepsOrder, NotifyKeepsOrder, CollectKeepsOrder DEF PageStep
<1>2. CASE PerformMainTask \/ LoaderAnswers
  BY <1>0, <1>2, TaskKeepsOrder, AnswerKeepsOrder
<1>3. CASE ScriptStep \/ ScriptEnds \/ ThreadStep \/ TimerFires
  <2>1. ThreadMoves
    BY <1>3, ScriptMoves, OtherThreadMoves, AnswerMoves, TaskMoves DEF ThreadStep
  <2> QED  BY <1>0, <2>1, ThreadKeepsOrder
<1>4. CASE UNCHANGED vars
  <2>1. Histories' /\ Shutdown'
    BY <1>4 DEF vars, history, ChannelInv, Histories, Shutdown, ShutdownTasks
  <2>2. ToWorkerInOrder' /\ ToPageInOrder'
    BY <1>4
    DEF vars, history, ChannelInv, ToWorkerInOrder, ToPageInOrder, ToWorkerOpen, ToPageOpen
  <2> QED  BY <1>0, <2>1, <2>2 DEF ChannelInv
<1> QED  BY <1>1, <1>2, <1>3, <1>4 DEF Next

(***************************************************************************)
(* A direction that was closed stays closed.                               *)
(***************************************************************************)
ClosedForGood == (ToWorkerOpen' => ToWorkerOpen) /\ (ToPageOpen' => ToPageOpen)

LEMMA ThreadClosesForGood ==
    ASSUME ThreadLives PROVE ClosedForGood
BY DEF ThreadLives, ClosedForGood, ToWorkerOpen, ToPageOpen

LEMMA PageClosesForGood ==
    ASSUME ProxyInv, PageStep \/ PerformMainTask \/ LoaderAnswers PROVE ClosedForGood
<1>0. Typing /\ (source = "failed" => worker.phase = "none")
  BY DEF ProxyInv, ThreadIsKnown
<1>1. CASE PageStep
  <2>1. CASE PostMessage
    <3>1. /\ proxy'.object = proxy.object /\ proxy'.asked = proxy.asked /\ source' = source
          /\ worker'.closing = worker.closing /\ worker'.phase = worker.phase
      BY <1>0, <2>1 DEF PostMessage, Typing
    <3> QED  BY <3>1 DEF ClosedForGood, ToWorkerOpen, ToPageOpen
  <2>2. CASE Terminate \/ CollectWorker
    <3>1. proxy'.asked
      BY <1>0, <2>2
      DEF Terminate, TerminateWorkerContext, CollectWorker, WorkerContextDestroyed, Typing
    <3> QED  BY <3>1 DEF ClosedForGood, ToWorkerOpen, ToPageOpen
  <2>3. CASE NotifyFinished
    <3>1. source = "loading" /\ worker.phase = "none"
      BY <2>3 DEF NotifyFinished, ProxyInv, ThreadIsKnown, Typing
    <3>2. proxy'.object = proxy.object /\ proxy'.asked = proxy.asked /\ worker'.closing = worker.closing
      BY <1>0, <2>3 DEF NotifyFinished, WorkerThreadCreated, AdoptEarlyTasks, Typing
    <3> QED  BY <3>1, <3>2 DEF ClosedForGood, ToWorkerOpen, ToPageOpen
  <2> QED  BY <1>1, <2>1, <2>2, <2>3 DEF PageStep
<1>2. CASE PerformMainTask
  <2>1. CASE TerminateWorkerContext \/ proxy' = WorkerContextDestroyed(proxy)
    <3>1. proxy'.asked
      BY <1>0, <2>1 DEF TerminateWorkerContext, WorkerContextDestroyed, Typing
    <3> QED  BY <3>1 DEF ClosedForGood, ToWorkerOpen, ToPageOpen
  <2>2. CASE /\ worker' = worker
             /\ \/ proxy' = proxy
                \/ \E c, p : ReportPendingActivity(c, p)
    <3>1. proxy'.object = proxy.object /\ proxy'.asked = proxy.asked /\ source' = source
      BY <1>0, <1>2, <2>2 DEF PerformMainTask, ReportPendingActivity, Typing
    <3> QED  BY <2>2, <3>1 DEF ClosedForGood, ToWorkerOpen, ToPageOpen
  <2> QED
    BY <1>2, <2>1, <2>2
    DEF PerformMainTask, ShowMessage, ReportException, ReportPendingActivity
<1>3. CASE LoaderAnswers
  <2>1. /\ proxy' = proxy /\ source' = source
        /\ worker'.closing = worker.closing /\ worker'.phase = worker.phase
    BY <1>0, <1>3 DEF LoaderAnswers, Typing
  <2> QED  BY <2>1 DEF ClosedForGood, ToWorkerOpen, ToPageOpen
<1> QED  BY <1>1, <1>2, <1>3

(***************************************************************************)
(* Every step is a step of each channel or leaves it alone.                *)
(***************************************************************************)
LEMMA ToWorkerQuiet ==
    ASSUME UNCHANGED <<posted, heard>>, ToWorkerOpen' => ToWorkerOpen
    PROVE  [ToWorker!Next]_(ToWorker!vars)
<1>1. CASE ToWorkerOpen' <=> ToWorkerOpen
  BY <1>1 DEF ToWorker!vars, ToWorkerOpen
<1>2. CASE ToWorkerOpen /\ ~ToWorkerOpen'
  BY <1>2 DEF ToWorker!Next, ToWorker!Close, ToWorkerOpen
<1> QED  BY <1>1, <1>2

LEMMA ToPageQuiet ==
    ASSUME UNCHANGED <<said, shown>>, ToPageOpen' => ToPageOpen
    PROVE  [ToPage!Next]_(ToPage!vars)
<1>1. CASE ToPageOpen' <=> ToPageOpen
  BY <1>1 DEF ToPage!vars, ToPageOpen
<1>2. CASE ToPageOpen /\ ~ToPageOpen'
  BY <1>2 DEF ToPage!Next, ToPage!Close, ToPageOpen
<1> QED  BY <1>1, <1>2

LEMMA ToWorkerStep ==
    ASSUME ChannelInv, [Next]_vars PROVE [ToWorker!Next]_(ToWorker!vars)
<1>0. /\ ProxyInv /\ Typing /\ ToWorkerInOrder /\ Shutdown
      /\ worker.queue \in Seq(WorkerTask) /\ posted \in Nat /\ Len(heard) \in Nat
  BY DEF ChannelInv, ProxyInv, Typing, Histories
<1>1. CASE PostMessage
  <2>1. posted' = posted + 1 /\ heard' = heard /\ source' = source
    BY <1>1 DEF PostMessage
  <2>2. /\ proxy'.object = proxy.object /\ proxy'.asked = proxy.asked
        /\ worker'.closing = worker.closing /\ worker'.phase = worker.phase
    BY <1>0, <1>1 DEF PostMessage, Typing
  <2>3. ToWorker!Send
    BY <2>1, <2>2 DEF ToWorker!Send
  <2> QED  BY <2>3 DEF ToWorker!Next
<1>2. CASE Terminate \/ NotifyFinished \/ CollectWorker \/ PerformMainTask \/ LoaderAnswers
  <2>1. UNCHANGED <<posted, heard>>
    BY <1>2 DEF Terminate, NotifyFinished, CollectWorker, PerformMainTask, LoaderAnswers, history
  <2> QED  BY <1>0, <1>2, <2>1, PageClosesForGood, ToWorkerQuiet DEF PageStep, ClosedForGood
<1>3. CASE ScriptStep \/ ScriptEnds \/ ThreadStep \/ TimerFires
  <2>1. ThreadLives /\ QueueStep
    BY <1>3, ScriptMoves, OtherThreadMoves, AnswerMoves, TaskMoves DEF ThreadStep, ThreadMoves
  <2>2. posted' = posted /\ (ToWorkerOpen' => ToWorkerOpen)
    BY <2>1, ThreadClosesForGood DEF ThreadLives, ClosedForGood
  <2>3. CASE heard' = heard
    BY <2>2, <2>3, ToWorkerQuiet
  <2>4. CASE Hears
    <3>1. worker.phase \notin {"none", "ended", "failed"}
      BY <2>1 DEF ThreadLives
    <3>2. proxy.thread /\ source = "loaded"
      BY <1>0, <3>1, LivingThread
    <3>3. ~proxy.asked /\ proxy.object
      BY <1>0, <2>4, <3>1 DEF Shutdown, Hears, Typing
    <3>4. ToWorkerOpen
      BY <2>4, <3>1, <3>2, <3>3 DEF ToWorkerOpen, Hears
    <3>5. ToWorkerOpen'
      BY <2>1, <2>4, <3>4 DEF ToWorkerOpen, Hears, ThreadLives
    <3>6. InOrder(worker.queue, Len(heard), posted)
      BY <1>0, <3>2, <3>4 DEF ToWorkerInOrder
    <3>7. Head(worker.queue).id = Len(heard) + 1 /\ Len(heard) < posted
      BY <1>0, <2>4, <3>6, OrderAfterMessageTaken DEF Hears
    <3>8. ToWorker!Receive
      BY <2>2, <2>4, <3>4, <3>5, <3>7 DEF ToWorker!Receive, ToWorkerOpen, Hears
    <3> QED  BY <3>8 DEF ToWorker!Next
  <2> QED  BY <2>1, <2>3, <2>4 DEF QueueStep, Keeps, Adds, Removes, Skips
<1>4. CASE UNCHANGED vars
  BY <1>4, ToWorkerQuiet DEF vars, history, ToWorkerOpen
<1> QED  BY <1>1, <1>2, <1>3, <1>4 DEF Next, PageStep

LEMMA ToPageStep ==
    ASSUME ChannelInv, [Next]_vars PROVE [ToPage!Next]_(ToPage!vars)
<1>0. /\ ProxyInv /\ Typing /\ ToPageInOrder
      /\ mainQueue \in Seq(MainTask) /\ said \in Nat /\ Len(shown) \in Nat
  BY DEF ChannelInv, ProxyInv, Typing, Histories
<1>1. CASE PageStep \/ LoaderAnswers
  <2>1. UNCHANGED <<said, shown>>
    BY <1>1 DEF PageStep, PostMessage, Terminate, NotifyFinished, CollectWorker, LoaderAnswers, history
  <2> QED  BY <1>0, <1>1, <2>1, PageClosesForGood, ToPageQuiet DEF ClosedForGood
<1>2. CASE PerformMainTask
  <2>1. said' = said /\ (ToPageOpen' => ToPageOpen)
    BY <1>0, <1>2, PageClosesForGood DEF PerformMainTask, ClosedForGood
  <2>2. CASE shown' = shown
    BY <2>1, <2>2, ToPageQuiet
  <2>3. CASE shown' # shown
    <3>1. /\ mainQueue # <<>> /\ Head(mainQueue).kind = "message"
          /\ shown' = Append(shown, Head(mainQueue).id) /\ ToPageOpen /\ proxy' = proxy
      BY <1>2, <2>3
      DEF PerformMainTask, ShowMessage, ReportException, ReportPendingActivity, ToPageOpen
    <3>2. InOrder(mainQueue, Len(shown), said)
      BY <1>0, <3>1 DEF ToPageInOrder
    <3>3. Head(mainQueue).id = Len(shown) + 1 /\ Len(shown) < said
      BY <1>0, <3>1, <3>2, OrderAfterMessageTaken
    <3>4. ToPage!Receive
      BY <2>1, <3>1, <3>3 DEF ToPage!Receive, ToPageOpen
    <3> QED  BY <3>4 DEF ToPage!Next
  <2> QED  BY <2>2, <2>3
<1>3. CASE ScriptStep \/ ScriptEnds \/ ThreadStep \/ TimerFires
  <2>1. ThreadMoves
    BY <1>3, ScriptMoves, OtherThreadMoves, AnswerMoves, TaskMoves DEF ThreadStep
  <2>2. shown' = shown /\ proxy' = proxy
    BY <2>1 DEF ThreadMoves, ThreadLives
  <2>3. CASE PostsNoMessage
    BY <2>2, <2>3, ToPageQuiet DEF PostsNoMessage, ToPageOpen
  <2>4. CASE PostsMessage
    <3>1. ToPage!Send
      BY <2>2, <2>4 DEF ToPage!Send, PostsMessage
    <3> QED  BY <3>1 DEF ToPage!Next
  <2> QED  BY <2>1, <2>3, <2>4 DEF ThreadMoves
<1>4. CASE UNCHANGED vars
  BY <1>4, ToPageQuiet DEF vars, history, ToPageOpen
<1> QED  BY <1>1, <1>2, <1>3, <1>4 DEF Next

(***************************************************************************)
(* The script gets the messages of the page in order, none skipped and     *)
(* none twice, and none after the worker was closed, terminated or         *)
(* collected (postMessageToWorkerContext, workerThreadCreated,             *)
(* MessageWorkerContextTask).                                              *)
(***************************************************************************)
THEOREM PageTalksInOrder == Spec => ToWorkerIsChannel
<1>1. Init => ToWorker!Init
  BY DEF Init, ToWorker!Init
<1>2. ChannelInv /\ [Next]_vars => [ToWorker!Next]_(ToWorker!vars)
  BY ToWorkerStep
<1> QED
  BY <1>1, <1>2, ChannelInit, ChannelNext, PTL DEF Spec, ToWorkerIsChannel, ToWorker!Spec

(***************************************************************************)
(* The Worker object gets the messages of the script in order, none        *)
(* skipped and none twice, and none after terminate() (MessageWorkerTask). *)
(* That they do arrive is left to the model checker.                       *)
(***************************************************************************)
THEOREM ScriptTalksInOrder == Spec => ToPage!Spec
<1>1. Init => ToPage!Init
  BY DEF Init, ToPage!Init
<1>2. ChannelInv /\ [Next]_vars => [ToPage!Next]_(ToPage!vars)
  BY ToPageStep
<1> QED
  BY <1>1, <1>2, ChannelInit, ChannelNext, PTL DEF Spec, ToPage!Spec
=============================================================================
