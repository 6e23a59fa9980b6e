---------------------------- MODULE WorkersActivity ----------------------------
(***************************************************************************)
(* Proofs about what the proxy knows of the activity of the worker, for    *)
(* any number of messages and loads: each message is accounted for, and a  *)
(* worker whose object may be collected is at rest.                        *)
(***************************************************************************)
EXTENDS WorkersProofs, FiniteSetTheorems

(***************************************************************************)
(* Where the tasks of a set are in a queue, and how many there are.        *)
(***************************************************************************)
At(queue, tasks) == {i \in DOMAIN queue : queue[i] \in tasks}

Count(queue, tasks) == Cardinality(At(queue, tasks))

LEMMA CountType ==
    ASSUME NEW S, NEW q \in Seq(S), NEW T
    PROVE  /\ IsFiniteSet(At(q, T)) /\ Count(q, T) \in Nat
           /\ Count(q, T) = 0 <=> At(q, T) = {}
           /\ q = <<>> => Count(q, T) = 0
<1>1. DOMAIN q = 1..Len(q) /\ Len(q) \in Nat
  OBVIOUS
<1>2. IsFiniteSet(1..Len(q))
  BY <1>1, FS_Interval
<1>3. At(q, T) \in SUBSET (1..Len(q))
  BY <1>1 DEF At
<1>4. IsFiniteSet(At(q, T))
  BY <1>2, <1>3, FS_Subset
<1>5. Count(q, T) \in Nat /\ (Count(q, T) = 0 <=> At(q, T) = {})
  BY <1>4, FS_CardinalityType, FS_EmptySet DEF Count
<1>6. q = <<>> => At(q, T) = {}
  BY DEF At
<1> QED  BY <1>4, <1>5, <1>6

LEMMA CountAfterAppend ==
    ASSUME NEW S, NEW q \in Seq(S), NEW t \in S, NEW T
    PROVE  Count(Append(q, t), T) = IF t \in T THEN Count(q, T) + 1 ELSE Count(q, T)
<1>1. /\ DOMAIN Append(q, t) = 1..(Len(q) + 1)
      /\ DOMAIN q = 1..Len(q) /\ Len(q) \in Nat
      /\ \A i \in 1..Len(q) : Append(q, t)[i] = q[i]
      /\ Append(q, t)[Len(q) + 1] = t
  OBVIOUS
<1>2. At(Append(q, t), T) = IF t \in T THEN At(q, T) \cup {Len(q) + 1} ELSE At(q, T)
  BY <1>1 DEF At
<1>3. Len(q) + 1 \notin At(q, T)
  BY <1>1 DEF At
<1>4. IsFiniteSet(At(q, T))
  BY CountType
<1> QED  BY <1>2, <1>3, <1>4, FS_AddElement DEF Count

LEMMA CountRenamed ==
    ASSUME NEW A, NEW B, IsFiniteSet(A), NEW f \in [A -> B],
           \A x, y \in A : f[x] = f[y] => x = y,
           \A b \in B : \E x \in A : f[x] = b
    PROVE  Cardinality(A) = Cardinality(B)
<1>1. f \in Bijection(A, B)
  BY DEF Bijection, Injection, Surjection, IsInjective
<1>2. ExistsBijection(A, B)
  BY <1>1 DEF ExistsBijection
<1> QED  BY <1>2, FS_Bijection

LEMMA CountAfterRemove ==
    ASSUME NEW S, NEW q \in Seq(S), NEW k \in DOMAIN q, NEW r \in Seq(S), NEW T,
           DOMAIN r = 1..(Len(q) - 1),
           \A j \in 1..(Len(q) - 1) : r[j] = IF j < k THEN q[j] ELSE q[j + 1]
    PROVE  Count(q, T) = IF q[k] \in T THEN Count(r, T) + 1 ELSE Count(r, T)
<1> DEFINE rest == At(q, T) \ {k}
           f == [i \in rest |-> IF i < k THEN i ELSE i - 1]
<1>1. DOMAIN q = 1..Len(q) /\ Len(q) \in Nat /\ k \in 1..Len(q)
  OBVIOUS
<1>2. IsFiniteSet(At(q, T)) /\ Count(q, T) \in Nat
  BY CountType
<1>3. IsFiniteSet(rest) /\ Cardinality(rest) = IF k \in At(q, T) THEN Count(q, T) - 1 ELSE Count(q, T)
  BY <1>2, FS_RemoveElement DEF Count
<1>4. ASSUME NEW i \in rest
      PROVE  f[i] \in At(r, T) /\ f[i] = IF i < k THEN i ELSE i - 1
  <2>1. i \in 1..Len(q) /\ i # k /\ q[i] \in T
    BY <1>1, <1>4 DEF At
  <2>2. CASE i < k
    BY <1>1, <2>1, <2>2 DEF At
  <2>3. CASE ~(i < k)
    <3>1. i - 1 \in 1..(Len(q) - 1) /\ ~(i - 1 < k) /\ (i - 1) + 1 = i
      BY <1>1, <2>1, <2>3
    <3> QED  BY <2>1, <2>3, <3>1 DEF At
  <2> QED  BY <2>2, <2>3
<1>5. \A x, y \in rest : f[x] = f[y] => x = y
  <2> SUFFICES ASSUME NEW x \in rest, NEW y \in rest, f[x] = f[y] PROVE x = y
    OBVIOUS
  <2>1. x \in 1..Len(q) /\ y \in 1..Len(q) /\ x # k /\ y # k
    BY <1>1 DEF At
  <2> HIDE DEF f
  <2> QED  BY <1>1, <1>4, <2>1
<1>6. ASSUME NEW b \in At(r, T)
      PROVE  \E x \in rest : f[x] = b
  <2>1. b \in 1..(Len(q) - 1) /\ r[b] \in T
    BY <1>6 DEF At
  <2>2. CASE b < k
    <3>1. b \in rest
      BY <1>1, <2>1, <2>2 DEF At
    <3> QED  BY <2>2, <3>1
  <2>3. CASE ~(b < k)
    <3>1. b + 1 \in rest /\ ~(b + 1 < k) /\ (b + 1) - 1 = b
      BY <1>1, <2>1, <2>3 DEF At
    <3> QED  BY <3>1
  <2> QED  BY <2>2, <2>3
<1>7. f \in [rest -> At(r, T)]
  BY <1>4
<1>8. Cardinality(rest) = Count(r, T)
  <2> HIDE DEF rest, f
  <2> QED  BY <1>3, <1>5, <1>6, <1>7, CountRenamed DEF Count
<1>9. k \in At(q, T) <=> q[k] \in T
  BY DEF At
<1> QED  BY <1>2, <1>3, <1>8, <1>9

LEMMA CountAfterTail ==
    ASSUME NEW S, NEW q \in Seq(S), q # <<>>, NEW T
    PROVE  /\ Tail(q) \in Seq(S)
           /\ Count(q, T) = IF Head(q) \in T THEN Count(Tail(q), T) + 1 ELSE Count(Tail(q), T)
<1>1. /\ Tail(q) \in Seq(S) /\ Head(q) = q[1]
      /\ Len(q) \in Nat \ {0} /\ Len(Tail(q)) = Len(q) - 1
      /\ \A i \in 1..(Len(q) - 1) : Tail(q)[i] = q[i + 1]
  BY HeadTailProperties
<1>2. DOMAIN q = 1..Len(q) /\ DOMAIN Tail(q) = 1..(Len(q) - 1) /\ 1 \in DOMAIN q
  BY <1>1
<1> DEFINE r == Tail(q)
<1>3. \A j \in 1..(Len(q) - 1) : r[j] = IF j < 1 THEN q[j] ELSE q[j + 1]
  BY <1>1
<1>4. r \in Seq(S) /\ DOMAIN r = 1..(Len(q) - 1)
  BY <1>1, <1>2
<1> HIDE DEF r
<1>5. Count(q, T) = IF q[1] \in T THEN Count(r, T) + 1 ELSE Count(r, T)
  BY <1>2, <1>3, <1>4, CountAfterRemove
<1> QED  BY <1>1, <1>5 DEF r

LEMMA CountAfterRemoveAt ==
    ASSUME NEW S, NEW q \in Seq(S), NEW k \in DOMAIN q, NEW T, q[k] \notin T
    PROVE  RemoveAt(q, k) \in Seq(S) /\ Count(RemoveAt(q, k), T) = Count(q, T)
BY PlacesAfterRemove, RemoveKeeps, CountAfterRemove

LEMMA CountAll ==
    ASSUME NEW S, NEW q \in Seq(S), NEW T, S \subseteq T
    PROVE  Count(q, T) = Len(q)
<1>1. At(q, T) = 1..Len(q) /\ Len(q) \in Nat
  BY DEF At
<1>2. 1 \in Int /\ Len(q) \in Int
  BY <1>1
<1>3. Cardinality(1..Len(q)) = IF 1 > Len(q) THEN 0 ELSE Len(q) - 1 + 1
  BY <1>2, FS_Interval
<1> QED  BY <1>1, <1>3 DEF Count

(***************************************************************************)
(* The inductive invariant for the count: a script runs for a reason, and  *)
(* what the count covers are the messages that wait, the one the script    *)
(* handles and the confirmations under way. The rest is the type of what   *)
(* the proofs about the channels left open.                                *)
(***************************************************************************)
Mail == {t \in WorkerTask : t.kind = "message"}

Receipts == {t \in MainTask : t.kind = "report" /\ t.confirming}

Handled == IF worker.task = "message" THEN 1 ELSE 0

Owed == Count(worker.queue, Mail) + Handled + Count(mainQueue, Receipts)

Covers ==
    ~proxy.asked =>
        /\ proxy.unconfirmed >= Owed
        /\ ~worker.closing => proxy.unconfirmed = Owed

Working == worker.task # "none" <=> worker.phase \in {"script", "load"}

Fresh == worker.phase = "none" => worker.queue = <<>>

Records ==
    /\ proxy.unconfirmed \in Nat
    /\ heard \in Seq(1..MaxPosts) /\ shown \in Seq(1..MaxReplies)
    /\ loads \in Nat /\ premature \in BOOLEAN

AccountInv == ChannelInv /\ Covers /\ Working /\ Fresh /\ Records

LEMMA OwedType ==
    ASSUME Typing
    PROVE  /\ Count(worker.queue, Mail) \in Nat /\ Count(mainQueue, Receipts) \in Nat
           /\ Handled \in Nat /\ Owed \in Nat
<1>1. worker.queue \in Seq(WorkerTask) /\ mainQueue \in Seq(MainTask)
  BY DEF Typing
<1>2. Count(worker.queue, Mail) \in Nat /\ Count(mainQueue, Receipts) \in Nat
  BY <1>1, CountType
<1> QED  BY <1>2 DEF Handled, Owed

LEMMA OwedAfter ==
    ASSUME Typing' PROVE Owed' \in Nat
<1>1. worker'.queue \in Seq(WorkerTask) /\ mainQueue' \in Seq(MainTask)
  BY DEF Typing
<1>2. Count(worker'.queue, Mail) \in Nat /\ Count(mainQueue', Receipts) \in Nat
  BY <1>1, CountType
<1> QED  BY <1>2 DEF Handled, Owed

LEMMA TaskSorts ==
    /\ MessageTask \subseteq Mail
    /\ \A k \in {"close", "start", "finish", "answer"} :
            Simple(k) \in WorkerTask /\ Simple(k) \notin Mail
    /\ \A t \in MainTask : t.kind # "report" => t \notin Receipts
    /\ \A c, p \in BOOLEAN : Report(c, p) \in MainTask /\ (Report(c, p) \in Receipts <=> c)
<1>1. \A c, p \in BOOLEAN : Report(c, p).kind = "report" /\ Report(c, p).confirming = c
  BY DEF Report
<1> QED  BY <1>1, MessageTasks, WorkerTasks, MainTasks DEF Mail, Receipts

LEMMA Posted ==
    ASSUME NEW q \in Seq(MainTask), NEW t \in MainTask
    PROVE  /\ t \in Receipts => Count(Append(q, t), Receipts) = Count(q, Receipts) + 1
           /\ t \notin Receipts => Count(Append(q, t), Receipts) = Count(q, Receipts)
BY CountAfterAppend

LEMMA Queued ==
    ASSUME NEW q \in Seq(WorkerTask), NEW t \in WorkerTask, t \notin Mail
    PROVE  Count(Append(q, t), Mail) = Count(q, Mail)
BY CountAfterAppend

(***************************************************************************)
(* A step that posts a task that confirms nothing, or none.                *)
(***************************************************************************)
PostsNoReceipt ==
    \/ mainQueue' = mainQueue
    \/ \E t \in MainTask : t \notin Receipts /\ mainQueue' = Append(mainQueue, t)

LEMMA NoReceipt ==
    ASSUME Typing, PostsNoReceipt
    PROVE  Count(mainQueue', Receipts) = Count(mainQueue, Receipts)
<1>1. mainQueue \in Seq(MainTask)
  BY DEF Typing
<1>2. ASSUME NEW t \in MainTask, t \notin Receipts
      PROVE  Count(Append(mainQueue, t), Receipts) = Count(mainQueue, Receipts)
  BY <1>1, <1>2, CountAfterAppend
<1>3. CASE mainQueue' = mainQueue
  BY <1>3
<1>4. CASE \E t \in MainTask : t \notin Receipts /\ mainQueue' = Append(mainQueue, t)
  <2>1. PICK t \in MainTask : t \notin Receipts /\ mainQueue' = Append(mainQueue, t)
    BY <1>4
  <2>2. Count(Append(mainQueue, t), Receipts) = Count(mainQueue, Receipts)
    BY <1>2, <2>1
  <2> QED  BY <2>1, <2>2
<1> QED  BY <1>3, <1>4 DEF PostsNoReceipt

LEMMA PendingReports ==
    ASSUME NEW p \in BOOLEAN, mainQueue' = Append(mainQueue, Report(FALSE, p))
    PROVE  PostsNoReceipt
<1>1. FALSE \in BOOLEAN
  OBVIOUS
<1> QED  BY <1>1, TaskSorts DEF PostsNoReceipt

LEMMA OtherPosts ==
    ASSUME NEW t \in MainTask, t.kind # "report", mainQueue' = Append(mainQueue, t)
    PROVE  PostsNoReceipt
BY TaskSorts DEF PostsNoReceipt

(***************************************************************************)
(* What the proofs below take from the invariant.                          *)
(***************************************************************************)
LEMMA AccountFacts ==
    ASSUME AccountInv
    PROVE  /\ ProxyInv /\ Typing /\ Shutdown /\ Covers /\ Working /\ Fresh /\ Records
           /\ worker.queue \in Seq(WorkerTask) /\ mainQueue \in Seq(MainTask)
           /\ Count(worker.queue, Mail) \in Nat /\ Count(mainQueue, Receipts) \in Nat
           /\ Handled \in Nat /\ proxy.unconfirmed \in Nat
<1>1. ProxyInv /\ Typing /\ Shutdown /\ Covers /\ Working /\ Fresh /\ Records
  BY DEF AccountInv, ChannelInv, ProxyInv
<1>2. worker.queue \in Seq(WorkerTask) /\ mainQueue \in Seq(MainTask)
  BY <1>1 DEF Typing
<1> QED  BY <1>1, <1>2, OwedType DEF Records

LEMMA OwedMoves ==
    ASSUME AccountInv, NEW m \in Int, NEW h \in Int, NEW r \in Int,
           Count(worker'.queue, Mail) = Count(worker.queue, Mail) + m,
           Handled' = Handled + h,
           Count(mainQueue', Receipts) = Count(mainQueue, Receipts) + r
    PROVE  Owed \in Nat /\ Owed' = Owed + (m + h + r)
<1>1. Count(worker.queue, Mail) \in Nat /\ Handled \in Nat /\ Count(mainQueue, Receipts) \in Nat
  BY AccountFacts
<1>2. Owed = Count(worker.queue, Mail) + Handled + Count(mainQueue, Receipts)
  BY DEF Owed
<1>3. Owed' = Count(worker'.queue, Mail) + Handled' + Count(mainQueue', Receipts)
  BY DEF Owed
<1> QED  BY <1>1, <1>2, <1>3

(***************************************************************************)
(* The count after a step: what is owed moves with it, or less is owed by  *)
(* a script that closed itself.                                            *)
(***************************************************************************)
LEMMA CoversKept ==
    ASSUME AccountInv, Typing', ~proxy'.asked => ~proxy.asked, worker.closing => worker'.closing,
           NEW d \in Int, proxy'.unconfirmed = proxy.unconfirmed + d,
           Owed' <= Owed + d, ~worker'.closing => Owed' = Owed + d
    PROVE  Covers'
<1>1. Owed \in Nat /\ proxy.unconfirmed \in Nat /\ Covers
  BY AccountFacts, OwedType
<1>2. Owed' \in Nat
  BY OwedAfter
<1> QED  BY <1>1, <1>2 DEF Covers

LEMMA OwedKept ==
    ASSUME AccountInv, Typing', UNCHANGED <<proxy, loader>>, worker'.closing = worker.closing,
           Owed' = Owed
    PROVE  Covers'
<1>1. /\ Owed \in Nat /\ proxy'.unconfirmed = proxy.unconfirmed + 0 /\ Owed' = Owed + 0
  BY AccountFacts, OwedType
<1> QED  BY <1>1, CoversKept

(***************************************************************************)
(* The page's steps.                                                       *)
(***************************************************************************)
LEMMA PostCovers ==
    ASSUME AccountInv, Typing', PostMessage PROVE Covers'
<1>0. /\ Typing /\ worker.queue \in Seq(WorkerTask) /\ posted \in Nat
      /\ Count(worker.queue, Mail) \in Nat /\ Count(mainQueue, Receipts) \in Nat
      /\ Handled \in Nat /\ proxy.unconfirmed \in Nat
  BY AccountFacts DEF Typing
<1>1. posted < MaxPosts /\ posted' = posted + 1 /\ mainQueue' = mainQueue
  BY DEF PostMessage
<1>2. Message(posted') \in Mail /\ Message(posted') \in WorkerTask
  <2>1. posted' \in 1..MaxPosts
    BY <1>0, <1>1, BoundsAssumption
  <2> QED  BY <2>1, MessageTasks, TaskSorts DEF MessageTask
<1>3. CASE proxy.thread
  <2>1. /\ proxy' = [proxy EXCEPT !.unconfirmed = @ + 1]
        /\ worker' = [worker EXCEPT !.queue = Append(@, Message(posted'))]
    BY <1>3 DEF PostMessage
  <2>2. /\ proxy'.unconfirmed = proxy.unconfirmed + 1 /\ proxy'.asked = proxy.asked
        /\ worker'.queue = Append(worker.queue, Message(posted'))
        /\ worker'.task = worker.task /\ worker'.closing = worker.closing
    BY <1>0, <2>1 DEF Typing
  <2>3. Count(worker'.queue, Mail) = Count(worker.queue, Mail) + 1
    BY <1>0, <1>2, <2>2, CountAfterAppend
  <2>4. Handled' = Handled + 0 /\ Count(mainQueue', Receipts) = Count(mainQueue, Receipts) + 0
    BY <1>0, <1>1, <2>2 DEF Handled
  <2>5. Owed' = Owed + (1 + 0 + 0) /\ Owed \in Nat
    BY <2>3, <2>4, OwedMoves
  <2>6. Owed' = Owed + 1
    BY <2>5
  <2> QED  BY <2>2, <2>5, <2>6, CoversKept
<1>4. CASE ~proxy.thread
  <2>1. /\ proxy' = [proxy EXCEPT !.early = Append(@, Message(posted'))]
        /\ worker' = worker
    BY <1>4 DEF PostMessage
  <2>2. proxy'.unconfirmed = proxy.unconfirmed + 0 /\ proxy'.asked = proxy.asked
    BY <1>0, <2>1 DEF Typing
  <2>3. Owed' = Owed + 0 /\ Owed \in Nat
    BY <1>0, <1>1, <2>1 DEF Owed, Handled
  <2> QED  BY <2>1, <2>2, <2>3, CoversKept
<1> QED  BY <1>3, <1>4

\* The early messages are counted when the thread takes them over.
LEMMA NotifyCovers ==
    ASSUME AccountInv, Typing', NotifyFinished PROVE Covers'
<1>0. /\ Typing /\ ProxyInv /\ Working /\ Fresh /\ Covers /\ proxy.early \in Seq(MessageTask)
  BY AccountFacts DEF Typing
<1>1. /\ worker.phase = "none" /\ ~proxy.thread /\ mainQueue = <<>> /\ mainQueue' = mainQueue
  BY <1>0 DEF ProxyInv, ThreadIsKnown, NotifyFinished
<1>2. worker.queue = <<>> /\ worker.task = "none"
  BY <1>0, <1>1 DEF Fresh, Working
<1>3. CASE UNCHANGED <<proxy, worker>>
  BY <1>0, <1>1, <1>3 DEF Covers, Owed, Handled
<1>4. CASE \E started \in Starts : WorkerThreadCreated(worker, started)
  <2>1. PICK started \in Starts : WorkerThreadCreated(worker, started)
    BY <1>4
  <2>2. CASE proxy.asked
    <3>1. proxy'.asked
      BY <1>0, <2>1, <2>2 DEF WorkerThreadCreated, Typing
    <3> QED  BY <3>1 DEF Covers
  <2>3. CASE ~proxy.asked
    <3>1. /\ proxy'.unconfirmed = Len(proxy.early)
          /\ worker'.queue = worker.queue \o proxy.early /\ worker'.task = worker.task
      BY <1>0, <2>1, <2>3 DEF WorkerThreadCreated, AdoptEarlyTasks, Typing
    <3>2. worker'.queue = proxy.early
      BY <1>0, <1>2, <3>1
    <3>3. Count(worker'.queue, Mail) = Len(proxy.early) /\ Len(proxy.early) \in Nat
      BY <1>0, <3>2, TaskSorts, CountAll
    <3>4. Count(mainQueue', Receipts) = 0
      <4>1. <<>> \in Seq(MainTask)
        OBVIOUS
      <4> QED  BY <1>1, <4>1, CountType
    <3>5. Owed' = proxy'.unconfirmed /\ Owed' \in Nat
      BY <1>2, <3>1, <3>3, <3>4 DEF Owed, Handled
    <3> QED  BY <3>5 DEF Covers
  <2> QED  BY <2>2, <2>3
<1> QED  BY <1>3, <1>4 DEF NotifyFinished

LEMMA AskedCovers ==
    ASSUME AccountInv, Terminate \/ CollectWorker PROVE Covers'
<1>0. Typing
  BY AccountFacts
<1>1. proxy'.asked
  BY <1>0 DEF Terminate, TerminateWorkerContext, CollectWorker, WorkerContextDestroyed, Typing
<1> QED  BY <1>1 DEF Covers

(***************************************************************************)
(* The steps of the main thread.                                           *)
(***************************************************************************)
LEMMA AnswerCovers ==
    ASSUME AccountInv, Typing', LoaderAnswers PROVE Covers'
<1>0. /\ Typing /\ worker.queue \in Seq(WorkerTask) /\ Count(worker.queue, Mail) \in Nat
  BY AccountFacts
<1>1. UNCHANGED <<proxy, mainQueue>>
  BY DEF LoaderAnswers
<1>2. /\ Count(worker'.queue, Mail) = Count(worker.queue, Mail)
      /\ worker'.task = worker.task /\ worker'.closing = worker.closing
  <2>1. CASE worker' = worker
    BY <2>1
  <2>2. CASE worker' = [worker EXCEPT !.queue = Append(@, Simple("answer"))]
    <3>1. /\ worker'.queue = Append(worker.queue, Simple("answer"))
          /\ worker'.task = worker.task /\ worker'.closing = worker.closing
      BY <1>0, <2>2 DEF Typing
    <3>2. Simple("answer") \in WorkerTask /\ Simple("answer") \notin Mail
      BY TaskSorts
    <3> QED  BY <1>0, <3>1, <3>2, CountAfterAppend
  <2> QED  BY <2>1, <2>2 DEF LoaderAnswers
<1>3. Owed' = Owed + 0 /\ Owed \in Nat /\ proxy'.unconfirmed = proxy.unconfirmed + 0
  BY <1>0, <1>1, <1>2, AccountFacts DEF Owed, Handled
<1> QED  BY <1>1, <1>2, <1>3, CoversKept

\* A confirmation that arrives is one that was counted.
LEMMA MainTaskCovers ==
    ASSUME AccountInv, Typing', PerformMainTask PROVE Covers'
<1> DEFINE task == Head(mainQueue)
<1>0. /\ Typing /\ mainQueue \in Seq(MainTask)
      /\ Count(worker.queue, Mail) \in Nat /\ Handled \in Nat
      /\ Count(mainQueue, Receipts) \in Nat /\ proxy.unconfirmed \in Nat
  BY AccountFacts
<1>1. mainQueue # <<>> /\ mainQueue' = Tail(mainQueue)
  BY DEF PerformMainTask
<1>2. /\ mainQueue' \in Seq(MainTask) /\ Count(mainQueue', Receipts) \in Nat
      /\ Count(mainQueue, Receipts) = IF task \in Receipts THEN Count(mainQueue', Receipts) + 1
                                                           ELSE Count(mainQueue', Receipts)
  BY <1>0, <1>1, CountAfterTail, CountType
<1>3. task \in MainTask
  BY <1>0, <1>1, PlacesAfterTail
<1> HIDE DEF task
<1>4. CASE task.kind # "report" /\ proxy' = proxy /\ worker' = worker
  <2>1. Count(mainQueue', Receipts) = Count(mainQueue, Receipts)
    BY <1>2, <1>3, <1>4, TaskSorts
  <2>2. Owed' = Owed + 0 /\ Owed \in Nat /\ proxy'.unconfirmed = proxy.unconfirmed + 0
    BY <1>0, <1>4, <2>1 DEF Owed, Handled
  <2> QED  BY <1>4, <2>2, CoversKept
<1>5. CASE task.kind = "report" /\ ReportPendingActivity(task.confirming, task.pending)
  <2>1. /\ proxy'.asked = proxy.asked /\ worker' = worker
        /\ proxy'.unconfirmed = IF task.confirming /\ ~proxy.asked THEN proxy.unconfirmed - 1
                                                                   ELSE proxy.unconfirmed
    BY <1>0, <1>5 DEF ReportPendingActivity, Typing
  <2>2. CASE proxy.asked
    BY <2>1, <2>2 DEF Covers
  <2>3. CASE ~proxy.asked
    <3>1. task \in Receipts <=> task.confirming
      BY <1>3, <1>5 DEF Receipts
    <3>2. CASE task.confirming
      <4>1. /\ Count(mainQueue', Receipts) = Count(mainQueue, Receipts) + (-1)
            /\ Count(worker'.queue, Mail) = Count(worker.queue, Mail) + 0
            /\ Handled' = Handled + 0
        BY <1>0, <1>2, <2>1, <3>1, <3>2 DEF Handled
      <4>2. Owed' = Owed + (0 + 0 + (-1)) /\ Owed \in Nat
        BY <4>1, OwedMoves
      <4>3. -1 \in Int /\ Owed' = Owed + (-1) /\ proxy'.unconfirmed = proxy.unconfirmed + (-1)
        BY <1>0, <2>1, <2>3, <3>2, <4>2
      <4>4. Owed' <= Owed + (-1)
        BY <4>2, <4>3
      <4> QED  BY <2>1, <4>3, <4>4, CoversKept
    <3>3. CASE ~task.confirming
      <4>1. Owed' = Owed + 0 /\ Owed \in Nat /\ proxy'.unconfirmed = proxy.unconfirmed + 0
        BY <1>0, <1>2, <2>1, <2>3, <3>1, <3>3 DEF Owed, Handled
      <4> QED  BY <2>1, <4>1, CoversKept
    <3> QED  BY <3>2, <3>3
  <2> QED  BY <2>2, <2>3
<1>6. CASE TerminateWorkerContext \/ proxy' = WorkerContextDestroyed(proxy)
  <2>1. proxy'.asked
    BY <1>0, <1>6 DEF TerminateWorkerContext, WorkerContextDestroyed, Typing
  <2> QED  BY <2>1 DEF Covers
<1> QED
  BY <1>4, <1>5, <1>6 DEF PerformMainTask, ShowMessage, ReportException, task

(***************************************************************************)
(* The steps of the worker's thread.                                       *)
(***************************************************************************)
\* Neither the messages nor what the script handles changes.
LEMMA QuietCovers ==
    ASSUME AccountInv, Typing', UNCHANGED <<proxy, loader>>, worker'.closing = worker.closing,
           Count(worker'.queue, Mail) = Count(worker.queue, Mail), Handled' = Handled,
           PostsNoReceipt
    PROVE  Covers'
<1>1. Count(mainQueue', Receipts) = Count(mainQueue, Receipts)
  BY AccountFacts, NoReceipt
<1>2. Owed' = Owed
  BY <1>1 DEF Owed
<1> QED  BY <1>2, OwedKept

LEMMA ScriptCovers ==
    ASSUME AccountInv, Typing', ScriptStep \/ CreateContext \/ TimerFires \/ DestroyContext
    PROVE  Covers'
<1>0. /\ Typing /\ Working /\ worker.queue \in Seq(WorkerTask) /\ worker.active \in BOOLEAN
      /\ Count(worker.queue, Mail) \in Nat
  BY AccountFacts DEF Typing
<1>1. proxy' = proxy /\ loader' = loader
  <2>1. ScriptStep => UNCHANGED <<proxy, loader>>
    BY DEF ScriptStep, ScriptPosts, ScriptThrows, ScriptCloses, ScriptChangesActivity, ScriptLoads
  <2>2. CreateContext \/ DestroyContext => UNCHANGED <<proxy, loader>>
    BY DEF CreateContext, DestroyContext
  <2>3. TimerFires => UNCHANGED <<proxy, loader>>
    BY Zenon DEF TimerFires
  <2> QED  BY <2>1, <2>2, <2>3
<1>2. CASE ScriptPosts
  <2>1. Message(said') \in MainTask /\ Message(said').kind = "message"
    <3>1. said' \in 1..MaxReplies
      BY <1>0, <1>2, BoundsAssumption DEF ScriptPosts, Typing
    <3> QED  BY <3>1, MainTasks
  <2>2. mainQueue' = Append(mainQueue, Message(said')) /\ worker' = worker
    BY <1>2 DEF ScriptPosts
  <2>3. PostsNoReceipt
    BY <2>1, <2>2, OtherPosts
  <2> QED  BY <1>1, <2>2, <2>3, QuietCovers DEF Handled
<1>3. CASE ScriptThrows
  <2>1. mainQueue' = Append(mainQueue, Simple("exception")) /\ worker' = worker
    BY <1>3 DEF ScriptThrows
  <2>2. PostsNoReceipt
    BY <2>1, MainTasks, OtherPosts
  <2> QED  BY <1>1, <2>1, <2>2, QuietCovers DEF Handled
<1>4. CASE ScriptCloses
  <2>1. /\ worker' = [worker EXCEPT !.closing = TRUE, !.queue = Append(@, Simple("close"))]
        /\ mainQueue' = mainQueue
    BY <1>4 DEF ScriptCloses
  <2>2. /\ worker'.queue = Append(worker.queue, Simple("close")) /\ worker'.closing
        /\ worker'.task = worker.task
    BY <1>0, <2>1 DEF Typing
  <2>3. Count(worker'.queue, Mail) = Count(worker.queue, Mail)
    <3>1. Simple("close") \in WorkerTask /\ Simple("close") \notin Mail
      BY TaskSorts
    <3> QED  BY <1>0, <2>2, <3>1, CountAfterAppend
  <2>4. Owed' = Owed + 0 /\ Owed \in Nat /\ proxy'.unconfirmed = proxy.unconfirmed + 0
    BY <1>0, <1>1, <2>1, <2>2, <2>3, AccountFacts, OwedType DEF Owed, Handled
  <2> QED  BY <1>1, <2>2, <2>4, CoversKept
<1>5. CASE ScriptChangesActivity
  <2>1. worker' = [worker EXCEPT !.active = ~@] /\ mainQueue' = mainQueue
    BY <1>5 DEF ScriptChangesActivity
  <2>2. worker'.queue = worker.queue /\ worker'.closing = worker.closing /\ worker'.task = worker.task
    BY <1>0, <2>1 DEF Typing
  <2> QED  BY <1>1, <2>1, <2>2, QuietCovers DEF Handled, PostsNoReceipt
<1>6. CASE ScriptLoads
  <2>1. worker' = [worker EXCEPT !.phase = "load"] /\ mainQueue' = Append(mainQueue, Simple("load"))
    BY <1>6 DEF ScriptLoads
  <2>2. worker'.queue = worker.queue /\ worker'.closing = worker.closing /\ worker'.task = worker.task
    BY <1>0, <2>1 DEF Typing
  <2>3. PostsNoReceipt
    BY <2>1, MainTasks, OtherPosts
  <2> QED  BY <1>1, <2>2, <2>3, QuietCovers DEF Handled
<1>7. CASE CreateContext
  <2>1. worker.task # "message"
    BY <1>0, <1>7 DEF CreateContext, Working
  <2>2. /\ worker'.queue = worker.queue /\ worker'.closing = worker.closing
        /\ worker'.task # "message"
    BY <1>0, <1>7, <2>1 DEF CreateContext, Typing
  <2>3. PostsNoReceipt
    <3>1. mainQueue' = mainQueue \/ mainQueue' = Append(mainQueue, Report(FALSE, FALSE))
      BY <1>7 DEF CreateContext
    <3> QED  BY <3>1, PendingReports DEF PostsNoReceipt
  <2> QED  BY <1>1, <2>1, <2>2, <2>3, QuietCovers DEF Handled
<1>8. CASE TimerFires
  <2>0. PICK again \in BOOLEAN :
            worker' = [worker EXCEPT !.phase = "script", !.task = "timer", !.active = again]
    BY Zenon, <1>8 DEF TimerFires
  <2>1. worker.task # "message" /\ mainQueue' = mainQueue
    <3>1. worker.phase = "loop" /\ mainQueue' = mainQueue
      BY Zenon, <1>8 DEF TimerFires
    <3> QED  BY <1>0, <3>1 DEF Working
  <2>2. /\ worker'.queue = worker.queue /\ worker'.closing = worker.closing
        /\ worker'.task = "timer"
    BY <1>0, <2>0 DEF Typing
  <2> QED  BY <1>1, <2>1, <2>2, QuietCovers DEF Handled, PostsNoReceipt
<1>9. CASE DestroyContext
  <2>1. /\ worker' = [worker EXCEPT !.phase = "ended", !.active = FALSE]
        /\ mainQueue' = Append(mainQueue, Simple("destroyed"))
    BY <1>9 DEF DestroyContext
  <2>2. worker'.queue = worker.queue /\ worker'.closing = worker.closing /\ worker'.task = worker.task
    BY <1>0, <2>1 DEF Typing
  <2>3. PostsNoReceipt
    BY <2>1, MainTasks, OtherPosts
  <2> QED  BY <1>1, <2>2, <2>3, QuietCovers DEF Handled
<1> QED  BY <1>2, <1>3, <1>4, <1>5, <1>6, <1>7, <1>8, <1>9 DEF ScriptStep

\* The script that handled a message confirms it.
LEMMA ScriptEndCovers ==
    ASSUME AccountInv, Typing', ScriptEnds PROVE Covers'
<1>0. /\ Typing /\ mainQueue \in Seq(MainTask) /\ worker.active \in BOOLEAN
      /\ Count(mainQueue, Receipts) \in Nat /\ Count(worker.queue, Mail) \in Nat
  BY AccountFacts DEF Typing
<1>1. UNCHANGED <<proxy, loader>>
  BY DEF ScriptEnds
<1>2. worker'.queue = worker.queue /\ worker'.closing = worker.closing /\ worker'.task = "none"
  BY <1>0 DEF ScriptEnds, Typing
<1>3. CASE worker.task = "message"
  <2>1. mainQueue' = Append(mainQueue, Report(TRUE, worker.active))
    BY <1>3 DEF ScriptEnds
  <2>2. Report(TRUE, worker.active) \in MainTask /\ Report(TRUE, worker.active) \in Receipts
    BY <1>0, TaskSorts
  <2>3. Count(mainQueue', Receipts) = Count(mainQueue, Receipts) + 1
    BY <1>0, <2>1, <2>2, Posted
  <2>4. /\ Count(worker'.queue, Mail) = Count(worker.queue, Mail) + 0
        /\ Handled' = Handled + (-1)
    BY <1>0, <1>2, <1>3 DEF Handled
  <2>5. Owed' = Owed + (0 + (-1) + 1) /\ Owed \in Nat
    BY <2>3, <2>4, OwedMoves
  <2> QED  BY <1>1, <1>2, <2>5, OwedKept
<1>4. CASE worker.task # "message"
  <2>1. mainQueue' = mainQueue \/ mainQueue' = Append(mainQueue, Report(FALSE, worker.active))
    BY <1>4 DEF ScriptEnds
  <2>2. PostsNoReceipt
    BY <1>0, <2>1, PendingReports DEF PostsNoReceipt
  <2> QED  BY <1>1, <1>2, <1>4, <2>2, QuietCovers DEF Handled
<1> QED  BY <1>3, <1>4

LEMMA TakeAnswerCovers ==
    ASSUME AccountInv, Typing', TakeAnswer PROVE Covers'
<1>0. Typing /\ worker.queue \in Seq(WorkerTask) /\ worker.active \in BOOLEAN
  BY AccountFacts DEF Typing
<1>1. PICK k \in DOMAIN worker.queue :
        /\ worker.queue[k].kind = "answer"
        /\ LET rest == [worker EXCEPT !.queue = RemoveAt(@, k)] IN
           IF worker.closing
           THEN /\ worker' = rest
                /\ UNCHANGED <<mainQueue, premature>>
           ELSE /\ worker' = [rest EXCEPT !.phase = "script"]
                /\ \/ UNCHANGED <<mainQueue, premature>>
                   \/ /\ mainQueue' = Append(mainQueue, Report(FALSE, worker.active))
                      /\ premature' = (premature \/ worker.task # "message")
  BY Zenon DEF TakeAnswer
<1>2. /\ worker'.queue = RemoveAt(worker.queue, k) /\ worker'.closing = worker.closing
      /\ worker'.task = worker.task
  BY <1>0, <1>1 DEF Typing
<1>3. worker.queue[k] \notin Mail
  BY <1>1 DEF Mail
<1>4. Count(worker'.queue, Mail) = Count(worker.queue, Mail)
  BY <1>0, <1>2, <1>3, CountAfterRemoveAt
<1>5. PostsNoReceipt
  <2>1. mainQueue' = mainQueue \/ mainQueue' = Append(mainQueue, Report(FALSE, worker.active))
    BY <1>1
  <2> QED  BY <1>0, <2>1, PendingReports DEF PostsNoReceipt
<1>6. proxy' = proxy /\ loader' = loader
  BY Zenon DEF TakeAnswer
<1> QED  BY <1>2, <1>4, <1>5, <1>6, QuietCovers DEF Handled

\* A message that is taken is handled, confirmed at once or, by a closing context, dropped.
LEMMA TakeTaskCovers ==
    ASSUME AccountInv, Typing', TakeTask PROVE Covers'
<1> DEFINE task == Head(worker.queue)
           rest == Tail(worker.queue)
           w    == [worker EXCEPT !.queue = rest]
<1>0. /\ Typing /\ Working /\ worker.phase = "loop" /\ worker.queue \in Seq(WorkerTask)
      /\ worker.queue # <<>> /\ mainQueue \in Seq(MainTask)
      /\ Count(mainQueue, Receipts) \in Nat
      /\ UNCHANGED <<proxy, loader>> /\ proxy.unconfirmed \in Nat
  BY AccountFacts DEF TakeTask
<1>1. /\ rest \in Seq(WorkerTask) /\ Count(rest, Mail) \in Nat /\ Count(worker.queue, Mail) \in Nat
      /\ Count(worker.queue, Mail) = IF task \in Mail THEN Count(rest, Mail) + 1
                                                      ELSE Count(rest, Mail)
  <2>1. /\ rest \in Seq(WorkerTask)
        /\ Count(worker.queue, Mail) = IF task \in Mail THEN Count(rest, Mail) + 1
                                                        ELSE Count(rest, Mail)
    BY <1>0, CountAfterTail
  <2> HIDE DEF rest, task
  <2>2. Count(rest, Mail) \in Nat /\ Count(worker.queue, Mail) \in Nat
    BY <1>0, <2>1, CountType
  <2> QED  BY <2>1, <2>2
<1>2. task \in WorkerTask /\ worker.task = "none"
  BY <1>0, PlacesAfterTail DEF Working
<1> HIDE DEF rest
<1>3. /\ w.queue = rest /\ w.closing = worker.closing /\ w.task = "none"
      /\ w.active \in BOOLEAN
      /\ w \in [phase : Phases, task : {"none", "init", "message", "timer"},
                active : BOOLEAN, closing : BOOLEAN, terminated : BOOLEAN,
                queue : Seq(WorkerTask), killed : BOOLEAN]
  BY <1>0, <1>1, <1>2 DEF Typing
<1>4. Handled = 0 /\ (task \in Mail <=> task.kind = "message")
  BY <1>2 DEF Handled, Mail
<1> HIDE DEF task, w
<1>5. CASE worker.closing /\ ~IsCleanupTask(task) /\ worker' = w /\ UNCHANGED <<mainQueue, heard>>
  <2>1. Count(mainQueue', Receipts) = Count(mainQueue, Receipts) + 0 /\ Handled' = Handled + 0
    BY <1>0, <1>3, <1>4, <1>5 DEF Handled
  <2>2. PICK m \in {-1, 0} : Count(worker'.queue, Mail) = Count(worker.queue, Mail) + m
    BY <1>1, <1>3, <1>5
  <2>3. m \in Int /\ m <= 0
    BY <2>2
  <2>4. Owed' = Owed + (m + 0 + 0) /\ Owed \in Nat
    BY <2>1, <2>2, <2>3, OwedMoves
  <2>5. Owed' <= Owed + 0
    BY <2>3, <2>4
  <2>6. proxy' = proxy /\ worker'.closing = worker.closing /\ worker.closing
    BY <1>0, <1>3, <1>5
  <2>7. proxy'.unconfirmed = proxy.unconfirmed + 0
    BY <1>0, <2>6
  <2> QED  BY <2>5, <2>6, <2>7, CoversKept
<1>6. CASE ~worker.closing /\ task.kind = "message" /\ HearMessage(w, task.id)
  <2>1. Count(rest, Mail) = Count(worker.queue, Mail) + (-1)
    BY <1>1, <1>4, <1>6
  <2>2. CASE Forbidden(w)
    <3>1. worker' = w /\ mainQueue' = Append(mainQueue, Report(TRUE, w.active))
      BY <1>6, <2>2 DEF HearMessage
    <3>2. Report(TRUE, w.active) \in MainTask /\ Report(TRUE, w.active) \in Receipts
      BY <1>3, TaskSorts
    <3>3. Count(mainQueue', Receipts) = Count(mainQueue, Receipts) + 1
      BY <1>0, <3>1, <3>2, Posted
    <3>4. Handled' = Handled + 0 /\ Count(worker'.queue, Mail) = Count(worker.queue, Mail) + (-1)
      BY <1>3, <1>4, <2>1, <3>1 DEF Handled
    <3>5. Owed' = Owed + ((-1) + 0 + 1) /\ Owed \in Nat
      BY <3>3, <3>4, OwedMoves
    <3> QED  BY <1>0, <1>3, <3>1, <3>5, OwedKept
  <2>3. CASE ~Forbidden(w)
    <3>1. worker' = [w EXCEPT !.phase = "script", !.task = "message"] /\ mainQueue' = mainQueue
      BY <1>6, <2>3 DEF HearMessage
    <3>2. worker'.queue = w.queue /\ worker'.closing = w.closing /\ worker'.task = "message"
      BY <1>3, <3>1
    <3>3. /\ Handled' = Handled + 1 /\ Count(worker'.queue, Mail) = Count(worker.queue, Mail) + (-1)
          /\ Count(mainQueue', Receipts) = Count(mainQueue, Receipts) + 0
      BY <1>0, <1>3, <1>4, <2>1, <3>1, <3>2 DEF Handled
    <3>4. Owed' = Owed + ((-1) + 1 + 0) /\ Owed \in Nat
      BY <3>3, OwedMoves
    <3> QED  BY <1>0, <1>3, <3>2, <3>4, OwedKept
  <2> QED  BY <2>2, <2>3
<1>7. CASE task.kind = "close" /\ worker' = w /\ mainQueue' = Append(mainQueue, Simple("terminate"))
  <2>1. PostsNoReceipt
    BY <1>7, MainTasks, OtherPosts
  <2> QED  BY <1>0, <1>1, <1>3, <1>4, <1>7, <2>1, QuietCovers DEF Handled
<1>8. CASE /\ task.kind = "start" /\ mainQueue' = mainQueue
           /\ worker' = [w EXCEPT !.active = FALSE, !.queue = Append(@, Simple("finish"))]
  <2>1. /\ worker'.queue = Append(rest, Simple("finish"))
        /\ worker'.closing = worker.closing /\ worker'.task = "none"
    BY <1>3, <1>8
  <2>2. Simple("finish") \in WorkerTask /\ Simple("finish") \notin Mail
    BY TaskSorts
  <2>3. Count(worker'.queue, Mail) = Count(rest, Mail)
    BY <1>1, <2>1, <2>2, Queued
  <2> QED  BY <1>0, <1>1, <1>2, <1>4, <1>8, <2>1, <2>3, QuietCovers DEF Handled, PostsNoReceipt
<1>9. CASE task.kind = "finish" /\ mainQueue' = mainQueue /\ worker' = [w EXCEPT !.killed = TRUE]
  <2>1. worker'.queue = rest /\ worker'.closing = worker.closing /\ worker'.task = "none"
    BY <1>3, <1>9
  <2> QED  BY <1>0, <1>1, <1>2, <1>4, <1>9, <2>1, QuietCovers DEF Handled, PostsNoReceipt
<1> QED  BY <1>5, <1>6, <1>7, <1>8, <1>9 DEF TakeTask, task, w, rest

(***************************************************************************)
(* The rest of the invariant, and all of it.                               *)
(***************************************************************************)
LEMMA WorkingKept ==
    ASSUME AccountInv, Typing', [Next]_vars PROVE Working' /\ Fresh'
<1>0. /\ Typing /\ ProxyInv /\ Working /\ Fresh
      /\ (~proxy.thread => worker.phase \in {"none", "ended"})
      /\ (worker.phase = "none" => ~proxy.thread /\ ~loader)
  <2>1. ProxyInv
    BY AccountFacts
  <2> QED  BY <2>1, AccountFacts DEF ProxyInv, ThreadIsKnown, OneLoad
<1>1. CASE worker'.phase = worker.phase /\ worker'.task = worker.task
           /\ (worker.phase = "none" => worker'.queue = worker.queue)
  BY <1>0, <1>1 DEF Working, Fresh
<1>2. CASE PostMessage \/ UNCHANGED vars \/ LoaderAnswers
  <2>1. /\ worker'.phase = worker.phase /\ worker'.task = worker.task
        /\ worker.phase = "none" => worker'.queue = worker.queue
    BY <1>0, <1>2 DEF PostMessage, LoaderAnswers, vars, Typing
  <2> QED  BY <1>1, <2>1
<1>3. CASE Terminate \/ CollectWorker \/ PerformMainTask
  <2>1. worker' = worker \/ (worker.phase # "none" /\ worker' = Stop(worker))
    BY <1>0, <1>3
    DEF Terminate, TerminateWorkerContext, CollectWorker, PerformMainTask, ShowMessage,
        ReportException, ReportPendingActivity
  <2>2. Stop(worker).phase = worker.phase /\ Stop(worker).task = worker.task
    BY <1>0 DEF Stop, Typing
  <2> QED  BY <1>1, <2>1, <2>2
<1>4. CASE NotifyFinished
  <2>1. CASE UNCHANGED <<proxy, worker>>
    BY <1>1, <2>1
  <2>2. CASE \E started \in Starts : WorkerThreadCreated(worker, started)
    <3>1. worker.phase = "none"
      BY <1>0, <1>4 DEF ProxyInv, ThreadIsKnown, NotifyFinished, Typing
    <3>2. worker'.phase \in {"created", "failed"} /\ worker'.task = worker.task
      BY <1>0, <2>2 DEF WorkerThreadCreated, Typing
    <3> QED  BY <1>0, <3>1, <3>2 DEF Working, Fresh
  <2> QED  BY <1>4, <2>1, <2>2 DEF NotifyFinished
<1>5. CASE ScriptStep
  <2>1. CASE worker' = worker
    BY <1>1, <2>1
  <2>2. CASE ScriptCloses \/ ScriptChangesActivity \/ ScriptLoads
    <3>1. worker.phase = "script" /\ worker'.phase \in {"script", "load"} /\ worker'.task = worker.task
      BY <1>0, <2>2 DEF ScriptCloses, ScriptChangesActivity, ScriptLoads, Typing
    <3> QED  BY <1>0, <3>1 DEF Working, Fresh
  <2> QED  BY <1>5, <2>1, <2>2 DEF ScriptStep, ScriptPosts, ScriptThrows
<1>6. CASE CreateContext \/ DestroyContext
  <2>1. CASE CreateContext
    BY <1>0, <2>1 DEF CreateContext, Working, Fresh, Typing
  <2>2. CASE DestroyContext
    BY <1>0, <2>2 DEF DestroyContext, Working, Fresh, Typing
  <2> QED  BY <1>6, <2>1, <2>2
<1>7. CASE TimerFires
  <2>1. PICK again \in BOOLEAN :
            worker' = [worker EXCEPT !.phase = "script", !.task = "timer", !.active = again]
    BY Zenon, <1>7 DEF TimerFires
  <2>2. worker'.phase = "script" /\ worker'.task = "timer"
    BY <1>0, <2>1 DEF Typing
  <2> QED  BY <2>2 DEF Working, Fresh
<1>8. CASE ScriptEnds
  BY <1>0, <1>8 DEF ScriptEnds, Working, Fresh, Typing
<1>9. CASE TakeAnswer
  <2>1. worker.phase = "load" /\ worker'.phase \in {"load", "script"} /\ worker'.task = worker.task
    <3>1. PICK k \in DOMAIN worker.queue :
            \/ worker' = [worker EXCEPT !.queue = RemoveAt(@, k)]
            \/ worker' = [[worker EXCEPT !.queue = RemoveAt(@, k)] EXCEPT !.phase = "script"]
      BY Zenon, <1>9 DEF TakeAnswer
    <3>2. worker.phase = "load"
      BY Zenon, <1>9 DEF TakeAnswer
    <3> QED  BY <1>0, <3>1, <3>2 DEF Typing
  <2> QED  BY <1>0, <2>1 DEF Working, Fresh
<1>10. CASE TakeTask
  <2> DEFINE w == [worker EXCEPT !.queue = Tail(@)]
  <2>1. worker.phase = "loop" /\ worker.task = "none"
    BY <1>0, <1>10 DEF TakeTask, Working
  <2>2. /\ w.phase = "loop" /\ w.task = "none"
        /\ DOMAIN w = {"phase", "task", "active", "closing", "terminated", "queue", "killed"}
    BY <1>0, <2>1 DEF Typing
  <2> HIDE DEF w
  <2>3. \/ worker' = w
        \/ worker' = [w EXCEPT !.phase = "script", !.task = "message"]
        \/ worker' = [w EXCEPT !.active = FALSE, !.queue = Append(@, Simple("finish"))]
        \/ worker' = [w EXCEPT !.killed = TRUE]
    BY <1>10 DEF TakeTask, HearMessage, w
  <2>4. \/ worker'.phase = "loop" /\ worker'.task = "none"
        \/ worker'.phase = "script" /\ worker'.task = "message"
    BY <2>2, <2>3
  <2> QED  BY <2>4 DEF Working, Fresh
<1> QED
  BY <1>2, <1>3, <1>4, <1>5, <1>6, <1>7, <1>8, <1>9, <1>10 DEF Next, PageStep, ThreadStep

LEMMA CoversNext ==
    ASSUME AccountInv, Typing', [Next]_vars PROVE Covers'
<1>1. CASE PageStep
  BY <1>1, PostCovers, AskedCovers, NotifyCovers DEF PageStep
<1>2. CASE PerformMainTask \/ LoaderAnswers
  BY <1>2, MainTaskCovers, AnswerCovers
<1>3. CASE ScriptStep \/ CreateContext \/ TimerFires \/ DestroyContext
  BY <1>3, ScriptCovers
<1>4. CASE ScriptEnds \/ TakeAnswer \/ TakeTask
  BY <1>4, ScriptEndCovers, TakeAnswerCovers, TakeTaskCovers
<1>5. CASE UNCHANGED vars
  <2>1. UNCHANGED <<proxy, worker, mainQueue, loader>>
    BY <1>5 DEF vars
  <2> QED  BY <2>1, QuietCovers DEF Handled, PostsNoReceipt
<1> QED  BY <1>1, <1>2, <1>3, <1>4, <1>5 DEF Next, ThreadStep

\* Who changes the records.
LEMMA ThreadKeepsProxy ==
    ASSUME AccountInv, ScriptStep \/ ScriptEnds \/ ThreadStep \/ TimerFires
    PROVE  proxy' = proxy /\ shown' = shown /\ QueueStep
<1>1. ChannelInv
  BY DEF AccountInv
<1>2. ThreadMoves
  BY <1>1, ScriptMoves, OtherThreadMoves, AnswerMoves, TaskMoves DEF ThreadStep
<1> QED  BY <1>2 DEF ThreadMoves, ThreadLives

LEMMA WhoHears ==
    ASSUME AccountInv, [Next]_vars PROVE heard' = heard \/ Hears
<1>1. CASE ScriptStep \/ ScriptEnds \/ ThreadStep \/ TimerFires
  BY <1>1, ThreadKeepsProxy DEF QueueStep, Keeps, Adds, Removes, Skips
<1>2. CASE PageStep \/ PerformMainTask \/ LoaderAnswers \/ UNCHANGED vars
  BY <1>2
  DEF PageStep, PostMessage, Terminate, NotifyFinished, CollectWorker, PerformMainTask,
      LoaderAnswers, vars, history
<1> QED  BY <1>1, <1>2 DEF Next

LEMMA WhoShows ==
    ASSUME AccountInv, [Next]_vars, shown' # shown
    PROVE  /\ mainQueue # <<>> /\ Head(mainQueue).kind = "message"
           /\ shown' = Append(shown, Head(mainQueue).id)
<1>1. PerformMainTask
  BY ThreadKeepsProxy
  DEF Next, PageStep, PostMessage, Terminate, NotifyFinished, CollectWorker, LoaderAnswers, vars, history
<1> QED
  BY <1>1 DEF PerformMainTask, ShowMessage, ReportException, ReportPendingActivity

LEMMA OtherRecords ==
    ASSUME AccountInv, [Next]_vars PROVE loads' \in Nat /\ premature' \in BOOLEAN
<1>0. loads \in Nat /\ premature \in BOOLEAN
  BY AccountFacts DEF Records
<1>1. CASE PageStep \/ PerformMainTask \/ LoaderAnswers \/ UNCHANGED vars
  BY <1>0, <1>1
  DEF PageStep, PostMessage, Terminate, NotifyFinished, CollectWorker, PerformMainTask,
      LoaderAnswers, vars, history
<1>2. CASE ScriptStep \/ ScriptEnds
  <2>1. premature' = premature /\ (loads' = loads \/ loads' = loads + 1)
    BY Zenon, <1>2
    DEF ScriptStep, ScriptPosts, ScriptThrows, ScriptCloses, ScriptChangesActivity, ScriptLoads, ScriptEnds
  <2> QED  BY <1>0, <2>1
<1>3. CASE CreateContext \/ TakeTask \/ DestroyContext
  BY <1>0, <1>3 DEF CreateContext, TakeTask, DestroyContext
<1>4. CASE TakeAnswer
  <2>1. loads' = loads /\ (premature' = premature \/ premature' = (premature \/ worker.task # "message"))
    BY Zenon, <1>4 DEF TakeAnswer
  <2> QED  BY Zenon, <1>0, <2>1
<1>5. CASE TimerFires
  BY Zenon, <1>0, <1>5 DEF TimerFires
<1> QED  BY <1>1, <1>2, <1>3, <1>4, <1>5 DEF Next, ThreadStep

LEMMA RecordsKept ==
    ASSUME AccountInv, Typing', Covers, [Next]_vars PROVE Records'
<1>0. /\ Typing /\ Records /\ worker.queue \in Seq(WorkerTask) /\ mainQueue \in Seq(MainTask)
      /\ Count(worker.queue, Mail) \in Nat /\ Handled \in Nat
      /\ Count(mainQueue, Receipts) \in Nat /\ proxy.unconfirmed \in Nat
      /\ proxy.early \in Seq(MessageTask)
  BY AccountFacts DEF Typing
<1>1. proxy'.unconfirmed \in Nat
  <2>1. CASE PostMessage
    <3>1. \/ proxy' = [proxy EXCEPT !.unconfirmed = @ + 1]
          \/ proxy' = [proxy EXCEPT !.early = Append(@, Message(posted'))]
      BY <2>1 DEF PostMessage
    <3>2. "unconfirmed" \in DOMAIN proxy
      BY <1>0 DEF Typing
    <3>3. proxy'.unconfirmed = proxy.unconfirmed + 1 \/ proxy'.unconfirmed = proxy.unconfirmed
      BY Zenon, <3>1, <3>2
    <3> QED  BY <1>0, <3>3
  <2>2. CASE NotifyFinished
    <3>1. \/ proxy' = proxy \/ proxy' = [proxy EXCEPT !.thread = TRUE] \/ proxy' = AdoptEarlyTasks(proxy)
      BY Zenon, <2>2 DEF NotifyFinished, WorkerThreadCreated
    <3>2. Len(proxy.early) \in Nat
      BY <1>0
    <3> QED  BY <1>0, <3>1, <3>2 DEF AdoptEarlyTasks, Typing
  <2>3. CASE Terminate \/ CollectWorker
    BY <1>0, <2>3
    DEF Terminate, TerminateWorkerContext, CollectWorker, WorkerContextDestroyed, Typing
  <2>4. CASE PerformMainTask
    <3> DEFINE task == Head(mainQueue)
    <3>1. CASE task.kind = "report" /\ ReportPendingActivity(task.confirming, task.pending)
      <4>1. CASE task.confirming /\ ~proxy.asked
        <5>0. mainQueue # <<>>
          BY <2>4 DEF PerformMainTask
        <5>1. task \in Receipts
          BY <1>0, <3>1, <4>1, <5>0, PlacesAfterTail DEF Receipts
        <5>2. 1 \in At(mainQueue, Receipts)
          BY <1>0, <5>0, <5>1, TailKeeps DEF At
        <5>3. Count(mainQueue, Receipts) # 0
          BY <1>0, <5>2, CountType
        <5>4. proxy.unconfirmed >= Owed /\ Owed >= Count(mainQueue, Receipts)
          BY <1>0, <4>1 DEF Covers, Owed
        <5>5. proxy'.unconfirmed = proxy.unconfirmed - 1
          BY <1>0, <3>1, <4>1 DEF ReportPendingActivity, Typing
        <5> QED  BY <1>0, <5>3, <5>4, <5>5, OwedType
      <4>2. CASE ~(task.confirming /\ ~proxy.asked)
        BY <1>0, <3>1, <4>2 DEF ReportPendingActivity, Typing
      <4> QED  BY <4>1, <4>2
    <3>2. CASE TerminateWorkerContext \/ proxy' = WorkerContextDestroyed(proxy) \/ proxy' = proxy
      BY <1>0, <3>2 DEF TerminateWorkerContext, WorkerContextDestroyed, Typing
    <3> QED  BY <2>4, <3>1, <3>2 DEF PerformMainTask, ShowMessage, ReportException
  <2>5. CASE proxy' = proxy
    BY <1>0, <2>5
  <2> QED
    BY <2>1, <2>2, <2>3, <2>4, <2>5, ThreadKeepsProxy DEF Next, PageStep, LoaderAnswers, vars
<1>2. heard' \in Seq(1..MaxPosts)
  <2>1. CASE heard' = heard
    BY <1>0, <2>1 DEF Records
  <2>2. CASE Hears
    <3>1. Head(worker.queue) \in WorkerTask /\ Head(worker.queue).kind = "message"
      BY <1>0, <2>2, PlacesAfterTail DEF Hears
    <3>2. Head(worker.queue).id \in 1..MaxPosts
      BY <3>1 DEF WorkerTask, Message, Simple
    <3> QED  BY <1>0, <2>2, <3>2 DEF Hears, Records
  <2> QED  BY <2>1, <2>2, WhoHears
<1>3. shown' \in Seq(1..MaxReplies)
  <2>1. CASE shown' = shown
    BY <1>0, <2>1 DEF Records
  <2>2. CASE shown' # shown
    <3>1. /\ mainQueue # <<>> /\ Head(mainQueue).kind = "message"
          /\ shown' = Append(shown, Head(mainQueue).id)
      BY <2>2, WhoShows
    <3>2. Head(mainQueue) \in MainTask
      BY <1>0, <3>1, PlacesAfterTail
    <3>3. Head(mainQueue).id \in 1..MaxReplies
      BY <3>1, <3>2 DEF MainTask, Message, Simple, Report
    <3> QED  BY <1>0, <3>1, <3>3 DEF Records
  <2> QED  BY <2>1, <2>2
<1>4. loads' \in Nat /\ premature' \in BOOLEAN
  BY <1>0, OtherRecords DEF Records
<1> QED  BY <1>1, <1>2, <1>3, <1>4 DEF Records

LEMMA AccountInit == Init => AccountInv
<1> SUFFICES ASSUME Init PROVE AccountInv
  OBVIOUS
<1>1. ChannelInv
  BY ChannelInit
<1>2. Count(<<>>, Mail) = 0 /\ Count(<<>>, Receipts) = 0
  <2>1. <<>> \in Seq(WorkerTask) /\ <<>> \in Seq(MainTask)
    OBVIOUS
  <2> QED  BY <2>1, CountType
<1>3. Owed = 0 /\ proxy.unconfirmed = 0
  BY <1>2 DEF Init, Owed, Handled
<1>4. Covers
  BY <1>3 DEF Covers
<1>5. Working /\ Fresh
  BY DEF Init, Working, Fresh
<1>6. Records
  <2>1. <<>> \in Seq(1..MaxPosts) /\ <<>> \in Seq(1..MaxReplies)
    OBVIOUS
  <2> QED  BY <1>3, <2>1 DEF Init, Records
<1> QED  BY <1>1, <1>4, <1>5, <1>6 DEF AccountInv

LEMMA AccountNext == AccountInv /\ [Next]_vars => AccountInv'
<1> SUFFICES ASSUME AccountInv, [Next]_vars PROVE AccountInv'
  OBVIOUS
<1>1. ChannelInv' /\ Covers
  BY ChannelNext DEF AccountInv
<1>2. Typing'
  BY <1>1 DEF ChannelInv, ProxyInv
<1> QED  BY <1>1, <1>2, WorkingKept, CoversNext, RecordsKept DEF AccountInv

LEMMA AccountImpliesType == AccountInv => TypeOK
<1> SUFFICES ASSUME AccountInv PROVE TypeOK
  OBVIOUS
<1>1. Typing /\ Records
  BY AccountFacts
<1>2. proxy.early \in Seq(WorkerTask)
  BY <1>1, MessageTasks DEF Typing
<1>3. proxy \in [object : BOOLEAN, thread : BOOLEAN, asked : BOOLEAN, deleted : BOOLEAN,
                 unconfirmed : Nat, hadPending : BOOLEAN, early : Seq(WorkerTask)]
  BY <1>1, <1>2 DEF Typing, Records
<1> QED  BY <1>1, <1>3 DEF Typing, Records, TypeOK

LEMMA AccountImpliesCovered == AccountInv => MessagesAccountedFor
<1> SUFFICES ASSUME AccountInv PROVE MessagesAccountedFor
  OBVIOUS
<1>1. worker.queue \in Seq(WorkerTask) /\ mainQueue \in Seq(MainTask) /\ Covers
  BY AccountFacts
<1>2. CountKind(worker.queue, "message") = Count(worker.queue, Mail)
  <2>1. {i \in DOMAIN worker.queue : worker.queue[i].kind = "message"} = At(worker.queue, Mail)
    BY <1>1 DEF At, Mail
  <2> QED  BY <2>1 DEF CountKind, Count
<1>3. Cardinality({i \in DOMAIN mainQueue : mainQueue[i].kind = "report" /\ mainQueue[i].confirming})
      = Count(mainQueue, Receipts)
  <2>1. {i \in DOMAIN mainQueue : mainQueue[i].kind = "report" /\ mainQueue[i].confirming}
        = At(mainQueue, Receipts)
    BY <1>1 DEF At, Receipts
  <2> QED  BY <2>1 DEF Count
<1> QED  BY <1>1, <1>2, <1>3 DEF MessagesAccountedFor, Covers, Owed, Handled

(***************************************************************************)
(* Every variable has its type, in a behaviour of any length: the count of *)
(* messages that the worker did not confirm never goes below zero.         *)
(***************************************************************************)
THEOREM TypeCorrect == Spec => []TypeOK
BY AccountInit, AccountNext, AccountImpliesType, PTL DEF Spec

(***************************************************************************)
(* The count of unconfirmed messages covers each message that was posted   *)
(* and whose confirmation has not arrived, exactly so unless the script    *)
(* closed itself (postMessageToWorkerContext, workerThreadCreated,         *)
(* confirmMessageFromWorkerObject, reportPendingActivityInternal).         *)
(***************************************************************************)
THEOREM MessagesAreCovered == Spec => []MessagesAccountedFor
BY AccountInit, AccountNext, AccountImpliesCovered, PTL DEF Spec

(***************************************************************************)
(* What the reports of a queue will have told the proxy when they have all *)
(* been performed: the last one decides whether the worker is active. They *)
(* are settled if a confirmation comes with each or after it, or it is the *)
(* first one and the proxy still waits for it. Messages are followed if    *)
(* activity is known, or will be reported, after each.                     *)
(***************************************************************************)
Reports(queue) == Places(queue, "report")

PendingAfter(queue, had) ==
    IF Reports(queue) = {} THEN had
    ELSE \E i \in Reports(queue) : queue[i].pending /\ \A j \in Reports(queue) : j <= i

Settled(queue, had) ==
    \A i \in Reports(queue) :
        \/ \E j \in Reports(queue) : queue[j].confirming /\ j >= i
        \/ had /\ \A j \in Reports(queue) : i <= j

Followed(queue, had) ==
    \A i \in Messages(queue) : PendingAfter(queue, had) \/ \E j \in Reports(queue) : j > i

LEMMA Appended ==
    ASSUME NEW S, NEW q \in Seq(S), NEW t \in S, NEW kind
    PROVE  /\ Len(q) + 1 \in Nat
           /\ \A i \in Places(q, kind) : i \in Nat /\ i < Len(q) + 1 /\ Append(q, t)[i] = q[i]
           /\ Append(q, t)[Len(q) + 1] = t
           /\ t.kind = kind => Places(Append(q, t), kind) = Places(q, kind) \cup {Len(q) + 1}
           /\ t.kind # kind => Places(Append(q, t), kind) = Places(q, kind)
<1>1. /\ Len(q) \in Nat /\ DOMAIN q = 1..Len(q)
      /\ \A i \in 1..Len(q) : Append(q, t)[i] = q[i]
      /\ Append(q, t)[Len(q) + 1] = t
  OBVIOUS
<1>2. /\ t.kind = kind => Places(Append(q, t), kind) = Places(q, kind) \cup {Len(q) + 1}
      /\ t.kind # kind => Places(Append(q, t), kind) = Places(q, kind)
  BY PlacesAfterAppend
<1>3. \A i \in Places(q, kind) : i \in 1..Len(q)
  BY <1>1 DEF Places
<1> QED  BY <1>1, <1>2, <1>3

LEMMA OtherAfterReports ==
    ASSUME NEW S, NEW q \in Seq(S), NEW t \in S, t.kind # "report", NEW had
    PROVE  /\ Reports(Append(q, t)) = Reports(q)
           /\ PendingAfter(Append(q, t), had) <=> PendingAfter(q, had)
           /\ Settled(q, had) => Settled(Append(q, t), had)
           /\ t.kind # "message" => (Followed(q, had) => Followed(Append(q, t), had))
<1>1. /\ Reports(Append(q, t)) = Reports(q)
      /\ \A i \in Reports(q) : Append(q, t)[i] = q[i]
  <2>1. \A i \in Places(q, "report") : Append(q, t)[i] = q[i]
    <3>1. DOMAIN q = 1..Len(q) /\ \A i \in 1..Len(q) : Append(q, t)[i] = q[i]
      OBVIOUS
    <3> QED  BY <3>1 DEF Places
  <2>2. Places(Append(q, t), "report") = Places(q, "report")
    BY OtherAppended
  <2> QED  BY <2>1, <2>2 DEF Reports
<1>2. t.kind # "message" => Messages(Append(q, t)) = Messages(q)
  BY Appended DEF Messages
<1> HIDE DEF Reports
<1> DEFINE r == Append(q, t)
<1> HIDE DEF r
<1>3. /\ Reports(r) = Reports(q) /\ \A i \in Reports(q) : r[i] = q[i]
      /\ t.kind # "message" => Messages(r) = Messages(q)
  BY <1>1, <1>2 DEF r
<1>4. PendingAfter(r, had) <=> PendingAfter(q, had)
  BY <1>3 DEF PendingAfter
<1>5. Settled(q, had) => Settled(r, had)
  BY <1>3 DEF Settled
<1>6. t.kind # "message" => (Followed(q, had) => Followed(r, had))
  BY <1>3, <1>4 DEF Followed
<1> QED  BY <1>3, <1>4, <1>5, <1>6 DEF r

LEMMA ReportAfterReports ==
    ASSUME NEW S, NEW q \in Seq(S), NEW t \in S, t.kind = "report", NEW had
    PROVE  /\ PendingAfter(Append(q, t), had) <=> t.pending
           /\ t.confirming \/ (Reports(q) = {} /\ had) => Settled(Append(q, t), had)
           /\ Followed(Append(q, t), had)
<1> DEFINE r == Append(q, t)
           last == Len(q) + 1
<1>1. /\ Reports(r) = Reports(q) \cup {last} /\ last \in Nat
      /\ \A i \in Reports(q) : i \in Nat /\ i < last /\ r[i] = q[i]
      /\ r[last] = t
  <2>1. /\ Len(q) \in Nat /\ DOMAIN q = 1..Len(q)
        /\ \A i \in 1..Len(q) : Append(q, t)[i] = q[i]
        /\ Append(q, t)[Len(q) + 1] = t
    OBVIOUS
  <2>2. Places(Append(q, t), "report") = Places(q, "report") \cup {Len(q) + 1}
    BY PlacesAfterAppend
  <2>3. \A i \in Places(q, "report") : i \in Nat /\ i < Len(q) + 1 /\ Append(q, t)[i] = q[i]
    BY <2>1 DEF Places
  <2>4. Len(q) + 1 \in Nat
    BY <2>1
  <2> QED  BY Zenon, <2>1, <2>2, <2>3, <2>4 DEF Reports
<1>2. Messages(r) = Messages(q) /\ \A i \in Messages(q) : i \in Nat /\ i < last
  <2>1. t.kind # "message"
    OBVIOUS
  <2> QED  BY <2>1, Appended DEF Messages
<1> HIDE DEF r, last
<1>3. PendingAfter(r, had) <=> t.pending
  <2>1. \A i \in Reports(r) : i <= last
    BY <1>1
  <2>2. \A i \in Reports(r) : (\A j \in Reports(r) : j <= i) => i = last
    BY <1>1
  <2>3. Reports(r) # {} /\ last \in Reports(r)
    BY <1>1
  <2> QED  BY <1>1, <2>1, <2>2, <2>3 DEF PendingAfter
<1>4. ASSUME t.confirming PROVE Settled(r, had)
  <2>1. last \in Reports(r) /\ r[last].confirming /\ \A i \in Reports(r) : last >= i
    BY <1>1, <1>4
  <2> QED  BY <2>1 DEF Settled
<1>5. ASSUME Reports(q) = {}, had PROVE Settled(r, had)
  <2>1. \A i, j \in Reports(r) : i <= j
    BY <1>1, <1>5
  <2> QED  BY <1>5, <2>1 DEF Settled
<1>6. Followed(r, had)
  BY <1>1, <1>2 DEF Followed
<1> QED  BY <1>3, <1>4, <1>5, <1>6 DEF r

(***************************************************************************)
(* The next task is performed; if it is a report, the proxy remembers it.  *)
(***************************************************************************)
LEMMA Taken ==
    ASSUME NEW S, NEW q \in Seq(S), q # <<>>, NEW kind
    PROVE  /\ \A i \in Places(Tail(q), kind) :
                i \in Nat \ {0} /\ i + 1 \in Places(q, kind) /\ Tail(q)[i] = q[i + 1]
           /\ \A i \in Places(q, kind) :
                \/ i = 1 /\ Head(q).kind = kind
                \/ i \in Nat /\ 1 < i /\ i - 1 \in Places(Tail(q), kind) /\ Tail(q)[i - 1] = q[i]
           /\ Head(q).kind = kind => 1 \in Places(q, kind) /\ q[1] = Head(q)
<1>1. /\ Tail(q) \in Seq(S) /\ Head(q) = q[1]
      /\ Len(q) \in Nat \ {0} /\ Len(Tail(q)) = Len(q) - 1
      /\ \A i \in 1..(Len(q) - 1) : Tail(q)[i] = q[i + 1]
  BY HeadTailProperties
<1>2. DOMAIN q = 1..Len(q) /\ DOMAIN Tail(q) = 1..(Len(q) - 1)
  BY <1>1
<1>3. ASSUME NEW i \in Places(q, kind), i # 1
      PROVE  i \in Nat /\ 1 < i /\ i - 1 \in Places(Tail(q), kind) /\ Tail(q)[i - 1] = q[i]
  <2>1. i \in 1..Len(q) /\ i - 1 \in 1..(Len(q) - 1) /\ (i - 1) + 1 = i /\ q[i].kind = kind
    BY <1>1, <1>2, <1>3 DEF Places
  <2>2. Tail(q)[i - 1] = q[i]
    BY <1>1, <2>1
  <2> QED  BY <1>2, <1>3, <2>1, <2>2 DEF Places
<1>4. \A i \in Places(Tail(q), kind) :
        i \in Nat \ {0} /\ i + 1 \in Places(q, kind) /\ Tail(q)[i] = q[i + 1]
  BY <1>1, <1>2 DEF Places
<1>5. Head(q).kind = kind => 1 \in Places(q, kind) /\ q[1] = Head(q)
  BY <1>1, <1>2 DEF Places
<1>6. 1 \in Places(q, kind) => Head(q).kind = kind
  BY <1>1 DEF Places
<1> QED  BY Zenon, <1>3, <1>4, <1>5, <1>6

LEMMA OtherTaken ==
    ASSUME NEW S, NEW q \in Seq(S), q # <<>>, Head(q).kind # "report", NEW had
    PROVE  /\ Reports(q) = {} => Reports(Tail(q)) = {}
           /\ PendingAfter(Tail(q), had) <=> PendingAfter(q, had)
           /\ Settled(q, had) => Settled(Tail(q), had)
           /\ Followed(q, had) => Followed(Tail(q), had)
<1> DEFINE r == Tail(q)
<1>1. /\ \A i \in Reports(r) : i \in Nat \ {0} /\ i + 1 \in Reports(q) /\ r[i] = q[i + 1]
      /\ \A i \in Reports(q) : i \in Nat /\ i - 1 \in Reports(r) /\ r[i - 1] = q[i]
  <2>1. /\ \A i \in Places(r, "report") :
                i \in Nat \ {0} /\ i + 1 \in Places(q, "report") /\ r[i] = q[i + 1]
        /\ \A i \in Places(q, "report") :
                \/ i = 1 /\ Head(q).kind = "report"
                \/ i \in Nat /\ 1 < i /\ i - 1 \in Places(r, "report") /\ r[i - 1] = q[i]
    BY Zenon, Taken
  <2> HIDE DEF r
  <2> QED  BY <2>1 DEF Reports
<1>2. \A i \in Messages(r) : i \in Nat /\ i + 1 \in Messages(q)
  BY Taken DEF Messages
<1> HIDE DEF r
<1>3. PendingAfter(r, had) <=> PendingAfter(q, had)
  <2>1. Reports(r) = {} <=> Reports(q) = {}
    BY <1>1
  <2>2. ASSUME NEW i \in Reports(q), q[i].pending, \A j \in Reports(q) : j <= i
        PROVE  \E k \in Reports(r) : r[k].pending /\ \A j \in Reports(r) : j <= k
    <3>1. i - 1 \in Reports(r) /\ r[i - 1].pending /\ i \in Nat
      BY <1>1, <2>2
    <3>2. ASSUME NEW j \in Reports(r) PROVE j <= i - 1
      <4>1. j \in Nat /\ j + 1 <= i
        BY <1>1, <2>2, <3>2
      <4> QED  BY <3>1, <4>1
    <3> QED  BY <3>1, <3>2
  <2>3. ASSUME NEW k \in Reports(r), r[k].pending, \A j \in Reports(r) : j <= k
        PROVE  \E i \in Reports(q) : q[i].pending /\ \A j \in Reports(q) : j <= i
    <3>1. k + 1 \in Reports(q) /\ q[k + 1].pending /\ k \in Nat
      BY <1>1, <2>3
    <3>2. ASSUME NEW j \in Reports(q) PROVE j <= k + 1
      <4>1. j \in Nat /\ j - 1 <= k
        BY <1>1, <2>3, <3>2
      <4> QED  BY <3>1, <4>1
    <3> QED  BY <3>1, <3>2
  <2> QED  BY <2>1, <2>2, <2>3 DEF PendingAfter
<1>4. ASSUME Settled(q, had) PROVE Settled(r, had)
  <2> SUFFICES ASSUME NEW i \in Reports(r)
               PROVE  \/ \E j \in Reports(r) : r[j].confirming /\ j >= i
                      \/ had /\ \A j \in Reports(r) : i <= j
    BY DEF Settled
  <2>1. i + 1 \in Reports(q) /\ i \in Nat
    BY <1>1
  <2>2. CASE \E j \in Reports(q) : q[j].confirming /\ j >= i + 1
    <3>1. PICK j \in Reports(q) : q[j].confirming /\ j >= i + 1
      BY <2>2
    <3>2. j - 1 \in Reports(r) /\ r[j - 1].confirming /\ j - 1 >= i
      BY <1>1, <2>1, <3>1
    <3> QED  BY <3>2
  <2>3. CASE had /\ \A j \in Reports(q) : i + 1 <= j
    <3>1. ASSUME NEW j \in Reports(r) PROVE i <= j
      <4>1. j \in Nat /\ i + 1 <= j + 1
        BY <1>1, <2>3, <3>1
      <4> QED  BY <2>1, <4>1
    <3> QED  BY <2>3, <3>1
  <2> QED  BY <1>4, <2>1, <2>2, <2>3 DEF Settled
<1>5. ASSUME Followed(q, had) PROVE Followed(r, had)
  <2> SUFFICES ASSUME NEW i \in Messages(r), ~PendingAfter(q, had)
               PROVE  \E j \in Reports(r) : j > i
    BY <1>3 DEF Followed
  <2>1. i + 1 \in Messages(q) /\ i \in Nat
    BY <1>2
  <2>2. PICK j \in Reports(q) : j > i + 1
    BY <1>5, <2>1 DEF Followed
  <2>3. j - 1 \in Reports(r) /\ j - 1 > i
    BY <1>1, <2>1, <2>2
  <2> QED  BY <2>3
<1>6. Reports(q) = {} => Reports(r) = {}
  BY <1>1
<1> QED  BY <1>3, <1>4, <1>5, <1>6 DEF r

LEMMA ReportTaken ==
    ASSUME NEW S, NEW q \in Seq(S), q # <<>>, Head(q).kind = "report", NEW had
    PROVE  /\ PendingAfter(Tail(q), Head(q).pending) <=> PendingAfter(q, had)
           /\ Settled(q, had) => Settled(Tail(q), Head(q).pending)
           /\ Followed(q, had) => Followed(Tail(q), Head(q).pending)
<1> DEFINE r == Tail(q)
           t == Head(q)
<1>1. /\ \A i \in Reports(r) : i \in Nat \ {0} /\ i + 1 \in Reports(q) /\ r[i] = q[i + 1]
      /\ \A i \in Reports(q) : i = 1 \/ (i \in Nat /\ 1 < i /\ i - 1 \in Reports(r) /\ r[i - 1] = q[i])
      /\ 1 \in Reports(q) /\ q[1] = t
  <2>1. /\ \A i \in Places(r, "report") :
                i \in Nat \ {0} /\ i + 1 \in Places(q, "report") /\ r[i] = q[i + 1]
        /\ \A i \in Places(q, "report") :
                \/ i = 1 /\ t.kind = "report"
                \/ i \in Nat /\ 1 < i /\ i - 1 \in Places(r, "report") /\ r[i - 1] = q[i]
        /\ t.kind = "report" => 1 \in Places(q, "report") /\ q[1] = t
    BY Zenon, Taken
  <2> HIDE DEF r, t
  <2> QED  BY Zenon, <2>1 DEF Reports, t
<1>2. \A i \in Messages(r) : i \in Nat /\ i + 1 \in Messages(q)
  BY Taken DEF Messages
<1> HIDE DEF r, t
<1>3. PendingAfter(r, t.pending) <=> PendingAfter(q, had)
  <2>1. CASE Reports(r) = {}
    <3>1. Reports(q) = {1}
      BY <1>1, <2>1
    <3> QED  BY <1>1, <2>1, <3>1 DEF PendingAfter
  <2>2. CASE Reports(r) # {}
    <3>1. ASSUME NEW i \in Reports(q), q[i].pending, \A j \in Reports(q) : j <= i
          PROVE  \E k \in Reports(r) : r[k].pending /\ \A j \in Reports(r) : j <= k
      <4>1. \E j \in Reports(r) : j \in Nat \ {0} /\ j + 1 <= i
        BY <1>1, <2>2, <3>1
      <4>2. i # 1
        BY <4>1
      <4>3. i - 1 \in Reports(r) /\ r[i - 1].pending /\ i \in Nat
        BY <1>1, <3>1, <4>2
      <4>4. ASSUME NEW j \in Reports(r) PROVE j <= i - 1
        <5>1. j \in Nat /\ j + 1 <= i
          BY <1>1, <3>1, <4>4
        <5> QED  BY <4>3, <5>1
      <4> QED  BY <4>3, <4>4
    <3>2. ASSUME NEW k \in Reports(r), r[k].pending, \A j \in Reports(r) : j <= k
          PROVE  \E i \in Reports(q) : q[i].pending /\ \A j \in Reports(q) : j <= i
      <4>1. k + 1 \in Reports(q) /\ q[k + 1].pending /\ k \in Nat
        BY <1>1, <3>2
      <4>2. ASSUME NEW j \in Reports(q) PROVE j <= k + 1
        <5>1. j = 1 \/ (j \in Nat /\ j - 1 <= k)
          BY <1>1, <3>2, <4>2
        <5> QED  BY <4>1, <5>1
      <4> QED  BY <4>1, <4>2
    <3>3. Reports(q) # {}
      BY <1>1
    <3> QED  BY <2>2, <3>1, <3>2, <3>3 DEF PendingAfter
  <2> QED  BY <2>1, <2>2
<1>4. ASSUME Settled(q, had) PROVE Settled(r, t.pending)
  <2> SUFFICES ASSUME NEW i \in Reports(r)
               PROVE  \E j \in Reports(r) : r[j].confirming /\ j >= i
    BY DEF Settled
  <2>1. i + 1 \in Reports(q) /\ i \in Nat \ {0}
    BY <1>1
  <2>2. ~(\A j \in Reports(q) : i + 1 <= j)
    <3>1. ~(i + 1 <= 1)
      BY <2>1
    <3> QED  BY <1>1, <3>1
  <2>3. PICK j \in Reports(q) : q[j].confirming /\ j >= i + 1
    BY <1>4, <2>1, <2>2 DEF Settled
  <2>4. j - 1 \in Reports(r) /\ r[j - 1].confirming /\ j - 1 >= i
    <3>1. j # 1
      BY <2>1, <2>3
    <3>2. j \in Nat /\ j - 1 \in Reports(r) /\ r[j - 1] = q[j]
      BY <1>1, <3>1
    <3> QED  BY <2>1, <2>3, <3>2
  <2> QED  BY <2>4
<1>5. ASSUME Followed(q, had) PROVE Followed(r, t.pending)
  <2> SUFFICES ASSUME NEW i \in Messages(r), ~PendingAfter(q, had)
               PROVE  \E j \in Reports(r) : j > i
    BY <1>3 DEF Followed
  <2>1. i + 1 \in Messages(q) /\ i \in Nat
    BY <1>2
  <2>2. PICK j \in Reports(q) : j > i + 1
    BY <1>5, <2>1 DEF Followed
  <2>3. j - 1 \in Reports(r) /\ j - 1 > i
    <3>1. j # 1
      BY <2>1, <2>2
    <3>2. j \in Nat /\ j - 1 \in Reports(r)
      BY <1>1, <3>1
    <3> QED  BY <2>1, <2>2, <3>2
  <2> QED  BY <2>3
<1> QED  BY <1>3, <1>4, <1>5 DEF r, t

(***************************************************************************)
(* The inductive invariant for the collector: as long as the proxy follows *)
(* the worker, it knows of the activity of its script, or will, or the     *)
(* script handles a message.                                               *)
(***************************************************************************)
Follows == proxy.thread /\ ~proxy.asked /\ ~worker.closing /\ ~premature

Begins == worker.phase \in {"created", "failed"} \/ worker.task = "init"

Known ==
    /\ Begins => Reports(mainQueue) = {} /\ proxy.hadPending
    /\ \/ PendingAfter(mainQueue, proxy.hadPending)
       \/ worker.task = "message"
       \/ worker.phase = "loop" /\ ~worker.active
    /\ worker.task = "message" \/ Settled(mainQueue, proxy.hadPending)
    /\ worker.phase \in {"script", "load"} \/ Followed(mainQueue, proxy.hadPending)

CloseMeansClosing == Places(worker.queue, "close") # {} => worker.closing

QuietInv == AccountInv /\ CloseMeansClosing /\ (Follows => Known)

LEMMA QuietFacts ==
    ASSUME QuietInv
    PROVE  /\ AccountInv /\ CloseMeansClosing /\ (Follows => Known)
           /\ Typing /\ ProxyInv /\ Shutdown /\ Working /\ Fresh
           /\ worker.queue \in Seq(WorkerTask) /\ mainQueue \in Seq(MainTask)
           /\ worker.active \in BOOLEAN
<1>1. AccountInv
  BY DEF QuietInv
<1> QED  BY <1>1, AccountFacts DEF QuietInv, Typing

(***************************************************************************)
(* A step that posts nothing but what is neither a report nor a message.   *)
(***************************************************************************)
PostsOther ==
    \/ mainQueue' = mainQueue
    \/ \E t \in MainTask : t.kind \notin {"report", "message"} /\ mainQueue' = Append(mainQueue, t)

LEMMA PostsOtherKeeps ==
    ASSUME Typing, PostsOther, proxy'.hadPending = proxy.hadPending
    PROVE  /\ Reports(mainQueue') = Reports(mainQueue)
           /\ PendingAfter(mainQueue', proxy'.hadPending) <=> PendingAfter(mainQueue, proxy.hadPending)
           /\ Settled(mainQueue, proxy.hadPending) => Settled(mainQueue', proxy'.hadPending)
           /\ Followed(mainQueue, proxy.hadPending) => Followed(mainQueue', proxy'.hadPending)
<1>0. mainQueue \in Seq(MainTask)
  BY DEF Typing
<1>1. CASE mainQueue' = mainQueue
  BY <1>1
<1>2. CASE \E t \in MainTask : t.kind \notin {"report", "message"} /\ mainQueue' = Append(mainQueue, t)
  <2>1. PICK t \in MainTask : t.kind \notin {"report", "message"} /\ mainQueue' = Append(mainQueue, t)
    BY <1>2
  <2> DEFINE had == proxy.hadPending
  <2>2. /\ Reports(Append(mainQueue, t)) = Reports(mainQueue)
        /\ PendingAfter(Append(mainQueue, t), had) <=> PendingAfter(mainQueue, had)
        /\ Settled(mainQueue, had) => Settled(Append(mainQueue, t), had)
        /\ Followed(mainQueue, had) => Followed(Append(mainQueue, t), had)
    BY <1>0, <2>1, OtherAfterReports
  <2> QED  BY <2>1, <2>2
<1> QED  BY <1>1, <1>2 DEF PostsOther

LEMMA KnownKept ==
    ASSUME QuietInv, PostsOther, Follows' => Follows,
           proxy'.hadPending = proxy.hadPending, Follows' /\ Begins' => Begins,
           Follows' =>
              \/ worker'.task = "message"
              \/ /\ worker.task # "message"
                 /\ worker.phase = "loop" /\ ~worker.active => worker'.phase = "loop" /\ ~worker'.active,
           worker.phase \in {"script", "load"} => worker'.phase \in {"script", "load"}
    PROVE  Follows' => Known'
<1> SUFFICES ASSUME Follows' PROVE Known'
  OBVIOUS
<1>1. Known /\ Typing
  BY QuietFacts
<1> DEFINE had == proxy.hadPending
<1>2. /\ Reports(mainQueue') = Reports(mainQueue)
      /\ PendingAfter(mainQueue', proxy'.hadPending) <=> PendingAfter(mainQueue, had)
      /\ Settled(mainQueue, had) => Settled(mainQueue', proxy'.hadPending)
      /\ Followed(mainQueue, had) => Followed(mainQueue', proxy'.hadPending)
  BY <1>1, PostsOtherKeeps
<1> QED  BY <1>1, <1>2 DEF Known

(***************************************************************************)
(* The steps of the page and of the main thread.                           *)
(***************************************************************************)
LEMMA PageKnows ==
    ASSUME QuietInv, PageStep \/ LoaderAnswers PROVE Follows' => Known'
<1>0. /\ Typing /\ ProxyInv /\ Working /\ Fresh /\ worker.queue \in Seq(WorkerTask)
      /\ (~proxy.thread => mainQueue = <<>>)
  BY QuietFacts DEF ProxyInv, ThreadIsKnown
<1>1. CASE PostMessage
  <2>1. /\ proxy'.thread = proxy.thread /\ proxy'.asked = proxy.asked
        /\ proxy'.hadPending = proxy.hadPending
        /\ worker'.phase = worker.phase /\ worker'.task = worker.task
        /\ worker'.active = worker.active /\ worker'.closing = worker.closing
        /\ mainQueue' = mainQueue /\ premature' = premature
    BY <1>0, <1>1 DEF PostMessage, Typing
  <2> QED  BY <2>1, KnownKept DEF PostsOther, Follows, Begins
<1>2. CASE Terminate \/ CollectWorker
  <2>1. proxy'.asked
    BY <1>0, <1>2 DEF Terminate, TerminateWorkerContext, CollectWorker, WorkerContextDestroyed, Typing
  <2> QED  BY <2>1 DEF Follows
<1>3. CASE NotifyFinished
  <2>1. worker.phase = "none" /\ ~proxy.thread /\ mainQueue' = <<>>
    BY <1>0, <1>3 DEF ProxyInv, ThreadIsKnown, NotifyFinished
  <2>2. CASE UNCHANGED <<proxy, worker>>
    BY <2>1, <2>2 DEF Follows
  <2>3. CASE \E started \in Starts : WorkerThreadCreated(worker, started)
    <3>1. PICK started \in Starts : WorkerThreadCreated(worker, started)
      BY <2>3
    <3>2. CASE proxy.asked
      <4>1. proxy'.asked
        BY <1>0, <3>1, <3>2 DEF WorkerThreadCreated, Typing
      <4> QED  BY <4>1 DEF Follows
    <3>3. CASE ~proxy.asked
      <4>1. proxy'.hadPending
        BY <1>0, <3>1, <3>3 DEF WorkerThreadCreated, AdoptEarlyTasks, Typing
      <4>2. Reports(mainQueue') = {} /\ Messages(mainQueue') = {}
        BY <2>1 DEF Reports, Messages, Places
      <4>3. /\ PendingAfter(mainQueue', proxy'.hadPending)
            /\ Settled(mainQueue', proxy'.hadPending)
            /\ Followed(mainQueue', proxy'.hadPending)
        BY <4>1, <4>2 DEF PendingAfter, Settled, Followed
      <4> QED  BY <4>1, <4>2, <4>3 DEF Known
    <3> QED  BY <3>2, <3>3
  <2> QED  BY <1>3, <2>2, <2>3 DEF NotifyFinished
<1>4. CASE LoaderAnswers
  <2>1. /\ proxy' = proxy
        /\ worker'.phase = worker.phase /\ worker'.task = worker.task
        /\ worker'.active = worker.active /\ worker'.closing = worker.closing
        /\ mainQueue' = mainQueue /\ premature' = premature
    BY <1>0, <1>4 DEF LoaderAnswers, Typing
  <2> QED  BY <2>1, KnownKept DEF PostsOther, Follows, Begins
<1> QED  BY <1>1, <1>2, <1>3, <1>4 DEF PageStep

LEMMA MainTaskKnows ==
    ASSUME QuietInv, PerformMainTask PROVE Follows' => Known'
<1> DEFINE task == Head(mainQueue)
           had  == proxy.hadPending
<1>0. Typing /\ mainQueue \in Seq(MainTask) /\ (Follows => Known)
  BY QuietFacts
<1>1. mainQueue # <<>> /\ mainQueue' = Tail(mainQueue) /\ premature' = premature
  BY DEF PerformMainTask
<1>2. CASE task.kind # "report" /\ proxy' = proxy /\ worker' = worker
  <2> SUFFICES ASSUME Follows' PROVE Known'
    OBVIOUS
  <2>1. Known
    BY <1>0, <1>1, <1>2 DEF Follows
  <2>2. /\ Reports(mainQueue) = {} => Reports(Tail(mainQueue)) = {}
        /\ PendingAfter(Tail(mainQueue), had) <=> PendingAfter(mainQueue, had)
        /\ Settled(mainQueue, had) => Settled(Tail(mainQueue), had)
        /\ Followed(mainQueue, had) => Followed(Tail(mainQueue), had)
    BY <1>0, <1>1, <1>2, OtherTaken
  <2> QED  BY <1>1, <1>2, <2>1, <2>2 DEF Known, Begins
<1>3. CASE task.kind = "report" /\ ReportPendingActivity(task.confirming, task.pending)
  <2> SUFFICES ASSUME Follows' PROVE Known'
    OBVIOUS
  <2>1. /\ proxy'.hadPending = task.pending /\ proxy'.thread = proxy.thread
        /\ proxy'.asked = proxy.asked /\ worker' = worker
    BY <1>0, <1>3 DEF ReportPendingActivity, Typing
  <2>2. Known
    BY <1>0, <1>1, <2>1 DEF Follows
  <2>3. /\ PendingAfter(Tail(mainQueue), task.pending) <=> PendingAfter(mainQueue, had)
        /\ Settled(mainQueue, had) => Settled(Tail(mainQueue), task.pending)
        /\ Followed(mainQueue, had) => Followed(Tail(mainQueue), task.pending)
    BY <1>0, <1>1, <1>3, ReportTaken
  <2>4. ~Begins
    <3>1. Reports(mainQueue) # {}
      BY <1>0, <1>1, <1>3, PlacesAfterTail DEF Reports
    <3> QED  BY <2>2, <3>1 DEF Known
  <2>5. ~Begins'
    BY <2>1, <2>4 DEF Begins
  <2> HIDE DEF task, had
  <2> QED  BY <1>1, <2>1, <2>2, <2>3, <2>5 DEF Known, had
<1>4. CASE TerminateWorkerContext \/ proxy' = WorkerContextDestroyed(proxy)
  <2>1. proxy'.asked
    BY <1>0, <1>4 DEF TerminateWorkerContext, WorkerContextDestroyed, Typing
  <2> QED  BY <2>1 DEF Follows
<1> QED
  BY <1>2, <1>3, <1>4 DEF PerformMainTask, ShowMessage, ReportException

(***************************************************************************)
(* The steps of the worker's thread.                                       *)
(***************************************************************************)
\* The thread is shut down only after the page asked for it.
LEMMA FollowedLives ==
    ASSUME QuietInv, Follows, worker.phase \notin {"none", "failed"}
    PROVE  ~worker.killed /\ ~worker.terminated
BY QuietFacts DEF Shutdown, Follows, Typing

LEMMA ScriptKnows ==
    ASSUME QuietInv, ScriptStep \/ CreateContext \/ TimerFires \/ DestroyContext
    PROVE  Follows' => Known'
<1>0. /\ Typing /\ Working /\ (Follows => Known) /\ mainQueue \in Seq(MainTask)
      /\ worker.active \in BOOLEAN
  BY QuietFacts
<1>1. CASE ScriptPosts
  <2> SUFFICES ASSUME Follows' PROVE Known'
    OBVIOUS
  <2> DEFINE had == proxy.hadPending
             t == Message(said')
  <2>1. /\ UNCHANGED <<proxy, worker, premature>> /\ worker.phase = "script"
        /\ mainQueue' = Append(mainQueue, t)
    BY <1>1 DEF ScriptPosts
  <2>2. t \in MainTask /\ t.kind = "message"
    <3>1. said' \in 1..MaxReplies
      BY <1>0, <1>1, BoundsAssumption DEF ScriptPosts, Typing
    <3> QED  BY <3>1, MainTasks
  <2>3. Known
    BY <1>0, <2>1 DEF Follows
  <2> HIDE DEF t
  <2>4. /\ Reports(Append(mainQueue, t)) = Reports(mainQueue)
        /\ PendingAfter(Append(mainQueue, t), had) <=> PendingAfter(mainQueue, had)
        /\ Settled(mainQueue, had) => Settled(Append(mainQueue, t), had)
    BY <1>0, <2>2, OtherAfterReports
  <2> QED  BY <2>1, <2>3, <2>4 DEF Known, Begins
<1>2. CASE ScriptThrows
  <2>1. UNCHANGED <<proxy, worker, premature>> /\ PostsOther
    BY <1>2, MainTasks DEF ScriptThrows, PostsOther
  <2> QED  BY <2>1, KnownKept DEF Follows, Begins
<1>3. CASE ScriptCloses
  <2>1. worker'.closing
    BY <1>0, <1>3 DEF ScriptCloses, Typing
  <2> QED  BY <2>1 DEF Follows
<1>4. CASE ScriptChangesActivity \/ ScriptLoads
  <2>1. UNCHANGED <<proxy, premature>> /\ PostsOther
    BY <1>4, MainTasks DEF ScriptChangesActivity, ScriptLoads, PostsOther
  <2>2. /\ worker.phase = "script" /\ worker'.phase \in {"script", "load"}
        /\ worker'.task = worker.task /\ worker'.closing = worker.closing
    BY <1>0, <1>4 DEF ScriptChangesActivity, ScriptLoads, Typing
  <2> QED  BY <2>1, <2>2, KnownKept DEF Follows, Begins
<1>5. CASE CreateContext
  <2>1. UNCHANGED <<proxy, premature>> /\ worker.phase = "created" /\ worker.task = "none"
    BY <1>0, <1>5 DEF CreateContext, Working, Typing
  <2>2. worker'.closing = worker.closing /\ (Follows' => Follows)
    <3>1. \/ worker' = [worker EXCEPT !.phase = "loop", !.terminated = TRUE]
          \/ worker' = [worker EXCEPT !.phase = "script", !.task = "init"]
      BY <1>5 DEF CreateContext
    <3>2. worker'.closing = worker.closing
      BY <1>0, <3>1 DEF Typing
    <3> QED  BY <2>1, <3>2 DEF Follows
  <2> SUFFICES ASSUME Follows' PROVE Known'
    OBVIOUS
  <2>3. ~worker.killed
    BY <2>1, <2>2, FollowedLives
  <2>4. worker' = [worker EXCEPT !.phase = "script", !.task = "init"] /\ mainQueue' = mainQueue
    BY <1>5, <2>3 DEF CreateContext
  <2>5. worker'.phase = "script" /\ worker'.task = "init"
    BY <1>0, <2>4 DEF Typing
  <2>6. Begins /\ PostsOther /\ proxy'.hadPending = proxy.hadPending
    BY <2>1, <2>4 DEF Begins, PostsOther
  <2> QED  BY <2>1, <2>2, <2>5, <2>6, KnownKept
<1>6. CASE TimerFires
  <2>1. /\ worker.phase = "loop" /\ worker.active /\ worker.task = "none"
        /\ UNCHANGED <<proxy, premature, mainQueue>>
    <3>1. worker.phase = "loop" /\ worker.active /\ UNCHANGED <<proxy, premature, mainQueue>>
      BY Zenon, <1>6 DEF TimerFires
    <3> QED  BY <1>0, <3>1 DEF Working
  <2>2. PICK again \in BOOLEAN :
            worker' = [worker EXCEPT !.phase = "script", !.task = "timer", !.active = again]
    BY Zenon, <1>6 DEF TimerFires
  <2>3. worker'.phase = "script" /\ worker'.task = "timer" /\ worker'.closing = worker.closing
    BY <1>0, <2>2 DEF Typing
  <2> QED  BY <2>1, <2>3, KnownKept DEF Follows, Begins, PostsOther
<1>7. CASE DestroyContext
  <2>1. worker.phase = "loop" /\ worker.killed /\ UNCHANGED <<proxy, premature>>
    BY <1>7 DEF DestroyContext
  <2>2. worker'.closing = worker.closing
    BY <1>0, <1>7 DEF DestroyContext, Typing
  <2> QED  BY <2>1, <2>2, FollowedLives DEF Follows
<1> QED  BY <1>1, <1>2, <1>3, <1>4, <1>5, <1>6, <1>7 DEF ScriptStep

\* The script's end is reported, but for one that a timer started: that one was known.
LEMMA ScriptEndKnows ==
    ASSUME QuietInv, ScriptEnds PROVE Follows' => Known'
<1>0. /\ Typing /\ Working /\ (Follows => Known) /\ mainQueue \in Seq(MainTask)
      /\ worker.active \in BOOLEAN
  BY QuietFacts
<1>1. /\ UNCHANGED <<proxy, premature>> /\ worker.phase = "script"
      /\ worker' = [worker EXCEPT !.phase = "loop", !.task = "none"]
  BY DEF ScriptEnds
<1>2. /\ worker'.phase = "loop" /\ worker'.task = "none" /\ worker'.active = worker.active
      /\ worker'.closing = worker.closing
  BY <1>0, <1>1 DEF Typing
<1> SUFFICES ASSUME Follows' PROVE Known'
  OBVIOUS
<1>3. Known
  BY <1>0, <1>1, <1>2 DEF Follows
<1> DEFINE had == proxy.hadPending
<1>4. ASSUME NEW c \in BOOLEAN, mainQueue' = Append(mainQueue, Report(c, worker.active)),
             c \/ (Reports(mainQueue) = {} /\ had)
      PROVE  Known'
  <2> DEFINE t == Report(c, worker.active)
  <2>1. t \in MainTask /\ t.kind = "report" /\ t.confirming = c /\ t.pending = worker.active
    BY <1>0, <1>4, MainTasks DEF Report
  <2> HIDE DEF t
  <2>2. /\ PendingAfter(Append(mainQueue, t), had) <=> t.pending
        /\ t.confirming \/ (Reports(mainQueue) = {} /\ had) => Settled(Append(mainQueue, t), had)
        /\ Followed(Append(mainQueue, t), had)
    BY <1>0, <2>1, ReportAfterReports
  <2>3. mainQueue' = Append(mainQueue, t)
    BY <1>4 DEF t
  <2> QED  BY <1>1, <1>2, <1>4, <2>1, <2>2, <2>3 DEF Known, Begins
<1>5. CASE worker.task = "init"
  <2>1. mainQueue' = Append(mainQueue, Report(FALSE, worker.active))
    BY <1>5 DEF ScriptEnds
  <2>2. Reports(mainQueue) = {} /\ had
    BY <1>3, <1>5 DEF Known, Begins
  <2> QED  BY <1>4, <2>1, <2>2
<1>6. CASE worker.task = "message"
  <2>1. mainQueue' = Append(mainQueue, Report(TRUE, worker.active))
    BY <1>6 DEF ScriptEnds
  <2> QED  BY <1>4, <2>1
<1>7. CASE worker.task \notin {"init", "message"}
  <2>1. mainQueue' = mainQueue
    BY <1>7 DEF ScriptEnds
  <2>2. PendingAfter(mainQueue, had) /\ Settled(mainQueue, had)
    BY <1>1, <1>3, <1>7 DEF Known
  <2>3. Followed(mainQueue, had)
    BY <2>2 DEF Followed
  <2> QED  BY <1>1, <1>2, <2>1, <2>2, <2>3 DEF Known, Begins
<1> QED  BY <1>5, <1>6, <1>7

LEMMA TakeAnswerKnows ==
    ASSUME QuietInv, TakeAnswer PROVE Follows' => Known'
<1>0. /\ Typing /\ Working /\ (Follows => Known) /\ worker.phase = "load"
  BY Zenon, QuietFacts DEF TakeAnswer
<1>1. PICK k \in DOMAIN worker.queue :
        LET rest == [worker EXCEPT !.queue = RemoveAt(@, k)] IN
        IF worker.closing
        THEN worker' = rest
        ELSE /\ worker' = [rest EXCEPT !.phase = "script"]
             /\ \/ UNCHANGED <<mainQueue, premature>>
                \/ premature' = (premature \/ worker.task # "message")
  BY Zenon DEF TakeAnswer
<1>2. proxy' = proxy
  BY Zenon DEF TakeAnswer
<1> SUFFICES ASSUME Follows' PROVE Known'
  OBVIOUS
<1>3. CASE worker.closing
  <2>1. worker'.closing
    BY <1>0, <1>1, <1>3 DEF Typing
  <2> QED  BY <2>1 DEF Follows
<1>4. CASE ~worker.closing
  <2>1. worker'.phase = "script" /\ worker'.task = worker.task /\ worker'.closing = worker.closing
    BY <1>0, <1>1, <1>4 DEF Typing
  <2>2. CASE UNCHANGED <<mainQueue, premature>>
    BY <1>0, <1>2, <2>1, <2>2, KnownKept DEF Follows, Begins, PostsOther
  <2>3. CASE premature' = (premature \/ worker.task # "message")
    <3>1. worker'.task = "message"
      BY <2>1, <2>3 DEF Follows
    <3> QED  BY <2>1, <3>1 DEF Known, Begins
  <2> QED  BY <1>1, <1>4, <2>2, <2>3
<1> QED  BY <1>3, <1>4

\* A worker that is followed takes nothing but messages, and hears them.
LEMMA TakeTaskKnows ==
    ASSUME QuietInv, TakeTask PROVE Follows' => Known'
<1> DEFINE task == Head(worker.queue)
           w    == [worker EXCEPT !.queue = Tail(@)]
<1>0. /\ Typing /\ Shutdown /\ CloseMeansClosing /\ (Follows => Known)
      /\ worker.phase = "loop" /\ worker.queue # <<>> /\ worker.queue \in Seq(WorkerTask)
      /\ UNCHANGED <<proxy, premature>>
  BY QuietFacts DEF TakeTask
<1>1. /\ w.closing = worker.closing /\ w.terminated = worker.terminated
      /\ DOMAIN w = {"phase", "task", "active", "closing", "terminated", "queue", "killed"}
  BY <1>0 DEF Typing
<1>2. /\ \A kind \in {"start", "finish"} : task.kind = kind => worker.terminated
      /\ task.kind = "close" => worker.closing
  <2>1. \A kind \in {"start", "finish", "close"} : task.kind = kind => 1 \in Places(worker.queue, kind)
    BY <1>0, PlacesAfterTail
  <2> QED  BY <1>0, <2>1 DEF Shutdown, ShutdownTasks, CloseMeansClosing, Typing
<1> HIDE DEF w, task
<1> SUFFICES ASSUME Follows' PROVE Known'
  OBVIOUS
<1>3. worker'.closing = worker.closing
  <2>1. \/ worker' = w
        \/ worker' = [w EXCEPT !.phase = "script", !.task = "message"]
        \/ worker' = [w EXCEPT !.active = FALSE, !.queue = Append(@, Simple("finish"))]
        \/ worker' = [w EXCEPT !.killed = TRUE]
    BY DEF TakeTask, HearMessage, w
  <2> QED  BY <1>1, <2>1
<1>4. Follows
  BY <1>0, <1>3 DEF Follows
<1>5. ~worker.closing /\ ~worker.terminated
  BY <1>0, <1>4, FollowedLives DEF Follows
<1>6. HearMessage(w, task.id)
  BY <1>2, <1>5 DEF TakeTask, task, w
<1>7. worker' = [w EXCEPT !.phase = "script", !.task = "message"]
  BY <1>1, <1>5, <1>6 DEF HearMessage, Forbidden
<1>8. worker'.phase = "script" /\ worker'.task = "message"
  BY <1>1, <1>7
<1> QED  BY <1>8 DEF Known, Begins

(***************************************************************************)
(* A script's close() is the only one that posts the task of that name.    *)
(***************************************************************************)
LEMMA CloseKept ==
    ASSUME QuietInv, [Next]_vars PROVE CloseMeansClosing'
<1>0. /\ Typing /\ CloseMeansClosing /\ worker.queue \in Seq(WorkerTask)
      /\ proxy.early \in Seq(MessageTask)
  BY QuietFacts DEF Typing
<1>1. ASSUME worker.closing => worker'.closing,
             Places(worker'.queue, "close") # {} => Places(worker.queue, "close") # {}
      PROVE  CloseMeansClosing'
  BY <1>0, <1>1 DEF CloseMeansClosing
<1>2. ASSUME NEW t \in WorkerTask, t.kind # "close"
      PROVE  Places(Append(worker.queue, t), "close") = Places(worker.queue, "close")
  BY <1>0, <1>2, OtherAppended
<1>3. CASE PostMessage
  <2>1. posted' \in 1..MaxPosts
    BY <1>0, <1>3, BoundsAssumption DEF PostMessage, Typing
  <2>2. Message(posted') \in WorkerTask /\ Message(posted').kind # "close"
    BY <2>1, MessageTasks DEF MessageTask
  <2>3. \/ worker' = worker
        \/ worker' = [worker EXCEPT !.queue = Append(@, Message(posted'))]
    BY <1>3 DEF PostMessage
  <2>4. \/ worker' = worker
        \/ /\ worker'.queue = Append(worker.queue, Message(posted'))
           /\ worker'.closing = worker.closing
    BY <1>0, <2>3 DEF Typing
  <2> QED  BY <1>1, <1>2, <2>2, <2>4
<1>4. CASE Terminate \/ CollectWorker \/ PerformMainTask
  <2>1. worker' = worker \/ worker' = Stop(worker)
    BY <1>4
    DEF Terminate, TerminateWorkerContext, CollectWorker, PerformMainTask, ShowMessage,
        ReportException, ReportPendingActivity
  <2>2. /\ Stop(worker).closing = worker.closing
        /\ Stop(worker).queue \in {worker.queue, Append(worker.queue, Simple("start"))}
    BY <1>0 DEF Stop, Typing
  <2>3. Places(Stop(worker).queue, "close") = Places(worker.queue, "close")
    BY <1>2, <2>2, WorkerTasks
  <2> QED  BY <1>1, <2>1, <2>2, <2>3
<1>5. CASE NotifyFinished
  <2>1. \/ worker' = worker
        \/ /\ worker'.closing = worker.closing
           /\ worker'.queue \in {worker.queue, worker.queue \o proxy.early}
    <3>1. CASE UNCHANGED <<proxy, worker>>
      BY <3>1
    <3>2. CASE \E started \in Starts : WorkerThreadCreated(worker, started)
      BY <1>0, <3>2 DEF WorkerThreadCreated, Typing
    <3> QED  BY <1>5, <3>1, <3>2 DEF NotifyFinished
  <2>2. Places(worker.queue \o proxy.early, "close") = Places(worker.queue, "close")
    <3>1. proxy.early \in Seq(WorkerTask) /\ Places(proxy.early, "close") = {}
      BY <1>0, MessageTasks DEF Places
    <3> QED  BY <1>0, <3>1, PlacesAfterConcat
  <2> QED  BY <1>1, <2>1, <2>2
<1>6. CASE LoaderAnswers
  <2>1. worker' = worker \/ worker' = [worker EXCEPT !.queue = Append(@, Simple("answer"))]
    BY <1>6 DEF LoaderAnswers
  <2>2. \/ worker' = worker
        \/ /\ worker'.queue = Append(worker.queue, Simple("answer"))
           /\ worker'.closing = worker.closing
    BY <1>0, <2>1 DEF Typing
  <2> QED  BY <1>1, <1>2, <2>2, WorkerTasks
<1>7. CASE ScriptStep \/ ScriptEnds \/ ThreadStep \/ TimerFires
  <2>1. ThreadMoves
    BY <1>7, ScriptMoves, OtherThreadMoves, AnswerMoves, TaskMoves
    DEF ThreadStep, QuietInv, AccountInv
  <2>2. worker.closing => worker'.closing
    BY <2>1 DEF ThreadMoves, ThreadLives
  <2>3. CASE worker'.queue = worker.queue
    BY <1>1, <2>2, <2>3
  <2>4. CASE Removes
    <3>1. PICK k \in DOMAIN worker.queue : worker'.queue = RemoveAt(worker.queue, k)
      BY <2>4 DEF Removes
    <3>2. \A j \in DOMAIN RemoveAt(worker.queue, k) :
             \E i \in DOMAIN worker.queue : RemoveAt(worker.queue, k)[j] = worker.queue[i]
      BY <1>0, PlacesAfterRemove
    <3>3. Places(RemoveAt(worker.queue, k), "close") # {} => Places(worker.queue, "close") # {}
      BY <3>2 DEF Places
    <3> QED  BY <1>1, <2>2, <3>1, <3>3
  <2>5. CASE Skips \/ Hears
    <3>1. /\ worker.queue # <<>>
          /\ worker'.queue \in {Tail(worker.queue), Append(Tail(worker.queue), Simple("finish"))}
      BY <2>5 DEF Skips, Hears
    <3>2. /\ Tail(worker.queue) \in Seq(WorkerTask)
          /\ Places(Tail(worker.queue), "close") # {} => Places(worker.queue, "close") # {}
      BY <1>0, <3>1, PlacesAfterTail
    <3> DEFINE rest == Tail(worker.queue)
    <3>3. Places(Append(rest, Simple("finish")), "close") = Places(rest, "close")
      <4> HIDE DEF rest
      <4>1. rest \in Seq(WorkerTask)
        BY <3>2 DEF rest
      <4> QED  BY <4>1, WorkerTasks, OtherAppended
    <3> QED  BY <1>1, <2>2, <3>1, <3>2, <3>3
  <2>6. CASE Adds
    <3>1. worker'.closing
      BY <2>6 DEF Adds
    <3> QED  BY <3>1 DEF CloseMeansClosing
  <2> QED  BY <2>1, <2>3, <2>4, <2>5, <2>6 DEF ThreadMoves, QueueStep, Keeps
<1>8. CASE UNCHANGED vars
  BY <1>1, <1>8 DEF vars
<1> QED
  BY <1>3, <1>4, <1>5, <1>6, <1>7, <1>8 DEF Next, PageStep

LEMMA QuietInit == Init => QuietInv
<1> SUFFICES ASSUME Init PROVE QuietInv
  OBVIOUS
<1>1. Places(worker.queue, "close") = {} /\ ~Follows
  BY DEF Init, Places, Follows
<1> QED  BY <1>1, AccountInit DEF QuietInv, CloseMeansClosing

LEMMA QuietNext == QuietInv /\ [Next]_vars => QuietInv'
<1> SUFFICES ASSUME QuietInv, [Next]_vars PROVE QuietInv'
  OBVIOUS
<1>1. AccountInv'
  BY AccountNext DEF QuietInv
<1>2. Follows' => Known'
  <2>1. CASE UNCHANGED vars
    BY <2>1, KnownKept DEF vars, PostsOther, Follows, Begins
  <2> QED
    BY <2>1, PageKnows, MainTaskKnows, ScriptKnows, ScriptEndKnows, TakeAnswerKnows, TakeTaskKnows
    DEF Next, ThreadStep
<1> QED  BY <1>1, <1>2, CloseKept DEF QuietInv

LEMMA QuietFollows == QuietInv => QuietWhenCollectable
<1> SUFFICES ASSUME QuietInv, Follows, ~HasPendingActivity
             PROVE  /\ worker.phase = "loop" /\ ~worker.active /\ worker.queue = <<>>
                    /\ CountKind(mainQueue, "message") = 0
  BY DEF QuietWhenCollectable, Follows
<1>0. /\ AccountInv /\ Known /\ CloseMeansClosing /\ Typing /\ ProxyInv /\ Shutdown
      /\ worker.queue \in Seq(WorkerTask) /\ mainQueue \in Seq(MainTask)
  BY QuietFacts
\* Nothing is owed.
<1>1. proxy.unconfirmed = 0 /\ ~proxy.hadPending
  BY <1>0, AccountFacts DEF HasPendingActivity, Follows
<1>2. Count(worker.queue, Mail) = 0 /\ worker.task # "message" /\ Count(mainQueue, Receipts) = 0
  <2>1. /\ Count(worker.queue, Mail) \in Nat /\ Count(mainQueue, Receipts) \in Nat /\ Handled \in Nat
        /\ 0 >= Owed
    BY <1>0, <1>1, AccountFacts DEF Covers, Follows
  <2>2. Handled = 0 /\ Count(worker.queue, Mail) = 0 /\ Count(mainQueue, Receipts) = 0
    BY <2>1 DEF Owed
  <2> QED  BY <2>2 DEF Handled
<1>3. At(worker.queue, Mail) = {} /\ At(mainQueue, Receipts) = {}
  BY <1>0, <1>2, CountType
\* So no report is under way, and the last one said that nothing is active.
<1>4. \A i \in Reports(mainQueue) : ~mainQueue[i].confirming
  BY <1>0, <1>3 DEF At, Receipts, Reports, Places
<1>5. Reports(mainQueue) = {}
  BY <1>0, <1>1, <1>2, <1>4 DEF Known, Settled
<1>6. ~PendingAfter(mainQueue, proxy.hadPending)
  BY <1>1, <1>5 DEF PendingAfter
<1>7. worker.phase = "loop" /\ ~worker.active
  BY <1>0, <1>2, <1>6 DEF Known
<1>8. Messages(mainQueue) = {}
  BY <1>0, <1>5, <1>6, <1>7 DEF Known, Followed
<1>9. CountKind(mainQueue, "message") = 0
  <2>1. {i \in DOMAIN mainQueue : mainQueue[i].kind = "message"} = {}
    BY <1>8 DEF Messages, Places
  <2> QED  BY <2>1, FS_EmptySet DEF CountKind
<1>10. worker.queue = <<>>
  <2>1. ASSUME NEW i \in DOMAIN worker.queue PROVE FALSE
    <3>1. worker.queue[i] \in WorkerTask
      BY <1>0
    <3>2. worker.queue[i].kind # "message"
      BY <1>3, <3>1 DEF At, Mail
    <3>3. worker.queue[i].kind # "close"
      BY <1>0 DEF CloseMeansClosing, Places, Follows
    <3>4. worker.queue[i].kind \notin {"start", "finish"}
      BY <1>0, <1>7, FollowedLives DEF Shutdown, ShutdownTasks, Places
    <3>5. worker.queue[i].kind # "answer"
      BY <1>0, <1>7 DEF ProxyInv, OneLoad, Answered, Places
    <3> QED  BY <3>1, <3>2, <3>3, <3>4, <3>5 DEF WorkerTask, Message, Simple
  <2>2. Len(worker.queue) \in Nat /\ DOMAIN worker.queue = 1..Len(worker.queue)
    BY <1>0
  <2>3. Len(worker.queue) = 0
    <3>1. 1 \notin 1..Len(worker.queue)
      BY <2>1, <2>2
    <3> QED  BY <2>2, <3>1
  <2> QED  BY <1>0, <2>3, EmptySeq
<1> QED  BY <1>7, <1>9, <1>10

(***************************************************************************)
(* A Worker object that may be collected has a script that could not do    *)
(* anything more: nothing runs or will fire, and no message is on its way  *)
(* in either direction (hasPendingActivity, reportPendingActivity), as     *)
(* long as importScripts did not report in the middle of a script.         *)
(***************************************************************************)
THEOREM CollectableIsQuiet == Spec => []QuietWhenCollectable
BY QuietInit, QuietNext, QuietFollows, PTL DEF Spec
=============================================================================
