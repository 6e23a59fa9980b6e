------------------------------- MODULE Workers -------------------------------
(***************************************************************************)
(* A dedicated worker: the Worker object of a page, the thread that runs   *)
(* the worker's script, and the WorkerMessagingProxy between them, which   *)
(* outlives whichever of the two goes first                                *)
(* (WebCore/workers, WebCore/loader/WorkerThreadableLoader.cpp).           *)
(*                                                                         *)
(* The two threads share two queues. The proxy belongs to the page's       *)
(* thread; the worker's thread only posts tasks for it to mainQueue        *)
(* (Document::postTask, callOnMainThread). The page posts tasks to         *)
(* worker.queue, a MessageQueue that can be killed.                        *)
(***************************************************************************)
EXTENDS Naturals, Sequences, SequencesExt, FiniteSets

CONSTANTS
    MaxPosts,       \* bound: messages that the page posts
    MaxReplies,     \* bound: messages that the worker's script posts, and its exceptions
    MaxLoads,       \* bound: synchronous loads of the worker's script
    Starts          \* what createThread may answer: a subset of BOOLEAN

ASSUME BoundsAssumption ==
    /\ MaxPosts \in Nat /\ MaxReplies \in Nat /\ MaxLoads \in Nat
    /\ Starts \in (SUBSET BOOLEAN) \ {{}}

VARIABLES
    proxy,      \* WorkerMessagingProxy, and whether the Worker object exists
    source,     \* the Worker's m_scriptLoader: "loading", "loaded" or "failed"
    worker,     \* WorkerThread, its run loop and its WorkerContext
    mainQueue,  \* tasks for the proxy's thread
    loader,     \* a synchronous load of the script runs on the main thread
    loads,      \* how many of them there were
    posted,     \* history: messages posted by the page
    heard,      \* history: those that the worker's script got
    said,       \* history: messages posted by the worker's script
    shown,      \* history: those that the Worker object got
    thrown,     \* how many exceptions the script threw
    premature   \* history: importScripts reported in the middle of a script

history == <<posted, heard, said, shown, thrown>>
vars == <<proxy, source, worker, mainQueue, loader, loads, history, premature>>

Phases == {"none", "failed", "created", "script", "load", "loop", "ended"}

\* Tasks of the two queues.
Message(n) == [kind |-> "message", id |-> n]
Simple(kind) == [kind |-> kind]
Report(confirming, pending) == [kind |-> "report", confirming |-> confirming, pending |-> pending]

WorkerTask == {Message(n) : n \in 1..MaxPosts}
    \cup {Simple(k) : k \in {"close", "start", "finish", "answer"}}
MainTask == {Message(n) : n \in 1..MaxReplies}
    \cup {Simple(k) : k \in {"exception", "terminate", "destroyed", "load"}}
    \cup {Report(c, p) : c \in BOOLEAN, p \in BOOLEAN}

\* Mutant: the shutdown task is not a cleanup task.
ShutdownIsSkipped(task) == task.kind \in {"close", "finish"}

\* isCleanupTask(): performed even when the context is closing.
IsCleanupTask(task) == task.kind \in {"close", "start", "finish"}

CountKind(queue, kind) == Cardinality({i \in DOMAIN queue : queue[i].kind = kind})

Init ==
    /\ proxy = [object |-> TRUE, thread |-> FALSE, asked |-> FALSE, deleted |-> FALSE,
                unconfirmed |-> 0, hadPending |-> FALSE, early |-> <<>>]
    /\ source = "loading"
    /\ worker = [phase |-> "none", task |-> "none", active |-> FALSE, closing |-> FALSE,
                 terminated |-> FALSE, queue |-> <<>>, killed |-> FALSE]
    /\ mainQueue = <<>>
    /\ loader = FALSE
    /\ loads = 0
    /\ posted = 0 /\ heard = <<>> /\ said = 0 /\ shown = <<>> /\ thrown = 0
    /\ premature = FALSE

-----------------------------------------------------------------------------
(* The proxy, on the page's thread.                                        *)

\* Mutant: messages under way do not count.
OnlyReportedActivity == proxy.hadPending /\ ~proxy.asked

HasPendingActivity ==
    /\ proxy.unconfirmed > 0 \/ proxy.hadPending
    /\ ~proxy.asked

HasContext(w) == w.phase \in {"script", "load", "loop"}

\* Mutant: a thread that has not made its context is not stopped.
StopLater(w) ==
    IF HasContext(w)
    THEN [w EXCEPT !.terminated = TRUE, !.queue = Append(@, Simple("start"))]
    ELSE w

\* WorkerThread::stop(), under m_threadCreationMutex. Without a context there is
\* nothing to shut down: the run loop is terminated before it starts.
Stop(w) ==
    IF HasContext(w)
    THEN [w EXCEPT !.terminated = TRUE, !.queue = Append(@, Simple("start"))]
    ELSE [w EXCEPT !.killed = TRUE]

\* terminateWorkerContext()
TerminateWorkerContext ==
    /\ proxy' = [proxy EXCEPT !.asked = TRUE]
    /\ worker' = IF ~proxy.asked /\ proxy.thread THEN Stop(worker) ELSE worker

\* Mutant: the Worker object is forgotten.
DeletedWithContext(p) == [p EXCEPT !.asked = TRUE, !.thread = FALSE, !.deleted = TRUE]

\* workerContextDestroyedInternal(), with the object there or not.
WorkerContextDestroyed(p) ==
    [p EXCEPT !.asked = TRUE, !.thread = FALSE, !.deleted = ~p.object]

\* Worker::postMessage, postMessageToWorkerContext()
PostMessage ==
    /\ proxy.object
    /\ ~proxy.asked
    /\ posted < MaxPosts
    /\ posted' = posted + 1
    /\ IF proxy.thread
       THEN /\ proxy' = [proxy EXCEPT !.unconfirmed = @ + 1]
            /\ worker' = [worker EXCEPT !.queue = Append(@, Message(posted'))]
       ELSE /\ proxy' = [proxy EXCEPT !.early = Append(@, Message(posted'))]
            /\ UNCHANGED worker
    /\ UNCHANGED <<source, mainQueue, loader, loads, heard, said, shown, thrown, premature>>

\* Worker::terminate(), or Worker::stop() when its document goes.
Terminate ==
    /\ proxy.object
    /\ TerminateWorkerContext
    /\ UNCHANGED <<source, mainQueue, loader, loads, history, premature>>

\* Mutant: the early messages are not counted.
AdoptUncounted(p) == [p EXCEPT !.thread = TRUE, !.hadPending = TRUE, !.early = <<>>]

\* The early messages are unconfirmed from now on; to initialize is an activity.
AdoptEarlyTasks(p) ==
    [p EXCEPT !.thread = TRUE, !.hadPending = TRUE,
              !.unconfirmed = Len(p.early), !.early = <<>>]

\* workerThreadCreated(), then the answer of createThread.
WorkerThreadCreated(w, started) ==
    LET first == [w EXCEPT !.phase = IF started THEN "created" ELSE "failed"] IN
    IF proxy.asked
    THEN /\ proxy' = [proxy EXCEPT !.thread = TRUE]
         /\ worker' = [first EXCEPT !.killed = TRUE]
    ELSE /\ proxy' = AdoptEarlyTasks(proxy)
         /\ worker' = [first EXCEPT !.queue = @ \o proxy.early]

\* Worker::notifyFinished(): without the script there will be no thread.
NotifyFinished ==
    /\ source = "loading"
    /\ \/ source' = "failed" /\ UNCHANGED <<proxy, worker>>
       \/ /\ source' = "loaded"
          /\ \E started \in Starts : WorkerThreadCreated(worker, started)
    /\ UNCHANGED <<mainQueue, loader, loads, history, premature>>

\* ~Worker, workerObjectDestroyed(). The collector spares the object while it has
\* pending activity, and while its script is being loaded.
CollectWorker ==
    /\ proxy.object
    /\ source # "loading"
    /\ ~HasPendingActivity
    /\ IF proxy.thread
       THEN /\ proxy' = [proxy EXCEPT !.object = FALSE, !.asked = TRUE]
            /\ worker' = IF proxy.asked THEN worker ELSE Stop(worker)
       ELSE /\ proxy' = WorkerContextDestroyed([proxy EXCEPT !.object = FALSE])
            /\ UNCHANGED worker
    /\ UNCHANGED <<source, mainQueue, loader, loads, history, premature>>

\* Mutant: messages are shown after terminate().
ShowAlways(n) ==
    /\ shown' = IF proxy.object THEN Append(shown, n) ELSE shown
    /\ UNCHANGED <<proxy, worker, loader>>

\* MessageWorkerTask
ShowMessage(n) ==
    /\ shown' = IF proxy.object /\ ~proxy.asked THEN Append(shown, n) ELSE shown
    /\ UNCHANGED <<proxy, worker, loader>>

\* WorkerExceptionTask: the Worker object, if there is one, hears of it.
ReportException == UNCHANGED <<proxy, worker, loader, shown>>

\* Mutant: every report is taken for a confirmation.
ConfirmAlways(confirming, pending) ==
    /\ proxy' = [proxy EXCEPT !.hadPending = pending,
                              !.unconfirmed = IF proxy.asked THEN @ ELSE @ - 1]
    /\ UNCHANGED <<worker, loader, shown>>

\* reportPendingActivityInternal()
ReportPendingActivity(confirming, pending) ==
    /\ proxy' = [proxy EXCEPT !.hadPending = pending,
                              !.unconfirmed = IF confirming /\ ~proxy.asked THEN @ - 1 ELSE @]
    /\ UNCHANGED <<worker, loader, shown>>

\* The main thread performs the next task for the proxy.
PerformMainTask ==
    /\ mainQueue # <<>>
    /\ mainQueue' = Tail(mainQueue)
    /\ LET task == Head(mainQueue) IN
       \/ task.kind = "message" /\ ShowMessage(task.id)
       \/ task.kind = "exception" /\ ReportException
       \/ task.kind = "report" /\ ReportPendingActivity(task.confirming, task.pending)
       \/ /\ task.kind = "terminate"
          /\ TerminateWorkerContext
          /\ UNCHANGED <<loader, shown>>
       \/ /\ task.kind = "destroyed"
          /\ proxy' = WorkerContextDestroyed(proxy)
          /\ UNCHANGED <<worker, loader, shown>>
       \/ /\ task.kind = "load"             \* mainThreadCreateLoader
          /\ loader' = TRUE
          /\ UNCHANGED <<proxy, worker, shown>>
    /\ UNCHANGED <<source, loads, posted, heard, said, thrown, premature>>

\* The load of the worker's script ends (MainThreadBridge::didFinishLoading or
\* didFail). postTaskForModeToWorkerContext() drops the answer when the worker was
\* asked to terminate.
LoaderAnswers ==
    /\ loader
    /\ loader' = FALSE
    /\ worker' = IF proxy.asked THEN worker
                 ELSE [worker EXCEPT !.queue = Append(@, Simple("answer"))]
    /\ UNCHANGED <<proxy, source, mainQueue, loads, history, premature>>

-----------------------------------------------------------------------------
(* The worker's thread.                                                    *)

Forbidden(w) == w.closing \/ w.terminated

\* workerThread(): the context, then the script, unless the thread was stopped
\* before; then the first report of runEventLoop().
CreateContext ==
    /\ worker.phase = "created"
    /\ \/ /\ worker.killed
          /\ worker' = [worker EXCEPT !.phase = "loop", !.terminated = TRUE]
          /\ mainQueue' = Append(mainQueue, Report(FALSE, FALSE))
       \/ /\ ~worker.killed
          /\ worker' = [worker EXCEPT !.phase = "script", !.task = "init"]
          /\ UNCHANGED mainQueue
    /\ UNCHANGED <<proxy, source, loader, loads, history, premature>>

\* postMessage() of the script
ScriptPosts ==
    /\ worker.phase = "script"
    /\ said + thrown < MaxReplies
    /\ said' = said + 1
    /\ mainQueue' = Append(mainQueue, Message(said'))
    /\ UNCHANGED <<proxy, source, worker, loader, loads, posted, heard, shown, thrown, premature>>

\* reportException()
ScriptThrows ==
    /\ worker.phase = "script"
    /\ said + thrown < MaxReplies
    /\ thrown' = thrown + 1
    /\ mainQueue' = Append(mainQueue, Simple("exception"))
    /\ UNCHANGED <<proxy, source, worker, loader, loads, posted, heard, said, shown, premature>>

\* close(): this script may finish, no other will run.
ScriptCloses ==
    /\ worker.phase = "script"
    /\ ~worker.closing
    /\ worker' = [worker EXCEPT !.closing = TRUE, !.queue = Append(@, Simple("close"))]
    /\ UNCHANGED <<proxy, source, mainQueue, loader, loads, history, premature>>

\* The script starts a timer or another active object, or stops the last one.
ScriptChangesActivity ==
    /\ worker.phase = "script"
    /\ worker' = [worker EXCEPT !.active = ~@]
    /\ UNCHANGED <<proxy, source, mainQueue, loader, loads, history, premature>>

\* loadResourceSynchronously(), for importScripts or XMLHttpRequest: the run loop
\* runs in a mode of its own.
ScriptLoads ==
    /\ worker.phase = "script"
    /\ loads < MaxLoads
    /\ loads' = loads + 1
    /\ worker' = [worker EXCEPT !.phase = "load"]
    /\ mainQueue' = Append(mainQueue, Simple("load"))
    /\ UNCHANGED <<proxy, source, loader, history, premature>>

\* In that mode only the tasks of the load are taken; a closing context skips them.
TakeAnswer ==
    /\ worker.phase = "load"
    /\ \E i \in DOMAIN worker.queue :
        /\ worker.queue[i].kind = "answer"
        /\ LET rest == [worker EXCEPT !.queue = RemoveAt(@, i)] IN
           IF worker.closing
           THEN /\ worker' = rest
                /\ UNCHANGED <<mainQueue, premature>>
           ELSE /\ worker' = [rest EXCEPT !.phase = "script"]
                /\ \/ UNCHANGED <<mainQueue, premature>>          \* XMLHttpRequest
                   \/ /\ mainQueue' = Append(mainQueue, Report(FALSE, worker.active))
                      /\ premature' = (premature \/ worker.task # "message")
    /\ UNCHANGED <<proxy, source, loader, loads, history>>

\* The script returns; what follows depends on why it ran.
ScriptEnds ==
    /\ worker.phase = "script"
    /\ worker' = [worker EXCEPT !.phase = "loop", !.task = "none"]
    /\ mainQueue' = CASE worker.task = "init"    -> Append(mainQueue, Report(FALSE, worker.active))
                      [] worker.task = "message" -> Append(mainQueue, Report(TRUE, worker.active))
                      [] OTHER                   -> mainQueue
    /\ UNCHANGED <<proxy, source, loader, loads, history, premature>>

\* Mutant: the listener is called when scripts are forbidden.
HearAlways(w, n) ==
    /\ worker' = [w EXCEPT !.phase = "script", !.task = "message"]
    /\ heard' = Append(heard, n)
    /\ UNCHANGED mainQueue

\* MessageWorkerContextTask: a listener hears of it if scripts may run.
HearMessage(w, n) ==
    IF Forbidden(w)
    THEN /\ worker' = w
         /\ mainQueue' = Append(mainQueue, Report(TRUE, w.active))
         /\ UNCHANGED heard
    ELSE /\ worker' = [w EXCEPT !.phase = "script", !.task = "message"]
         /\ heard' = Append(heard, n)
         /\ UNCHANGED mainQueue

\* runInMode() in the default mode: the next task, whatever its mode.
TakeTask ==
    /\ worker.phase = "loop"
    /\ ~worker.killed
    /\ worker.queue # <<>>
    /\ LET task == Head(worker.queue)
           w    == [worker EXCEPT !.queue = Tail(@)]
       IN
       \/ /\ worker.closing /\ ~IsCleanupTask(task)
          /\ worker' = w
          /\ UNCHANGED <<mainQueue, heard>>
       \/ /\ ~worker.closing /\ task.kind = "message"
          /\ HearMessage(w, task.id)
       \/ /\ task.kind = "close"
          /\ worker' = w
          /\ mainQueue' = Append(mainQueue, Simple("terminate"))
          /\ UNCHANGED heard
       \/ /\ task.kind = "start"            \* WorkerThreadShutdownStartTask
          /\ worker' = [w EXCEPT !.active = FALSE, !.queue = Append(@, Simple("finish"))]
          /\ UNCHANGED <<mainQueue, heard>>
       \/ /\ task.kind = "finish"           \* WorkerThreadShutdownFinishTask
          /\ worker' = [w EXCEPT !.killed = TRUE]
          /\ UNCHANGED <<mainQueue, heard>>
    /\ UNCHANGED <<proxy, source, loader, loads, posted, said, shown, thrown, premature>>

\* The wait times out: the timers of the worker fire.
TimerFires ==
    /\ worker.phase = "loop"
    /\ ~worker.killed
    /\ worker.queue = <<>>
    /\ worker.active
    /\ ~worker.closing
    /\ \E again \in BOOLEAN :
        worker' = [worker EXCEPT !.phase = "script", !.task = "timer", !.active = again]
    /\ UNCHANGED <<proxy, source, mainQueue, loader, loads, history, premature>>

\* The run loop was terminated; ~WorkerContext tells the proxy.
DestroyContext ==
    /\ worker.phase = "loop"
    /\ worker.killed
    /\ worker' = [worker EXCEPT !.phase = "ended", !.active = FALSE]
    /\ mainQueue' = Append(mainQueue, Simple("destroyed"))
    /\ UNCHANGED <<proxy, source, loader, loads, history, premature>>

-----------------------------------------------------------------------------

PageStep == PostMessage \/ Terminate \/ NotifyFinished \/ CollectWorker

ScriptStep == ScriptPosts \/ ScriptThrows \/ ScriptCloses \/ ScriptChangesActivity \/ ScriptLoads

ThreadStep == CreateContext \/ TakeAnswer \/ TakeTask \/ DestroyContext

Next ==
    \/ PageStep \/ PerformMainTask \/ LoaderAnswers
    \/ ScriptStep \/ ScriptEnds
    \/ ThreadStep \/ TimerFires

Spec == Init /\ [][Next]_vars

\* Both threads run and loads end. A script may run for ever, but not after
\* TerminateRunningScript. Nothing is assumed of the page, or of timers.
Fairness ==
    /\ WF_vars(PerformMainTask)
    /\ WF_vars(LoaderAnswers)
    /\ WF_vars(ThreadStep)
    /\ WF_vars(worker.terminated /\ ScriptEnds)

FairSpec == Spec /\ Fairness

-----------------------------------------------------------------------------
(* Properties.                                                             *)

\* The type of the state.
TypeOK ==
    /\ proxy \in [object : BOOLEAN, thread : BOOLEAN, asked : BOOLEAN, deleted : BOOLEAN,
                  unconfirmed : Nat, hadPending : BOOLEAN, early : Seq(WorkerTask)]
    /\ source \in {"loading", "loaded", "failed"}
    /\ worker \in [phase : Phases, task : {"none", "init", "message", "timer"},
                   active : BOOLEAN, closing : BOOLEAN, terminated : BOOLEAN,
                   queue : Seq(WorkerTask), killed : BOOLEAN]
    /\ mainQueue \in Seq(MainTask)
    /\ loader \in BOOLEAN
    /\ premature \in BOOLEAN
    /\ {posted, said, thrown, loads} \subseteq Nat
    /\ heard \in Seq(1..MaxPosts)
    /\ shown \in Seq(1..MaxReplies)

\* The proxy is deleted after everything that points to it: the Worker object, the
\* worker's thread, a load it started, and every task posted to the main thread
\* ("WorkerContextDestroyedTask is always the last to be performed").
ProxyOutlivesItsUsers ==
    proxy.deleted =>
        /\ ~proxy.object
        /\ worker.phase \in {"none", "ended"}
        /\ mainQueue = <<>>
        /\ ~loader

\* The unconfirmed count covers each message that was posted and whose confirmation
\* has not arrived, so the assertion in reportPendingActivityInternal() holds. A
\* script that closed itself leaves messages that nobody will confirm.
MessagesAccountedFor ==
    LET Confirmations == Cardinality({i \in DOMAIN mainQueue :
                            mainQueue[i].kind = "report" /\ mainQueue[i].confirming})
        Handled == IF worker.task = "message" THEN 1 ELSE 0
        Owed == CountKind(worker.queue, "message") + Handled + Confirmations
    IN  ~proxy.asked =>
            /\ proxy.unconfirmed >= Owed
            /\ ~worker.closing => proxy.unconfirmed = Owed

\* A Worker object that may be collected has a script that could not do anything
\* more: nothing runs, nothing will fire, no message is on its way in either
\* direction. Not so once importScripts reported from a script that was not started
\* by a message: that report ends the activity of a script that still runs.
QuietWhenCollectable ==
    proxy.thread /\ ~proxy.asked /\ ~HasPendingActivity /\ ~worker.closing /\ ~premature =>
        /\ worker.phase = "loop"
        /\ ~worker.active
        /\ worker.queue = <<>>
        /\ CountKind(mainQueue, "message") = 0

\* The script gets the page's messages in order, none lost, none twice, and none
\* after it was closed or terminated.
ToWorker == INSTANCE MessageChannel WITH
    sent     <- posted,
    received <- heard,
    open     <- /\ proxy.object /\ ~proxy.asked /\ ~worker.closing
                /\ source # "failed" /\ worker.phase # "failed"

ToWorkerIsChannel == ToWorker!Spec

\* The Worker object gets the script's messages in order, and none after terminate().
\* What the script says is shown unless the worker was asked to terminate.
ToPage == INSTANCE MessageChannel WITH
    sent     <- said,
    received <- shown,
    open     <- proxy.object /\ ~proxy.asked

ToPageIsChannel == ToPage!Spec /\ \A n \in 1..MaxReplies : ToPage!Delivery(n)

\* The script waits for a load whose answer will not be taken: it was dropped since
\* the worker was asked to terminate, or is skipped since the context is closing.
\* The tasks that shut the thread down wait for the default mode.
Stuck ==
    /\ worker.phase = "load"
    /\ worker.closing \/ (proxy.asked /\ CountKind(worker.queue, "answer") = 0)

\* A thread that was asked to terminate ends, whatever its script does and however
\* early it was asked, unless its script is stuck in a synchronous load.
AskedThreadsEnd ==
    (proxy.asked /\ worker.phase \in {"created", "script", "load", "loop"})
        ~> (worker.phase = "ended" \/ Stuck)

\* No leak: when the Worker object is gone, the proxy goes too, after its thread. A
\* thread that could not be created never tells the proxy.
ProxiesAreDeleted ==
    ~proxy.object ~> (proxy.deleted \/ Stuck \/ worker.phase = "failed")
=============================================================================
