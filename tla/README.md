# WinCEWebKit: a TLA+ model of loading, caching, workers and the event loop

`src/` is a port of WebKit (2010) to Windows CE. WebKit renders pages; what this
project models is the part of it that decides *when* something happens, *who*
keeps the result alive and *who is told*: the loads and the cache they fill, the
main thread's event loop, and the threads of workers.

Most of it is single-threaded C++ in which almost every function can call out to
clients, scripts or the embedder, which call back in. What goes wrong there is
re-entrancy: state that was checked before a call and used after it, objects
deleted by a callback, slots given back twice or never. Workers and other threads
meet the main thread only through queues of tasks; what goes wrong there is the
order in which two ends that may each go away hear of each other.

## The system

All paths are under `src/wincewebkit`.

| Part | State | Operations | Meets | Hard behaviour | What makes it correct |
|---|---|---|---|---|---|
| `WebCore/loader/ResourceLoadScheduler` | hosts, their priority queues and loading sets, suspend count, timer | schedule, remove, redirect, suspend, resume, serve | loaders (starts them), pages (`Page::isParsing` through limits), timers | starting a load runs clients, which schedule, cancel, attach, spin event loops | slots are owned, limits hold, priorities are respected, nothing is stranded |
| `ResourceLoader`, `SubresourceLoader` | `m_reachedTerminalState`, `m_cancelled`, `m_defersLoading`, client, request | start, redirect, finish, fail, cancel, defer | scheduler, `DocumentLoader`'s set, embedder, network | a client ends its load while the load is ending | a load ends once, gives its slot back |
| `WebCore/loader/cache` (`MemoryCache`, `CachedResource`, `CachedResourceLoader`) and `loader.cpp` (`Loader`, `Request`) | URL map, resources with clients, handles, preloads, request, revalidation links | request, revalidate, add and remove client, evict, prune, preload, cancel | documents, loaders, clients | hand-written lifetimes; a 304 swaps one object for another while clients react | nothing dangles, nothing leaks, the map names what is cached, clients learn the outcome |
| `FrameLoader`, `DocumentLoader`, `MainResourceLoader` | navigation and commit state | load, commit, stop, checkCompleted | all of the above | stop from inside any callback | a frame completes when its loads have |
| `WebCore/loader/cache`, sizes | live and dead sizes, LRU lists, list of live decoded resources | access, grow, decode, draw, evict, prune | the above; SVG images, whose documents use other resources | pruning evicts while it walks a list, and is re-entered | sizes are sums, lists exact, walks safe |
| `WebCore/workers`, `wtf/MessageQueue`, `loader/WorkerThreadableLoader` | proxy, thread, run loop, context | start, post, close, terminate, collect, load | two threads and two queues | both ends die in either order, at any moment | nothing used after its end, messages in order, pending activity exact |
| `wtf/MainThread` | function queue, pause | call, call and wait, cancel, dispatch | all threads, the window's messages | functions cancel functions, nested loops, blocking callers | FIFO, each called once or cancelled |
| `platform/ThreadTimers`, `Timer`, `wince*/SharedTimerWinCE` | heap of timers, one system timer | start, stop, fire | everything | timers change the heap while it fires, SetTimer fails | due order, nothing starves, the system timer stands for the first |
| `storage`, `loader/appcache`, `websockets`, `xml` | transactions, caches, connections | | database threads, loaders | locks; updates | not modelled |
| page cache, inspector, DOM, CSS, rendering, SVG, JavaScript engine, network backends, embedding APIs | | | | mostly sequential and data-heavy, or platform | not modelled |

`PROJECT.json` lists every part with its status, and as "hazards" the places in
the code that are hard to test.

## Modules

| Module | Models |
|---|---|
| `LoadSlots` | abstract: what the scheduler promises. A load waits, then may take one of its host's slots, then is over; limited hosts never admit above their limit. |
| `ResourceLoading` | `ResourceLoadScheduler` with the life of the loaders it queues. |
| `MCResourceLoading` | `ResourceLoading` for TLC. |
| `ResourceLoadingProofs` | theorems about `ResourceLoading`: types, slots, limits, and that it implements `LoadSlots`. |
| `ResourceLoadingOrder` | theorems about the calls under way: hosts in use stay, loads start in order of urgency and end once, no load that could be served is forgotten. |
| `MemoryCache`, `MCMemoryCache` | the life of cached resources: documents, clients, handles, `Loader`, revalidation. |
| `MemoryCacheProofs` | theorems about `MemoryCache`: types, no leaks. |
| `MemoryCacheReferences` | theorems: the map is exact, validators stay cached, nothing dangles, clients are told. |
| `CachePruning`, `MCCachePruning` | the books of the same cache: sizes, lists, the prune loops. |
| `CachePruningProofs` | theorems: all the properties of `CachePruning`, and that pruning ends. |
| `MessageChannel` | abstract: what each direction between a page and its worker promises. |
| `Workers`, `MCWorkers` | a dedicated worker: page, proxy, thread. |
| `WorkersProofs` | theorems: the proxy outlives its users; both directions implement `MessageChannel`. |
| `WorkersActivity` | theorems: types, unconfirmed messages are counted, what may be collected is quiet. |
| `EventLoop`, `MCEventLoop` | the main thread: queued functions, timers, nested loops, another thread. |
| `EventLoopProofs` | theorems: all the properties of `EventLoop`. |

`MemoryCache` and `CachePruning` are two views of the same class: the first has what
decides about lives and notifications and lets pruning evict any set it might evict;
the second has the arithmetic and the walks, and leaves URLs and notifications out.
`ResourceLoading` and `MemoryCache` meet at `Network` and `Refusals`: what a load may
report, and that it may be refused.

### How the models treat re-entrancy

In `ResourceLoading` and `MemoryCache` there is one thread. A function that calls out is split
where it does: the variable `stack` holds one frame for each function that is waiting for such a
call to return, with the locals it will still use (the host pointers that `servePendingRequests`
copied, the clients a `CachedResourceClientWalker` has left, the resource a request is about).
While the top frame says that the outside is in control, any operation that clients may call is
enabled, and may push frames of its own. When nothing is on the stack the event loop runs:
network reports and timers. `NestedEventLoop` (in `ResourceLoading`) lets a callback spin an
event loop of its own, as a modal dialog or `alert` does. Everything between two calls to the
outside is one action. `MaxCalls` bounds how deep the stack gets.

### ResourceLoading

Constants give the loaders, the hosts (one of them the host for what is not
HTTP), each host's limit, the urgency of loads, and what an embedder may do with
the first request (`InitialSend`): `"keep"` it, `"rewrite"` it to another host, or
make it `"null"`. In the WinCE ports `FrameLoaderClientWinCE::dispatchWillSendRequest`
is not implemented, so `{"keep"}` is this system's value; the others are for
WebCore's other clients.

State: `hostMap` is `m_hosts` (which hosts are on the map), `pending` and `loading`
their `m_requestsPending` and `m_requestsLoading`, `timer` the request timer; each
loader has a `phase` and the host of its URL. `admitted` is a history variable: the
loads that started under the limit. Actions follow the functions: `ScheduleLoad`,
`AddMainResourceLoad`, `Redirect`, `SuspendPendingRequests`,
`ResumePendingRequests`, `ServeStart`/`ServeReturn` (one round of
`servePendingRequests`), `TimerFires`, `SnapshotHosts`, `SweepHost`,
`SweepReturn` (the sweep over all hosts), and for loaders `Start`,
`SetDefersLoading`, `DidFinishLoading`, `DidFail`, `Cancel` with the steps their
functions take after a call (`EndReturnsEarly`, `LeaveDocumentLoader`,
`ReleaseResources`).

### MemoryCache

`mem` is a record of the heap: `map` is `m_resources`, and for each resource
whether it is alive, `m_inCache`, `m_loading`, an error status, what its response
says of caching, its clients, `m_request`, `m_resourceToRevalidate`,
`m_proxyResource`; for each document its handles (`m_documentResources`) and
`m_preloads`. `m_handleCount` and `m_preloadCount` are derived from those.
`CanDelete` is `canDelete()`. The operators `Evict`, `DeleteIfPossible`,
`SetHandle`, `EndRequest`, `ClearRevalidation` are the functions that take a
reason to live away and perhaps delete; they map a heap to a heap, so that an
action is written in the order in which the code calls them.

A resource that is created takes an object of `Resources` that was never used:
pointers to deleted objects stay recognisable. `told` and `stopped` are history
variables: which clients were notified, whose load was cancelled.

Abstractions: sizes and LRU lists are gone, so pruning evicts *any* set that it
might evict (everything pruning does to resources is covered, when it does it is
not). Whether a response has expired is a free choice. `CachePolicyCache` acts
like `CachePolicyVerify` with fewer revalidations, which that free choice covers.
The action `Network` stands for what a `SubresourceLoader` may report.

### CachePruning

`cache` is a record of the books: per resource the encoded and decoded size, the
access count, who uses it (`page` and `embeds` are clients, `handled`, `preloads`,
`loading`, `revalidates` the other reasons to live); `lists` and `live` are
`m_allResources` and `m_liveDecodedResources`; `pruning` is `m_inPruneDeadResources`.
The operators follow the functions of `MemoryCache` and `CachedResource` and map the
record to the next one, with `prune` saying that `removeClient` is going to call
`prune()`. `pruneDeadResources` evicts; evicting an SVG image may delete the document
in it, whose resources lose a client, which prunes the cache again. `stack` holds the
walks that wait for this: `EvictNext` evicts and descends, `Resume` goes on and notices
that the inner call reset the guard.

A loop of the code is a recursive function over its rounds (`walk` in `PruneLive`, `Flush`, `Sweep`
and `Deletions`) and one of its rounds an operator (`PruneOne`, `FlushOne`, `SweepOne`,
`DeleteNext`), for the sake of the proofs. `Deletions` bounds how often a destructor calls the
next one by the number of SVG images: each that is deleted leaves one resource, once.

Abstractions. Sizes are tiny and the overhead is 1. `recent` stands for a decoded
access less than a second ago. An object that was deleted may be created again. Images
and scripts are not distinguished. The document of an SVG image uses one resource,
and no SVG image in another that itself uses one. That resource is not a no-store response. WinCE
has no purgeable memory, so the pass over purged resources does nothing. `m_request`
goes with `m_loading`.

### Workers

`proxy` is `WorkerMessagingProxy` and whether its `Worker` object exists; `worker` the
thread: the phase it is in, what kind of script it runs, `m_closing`, whether
`TerminateRunningScript` forbids scripts, its queue and whether the queue was killed;
`mainQueue` the tasks posted to the page's thread, `loader` a synchronous load.
`NotifyFinished` is the end of the load of the worker's source with
`workerThreadCreated`; `PostMessage`, `Terminate`, `CollectWorker` what the page and the
collector do; `PerformMainTask` the tasks of the proxy. On the thread `CreateContext` is
`workerThread()` up to the script, `TakeTask` and `TakeAnswer` are `runInMode` in the
default mode and in that of a synchronous load, and a script posts, throws, closes,
loads and changes whether something of it is active until it ends.
`posted`, `heard`, `said`, `shown`, `thrown` are histories.

Abstractions. One dedicated worker; no shared workers, message ports, asynchronous
loads, databases or console. Activity is one bit. A thread may fail to start (`Starts`).

### EventLoop

`functions` is `functionQueue()`, `posts` the dispatch messages in the window's queue,
`timers` the heap, `ThreadTimers` and the shared timer, `stack` what runs. A function
or timer on the stack may call, cancel, start, stop and run nested loops; so may
handlers of other messages, when a loop is in control. `TakeDispatchMessage`,
`TakeTimerMessage` and `TakeUserMessage` are what the loop takes; `FunctionReturns` and
`TimerReturns` continue the loops of `dispatchFunctionsFromMainThread` and
`sharedTimerFiredInternal`, which stop after 50 ms: that is a free choice. Another
thread's `callOnMainThread` unlocks the queue before it posts (`CallFromThread`,
`PostFromThread`); `callOnMainThreadAndWait` keeps it locked until it waits
(`CallAndWait`, `WaitForSignal`).

Abstractions. The heap is the sequence of active timers by insertion order, and its
first the earliest, then the oldest: the algorithms of the heap are not modelled (`Without`, by
which timers and calls leave a sequence, is a recursive function, for the sake of the proofs).
WM_TIMER may come any time after SetTimer: it is cut to milliseconds, has a least
interval, a lowest priority and is periodic. `user` says that at least one WM_USER is
under way. Cancellation from other threads is left out. There are three kinds of nested
loops: those that let timers fire (`Chrome::runModal`), those that do not (an alert),
and the debugger's, which pauses functions.

## What the runs check

| Run (cfg) | Instance | Result |
|---|---|---|
| `scheduling_safety` (`ResourceLoadingSafety`) | three loaders, two hosts, nested event loops; 556 thousand states | `SlotOwnership`: a load is queued once or holds one slot, at the host of its URL. `LimitHonoured`. `NoLostWakeup`: if something could be served, something is going to serve. `EndsOnce`. `StartsInOrder`: no load starts before a more urgent one of its host. `ImplementsLoadSlots`. |
| `scheduling_embedder` (`ResourceLoadingEmbedder`) | two loaders, two hosts, requests rewritten and cleared, loads deferred; 347 thousand states | no host is dropped while it has requests, no function serves a host that is gone, limits hold. |
| `scheduling_liveness` (`ResourceLoadingLiveness`) | fairness, no deferral | every scheduled load starts or is cancelled; idle hosts are dropped or used again. |
| `redirect_assertion`, `cancel_assertion` | | violations: see Findings. |
| `cache_safety` (`MemoryCacheSafety`) | three resource objects, one URL, two documents, one client, loads stopped; 2.2 million states | all invariants of `MemoryCache`. |
| `cache_reload` (`MemoryCacheReload`) | preloads, reloads, no-store answers, cache emptied; 3.4 million states | nothing dangles or leaks, and clients are told. |
| `cache_refusals` (`MemoryCacheRefusals`) | refused loads, policy revalidate and back/forward; 1.4 million states | nothing leaks and the map is exact. |
| `validator_assertion` (`ValidatorAssertion`) | | violation: see Findings. |
| `cache_pruning` (`CachePruningBooks`) | three resources, one an SVG image, two settings of the capacities; 1.3 million states | `BooksAreExact`: sizes are the sums over the cache and every list holds what it should. `WalkIsSafe`: a walk only follows pointers to resources in the cache. `PruningSuffices`: when pruning is over, the dead fit or nothing of them could go. |
| `workers_both_ends` (`WorkersBothEnds`) | two messages each way, exceptions, one synchronous load, threads that may fail to start; 648 thousand states, with fairness | `ProxyOutlivesItsUsers`, `MessagesAccountedFor`, `QuietWhenCollectable`: what may be collected could not do anything more. `ToWorkerIsChannel`, `ToPageIsChannel`: both directions refine `MessageChannel`, and what the worker says arrives. `AskedThreadsEnd`, `ProxiesAreDeleted`. |
| `main_loop` (`MainLoop`) | two timers, one function, one other thread, three frames; 1.5 million states | `DispatchIsScheduled`, `SharedTimerIsSet`, `WaitersAreServed`: nothing that waits is forgotten. `NobodyStarves`: while a timer is due, another fires at most twice. |

Why the bounds are enough to be of interest. Three resources at one URL are a
cached resource, the one that revalidates it and one that replaces either; a
second URL adds only independent copies, since no operation relates two URLs
except through pruning. Two documents are needed for a load to be shared, and one
client is enough for a client to leave and join during a notification, because a
client that left may watch the next resource. For the scheduler, three loaders
are one that holds a slot, one that waits and one that a callback adds; two
nested calls let a callback of a callback change what the first is using.

For pruning, three resources are one to evict, one that the inner pruning may evict under the
outer walk, and one that stays; sizes of one to three (overhead, encoded, decoded) span the
classes of the LRU lists that access counts of one and two distinguish, and the second capacity
has a least and a greatest share of dead resources. For workers, two messages each way are one
that is handled and one that waits, one of them may be posted before there is a thread; one load
is enough since a second begins when the first is over. For the event loop, two timers compete,
one function calls itself and others' calls, and three frames are a nested loop within what runs
with something running in it.

`main_loop` and `cache_pruning` take the constant `Environments`: the product of everything
that may happen is too large, so a behaviour begins by choosing what may happen in it
(functions called and a debugger, or SetTimer failing; decoding with revalidations or with
SVG images that use others, ...). The set names which were combined.

All configurations say `CHECK_DEADLOCK FALSE`: a browser whose loads have all ended may rest,
and the clock of `main_loop` is bounded. Symmetry is used for resources, documents and clients,
none of which the specification distinguishes, and in no run that checks liveness.

What the bounds do *not* cover, and what does not hold:

- With refused loads `ClientsAreTold` fails: `CachedResource::load` sets
  `m_loading` after `Loader::load` returned, also when it was refused, so a
  failed resource stays in the cache as if it were loading. `NoDanglingPointers`
  fails too: the refused resource may be evicted by what `checkCompleted` runs,
  and is then deleted with its request before `load` sets `m_loading`. The run
  with refusals therefore checks the other two properties.
- Stopping loads from inside a notification (`Stops` with two levels of calls) can
  delete a resource whose function is still on the stack after an HTTP error; as
  far as the model goes this is a pointer to a deleted object that is not used
  again when no client is left. `cache_safety` therefore has one level of calls.
- With policy reload (or the cache emptied) while a revalidation is in flight
  `CacheMapExact` and `ValidatorIsCached` fail, which is the finding below.
- `QuietWhenCollectable` exempts workers whose `importScripts` reported in the middle of
  a script, and the two liveness properties of workers exempt threads that are `Stuck` and
  threads that could not be created: see "Seen on the way".
- `SlotOwnership` fails for embedders that clear or rewrite requests; with a nested
  event loop as well, so does `ServedHostsExist`.

### Fairness

Two runs assume it. `scheduling_liveness`: the functions on the stack go on and calls
return, the timer fires once started, loads in flight finish or fail, and
suspensions are resumed. It is strong where a nested call may disable the step for
a while. Those are the event loop, the network and the pairs of
`suspendPendingRequests` and `resumePendingRequests` in
`ContainerNode::suspendPostAttachCallbacks`. Nothing is assumed of clients. Loads
are not deferred in that run: a page may defer its loads for ever, and then a
deferred load keeps its slot for ever.

`workers_both_ends`: the main thread performs its tasks, loads end, the worker's thread
takes its tasks, all weakly fair. A script may run for ever, unless the worker was
terminated: `TerminateRunningScript` interrupts it. Nothing is assumed of the page, the
collector or timers.

No liveness is checked for the main loop. That functions get their turn depends on
timers with a delay of 0 not firing for ever (`NobodyStarves` says this of timers among
each other), and the size of the instance is out of TLC's reach with fairness; its
invariants say what has to be scheduled at every moment, and are proved.

## What is proved

The scheduler. `ResourceLoadingProofs` proves for every number of loaders and hosts, every
limit and every depth of calls:

- `TypeCorrect`: `Spec => []TypeOK`, for every embedder.
- `DroppedHostsStayIdle`: `Spec => []DroppedHostsAreIdle`, for every embedder.
- `LimitIsHonoured`: `Spec => []LimitHonoured`, for every embedder.
- `LoadsAreTracked`: if the embedder leaves requests alone, `Spec => []SlotOwnership`. One that
  rewrites a request moves the load to another host while it holds a slot of the first.

None of the last three is inductive as it stands. Serving a host, removing from it and dropping it all
look the host up on the map, and a step finds the load where the previous one left it only if a host
off the map is idle. For every embedder the inductive invariant is `QueueInv`: `TypeOK`, what waits
is queued once (`QueuedOnce`), what holds a slot has started (`SlotsStarted`: a load that was moved
leaves its slot behind, but one that waits has none), and `DroppedHostsAreIdle`. For an embedder that
leaves requests alone it is `SlotInv`: `TypeOK`, `SlotOwnership` and `DroppedHostsAreIdle`. The proofs
go action by action; `DequeuedElements`, `AppendElements` and `TailElements` say what the operations
on a queue do to the loads in it, and `RemoveQueues` and `RemoveEffect` what `RemoveFromHost` does to
the queues and, when slots are owned, to the slots. `LimitInv` adds to `QueueInv` that what was
admitted has started (`AdmittedStarted`): redirected loads and main resources take slots unchecked,
they count against later admissions and are not counted by the property, and a load that waits was
not admitted before.

The same module proves `SchedulerImplementsLoadSlots`: if the embedder leaves
requests alone, `Spec` implements `LoadSlots` under the mapping of `ResourceLoading`, by which a
load waits, is admitted, is over. Each action is a step of `LoadSlots` or leaves the mapped
variables alone. The invariant `RefinementInv` is `SlotInv` with `EndersBegan`: a load that a
function on the stack is going to end is not one that has yet to be scheduled;
`MappingReadsPhases` says that the mapped state is determined by phases and admissions, so that
actions that change neither stutter.

`ResourceLoadingOrder` is about the calls under way. It proves, if the embedder does not clear
requests, `ServedHostsStay` (`Spec => []ServedHostsExist`: the raw pointers that
`servePendingRequests` copied are not dangling) and `LoadsStartInOrder` (`Spec => StartsInOrder`).
The invariant `OrderInv` adds to `QueueInv` that a loop that serves a host is on top of the stack
whenever it is there, with a sweep at most right under it (`ServesOnTop`), that it has left nothing
behind at priorities above its own (`AboveServed`), and that no host is dropped that a frame will
still use (`HostsKept`). Then it takes a load of one priority only when the queues of the higher ones
are empty.

An embedder that clears a request makes the load fail inside the loop that starts it, and clients
run under the loop. `ServedHostsStayUnnested` proves `ServedHostsExist` for every embedder if no
client spins an event loop (`~NestedEventLoop`, the setting of `scheduling_embedder`): the timer then
finds no call under way, so a sweep is the first call of all (`SweepsLast`), and is on top when it
drops a host. With both, TLC finds a second sweep, run from a client's event loop, that drops a host
which the first still has ahead.

`LoadsEndOnce` (`Spec => []EndsOnce`) needs an embedder that does not clear requests too: one that
does makes a load fail from inside the call that starts it, and the load is then cancelled a second
time. `EndInv` says in which phase the load of each frame is that ends one (`EndPhases`), that what
the network reports is the first call of all, under every cancellation, and that once a load has left
its document loader no call above ends it again (`EndsNest`).

The same module proves `NoWakeupIsLost` (`Spec => []NoLostWakeup`), for an embedder that does
not clear requests. The property speaks of moments at which nothing runs; the invariant says for every
moment why a host at which a load waits below the limit is going to be served (`WillBeServed`): the
timer is set; an attach that suspended the scheduler is on the stack and will resume it
(`Attaching`); the host is being served, with nothing left behind at the priorities already passed
(`BeingServed`), or a sweep on the stack has it ahead (`InSweep`). Or a load in flight sets the
timer when it ends: one that took its slot unchecked, or one of the host without a name, which is
limited only while the document parses, so that its slots come free without a remove when parsing
ends. `ResumesLater` says that the scheduler is suspended only within an attach.

The memory cache. `MemoryCacheProofs` proves, for any resources, URLs, documents, clients and depth
of calls and with every policy, refusal, flush and stop, `CacheTypeCorrect` (`Spec => []TypeOK`) and
`NoResourceLeaks` (`Spec => []NothingLeaks`). Lifetimes are hand-written: whoever takes away the last
reason to live has to delete. One lemma for each operation that takes one away (`EvictEffect`,
`EndRequestEffect`, `SetHandleEffect`, `ClearRevalidationEffect`, ...) says that it leaves no resource
behind other than those it names, which the caller then deletes or gives a new reason (`NoLeak`);
`RequestStep`, `OutsideStep`, `NetworkStep` and `ReturnStep` put them together, action by action.
What the stack contributes is `Over`: the frame of a refused load lies over that of the request
that wanted the resource, so that the resource is handed on and not forgotten.

`MemoryCacheReferences` proves the other four invariants, each for the behaviours in which it holds;
the bounds above name what breaks it in the others.

- `MapIsExact` and `ValidatorStaysCached` (`Calm => (Spec => []CacheMapExact)`,
  `Calm => (Spec => []ValidatorIsCached)`), where `Calm` says that no frame reloads and the embedder does not empty
  the cache: both evict a resource that waits for the answer to a revalidation, and the late 304
  puts it back over whatever the map names by then. Neither property is inductive. `MapInv` says
  that a cached resource is what the map has for its URL (`Exact`), except that of a refused load,
  which pretends to be cached, has no other load and nobody who uses it (`Alone`, `Unnamed`); that
  a validator has the URL of what it validates, no answer yet, and is validated by nobody
  (`Chained`); and that it is cached until its request has ended (`Cached`; the frames that are
  ending a request are excepted).
- `NothingDangles` (`Tame => (Spec => []NoDanglingPointers)`), where `Tame` says that no load is
  refused and that code outside stops a document's loads only when no load calls it. The property
  is a statement about deletions. `SafeInv` says that a resource with a reason to live is alive
  (`Kept`), that the two ends of a revalidation name each other until clients are switched, and
  what is revalidated is not cached (`Linked`), that the functions of a load run over what may have
  asked for it and nothing else (`Shape`), and that a function of a load on the stack still has its
  request, which keeps the resource (`Busy`). Refusals break `Busy`, and so do stops from inside a
  notification.
- `EveryClientHears` (`~Refusals => (Spec => []ClientsAreTold)`), for every policy and with stops
  and flushes. The property speaks of moments without calls under way. `ToldInv` says for every
  moment why a client of a resource that is not loading will hear: it was told, or a function on
  the stack that tells clients, perhaps because a 304 handed them over, has it ahead (`Told`); that
  a resource that loads has a request, was stopped, or has nobody (`Settled`); and that a switch is
  always at the bottom of the stack (`Bottom`).

Workers. `WorkersProofs` proves `ProxyIsLast`: `Spec => []ProxyOutlivesItsUsers`, for any number
of messages and loads and whether threads start or not. By itself the property says nothing
before the proxy is deleted. `ProxyInv` adds that the last task of the queue is the one that the
end of the thread posts (`DestroyedIsLast`), that at most one load is under way, posted, running
or answered, and only while the script waits for it (`OneLoad`), and that a thread exists only
if the proxy knows of it until it hears of its end (`ThreadIsKnown`). `Typing` is what of the
types this needs.

The same module proves that messages are neither lost, doubled nor reordered:
`PageTalksInOrder` (`Spec => ToWorkerIsChannel`) and `ScriptTalksInOrder` (`Spec => ToPage!Spec`,
`ToPageIsChannel` without its liveness). The invariant `ChannelInv` adds to `ProxyInv` that, while a
direction is open, the messages under way in it are exactly those after the last that arrived, in
order (`ToWorkerInOrder`, `ToPageInOrder`, both `InOrder`; on the way to the worker they may wait in
two queues), and that a thread is shut down only once it was asked to terminate (`Shutdown`).
`OrderAfterMessage`, `OrderAfterMessageTaken` and `OrderAfterOtherRemoved` say what operations on a
queue do to this; `ClosedForGood` that a closed direction stays closed.

`WorkersActivity` proves, in the same generality, `TypeCorrect`, `MessagesAreCovered` (`Spec =>
[]MessagesAccountedFor`) and `CollectableIsQuiet` (`Spec => []QuietWhenCollectable`). The count of
unconfirmed messages is compared with a sum over both queues and the thread (`Owed`); `Count` and
its lemmas say how many elements of a kind a queue has after each operation. `AccountInv` is
`ChannelInv` with `Covers`, `Working` (a script runs exactly in the phases of one), `Fresh` (a
thread that does not exist has an empty queue) and `Records`; that the count covers what is owed is
also why it never goes below zero. For the collector, `QuietInv` adds that a script whose end is
queued is closing (`CloseMeansClosing`) and what the proxy knows as long as it follows the worker
(`Known`): its last report, or the last that is still under way, says that there is activity, or the
script handles a message, which counts, or the thread waits and nothing is active. A report under
way is confirming or followed by one that is, unless it is the first and the proxy still knows of
activity (`Settled`); a message of the script is followed by a report, unless activity is known
(`Followed`).

The event loop. `EventLoopProofs` proves the five properties of `EventLoop` for any number of timers,
delays, threads, functions and nested loops.

- `QueueIsDispatched` (`Spec => []DispatchIsScheduled`) is nearly inductive: `DispatchInv` adds that
  the number of posted messages is a number, and that the stack is a sequence, of whatever frames;
  `PushRuns` and `PopRuns` say that other frames come and go without hiding a function that runs.
- `TypeCorrect` (`Spec => []TypeOK`) includes that a timer is in the heap, once, exactly when it has
  a time. `Appended` and `WithoutProperties` say what the two operations on the heap do to its
  elements and to which precedes which (`Precedes`); `FirstIsLeast` that the first timer exists:
  there is an earliest, and of those one inserted first.
- `SharedTimerStaysSet` (`Spec => []SharedTimerIsSet`): `ShareInv` adds that firing means that a
  pass is on the stack, that the shared timer is set or a manual pass is under way, and that in the
  manual mode, which SetTimer's failure leaves behind, a message is posted or a manual pass under
  way. A pass that a nested loop began may end while the outer one has not: the outer one then ends
  too.
- `TimersDoNotStarve` (`Spec => []NobodyStarves`): with `t` due, `u` fires at most twice before it.
  `StarveInv` says where `u` is after each time. What fired twice since is behind `t` in the heap
  (`PassedDue`), because it was inserted again when `t` was there and is not due before it. What
  fired once is behind `t`, or not due in the pass under way, or `t` was due when that began, so
  that what fires in it is inserted again behind `t` (`PassedOnce`, which speaks of the innermost
  pass).
- `WaitersAreHeard` (`Spec => []WaitersAreServed`): `WaitInv` adds that a thread that has called and
  does not wait yet holds the queue's mutex, so that its call is still queued. Hence the signal
  finds it waiting, if it comes; and `cancelCallOnMainThread` removes only calls that nobody waits
  for.

The books of the cache. `CachePruningProofs` proves the four properties of `CachePruning` and two
more for any number of resources, SVG images among them, any sizes, access counts and capacities and
whatever may happen: `TypeCorrect` (`Spec => []TypeOK`), `BooksStayExact` (`Spec =>
[]BooksAreExact`), `SizesNeverWrap` (neither size goes below zero, which is unsigned in the code),
`WalksAreSafe` (`Spec => []WalkIsSafe`), `PruningAlwaysSuffices` (`Spec => PruningSuffices`) and
`PruningProgresses`. The invariant `Inv` has three parts.

- `Exact` is the books: a resource has been accessed exactly if it is alive, what is in the cache is
  alive, `InLists`, `InLive` and `Sized`. It is inductive only because a resource is found in its
  list by its size and access count of that moment, so the proof follows each operation through the
  states in which it is off its list (`Unlisted`, `Inserted`, `ResizedIs`) or its size is not yet in
  the sums (`Resized`, `Adjusted`, `Regrown`, `Entered`, `Gained`). `TotalChanges` says what one
  resource does to a sum over all, and `LogInQueues` that `fastLog2` names a list that exists.
- `Linked` is what revalidations need of the books: what is being validated is alive and not in the
  cache, and has one validator. Hence a 304 does not put a resource into the cache twice.
- `Stacked` is about the calls of `pruneDeadResources()` under way. Those below the top are back from
  an eviction. The one on top either is about to evict a resource that may go, such that nothing
  that may go is in a higher list or after it in its own, unless the dead fit already (`Chosen`,
  `Swept`); or an inner call has pruned, and then enough is gone (`Enough`) and, if the guard still
  says that pruning is under way, its next resource is in the cache.

`PruneLiveIs`, `FlushIs` and `SweepIs` say what the loops do, by induction over their rounds
(`Induction`, stated for sets of numbers): the first two only shrink resources in the cache
(`Shrunk`), which moves none up the lists, since the logarithm is monotonic (`LogIsMonotonic`,
`LowerQueue`); the third leaves nothing behind that may go (`NothingAbove`). `DeletionsAre` says the
same of destructors that call each other: the cache, the lists and what the walk has yet to see
are as before, unless a resource lost its last client, after which the cache is pruned.
`EvictedQuietly` is the argument by which an outer walk may go on: an eviction that did not prune
left its position in the list as it was. `PruneIs` and `AfterEvictIs` put these together (`Pruned`).

`PruningProgresses` is the safety part of termination: each step of pruning takes a resource out of
the cache (`Evicts`), or a call that is back ends or chooses again (`GoesOn`), and nothing enters
the cache meanwhile, so there are finitely many evictions and finitely many steps between two of
them. TLC agrees on the instance of `cache_pruning`.

Assumptions: the ASSUMEs of the modules on their constants (TLC evaluates them), and as hypotheses of
the theorems where said `InitialSend \subseteq {"keep"}`, `"null" \notin InitialSend`, `~NestedEventLoop`,
`Calm`, `Tame` and `~Refusals`. The clock of `EventLoop` starts at 1, so `MaxTime` is at least 1. No
theorem uses fairness.

Where recursion defines an operation on a sequence (`Without`) or a loop (`RoundsExist`), what it does
for every sequence or number of rounds is proved by taking the least index at which it would fail;
the least element of a set of naturals comes from their being well-founded (`LeastNumber`).

Only model-checked: all liveness properties (out of the prover's reach).

## Findings

1. `ResourceLoadScheduler.cpp:140` asserts that a redirected load's old host is
   known; an embedder that moved the first request makes it fail
   (`redirect_assertion`). The WinCE embedder does not.
2. `SubresourceLoader.cpp:223` says that a cancelled load can be terminal after
   `didFail` only if the run loop spins; a client that schedules an urgent load
   gets there without one (`cancel_assertion`).
3. `MemoryCache.cpp:233` asserts that a resource whose revalidation succeeded is
   still cached; another frame's reload evicts it (`validator_assertion`).

### Seen on the way

Noticed while the models were written; none of these is a run.

- `MemoryCache.cpp:249`: "this deletes the revalidating resource" is not true of the caller,
  whose `Request` keeps the resource alive until `Loader::didReceiveResponse` deletes it;
  `SwitchReturn` does that step.
- `DedicatedWorkerContext.cpp:74`: `importScripts` reports the pending activity of the context
  without that of the running script. While the worker initializes this ends the activity that
  `WorkerMessagingProxy.cpp:304` says initialization means, and the `Worker` object may be
  collected while its script runs (variable `premature`).
- `WorkerMessagingProxy.cpp:261`: the answer of a synchronous load is dropped when the worker was
  asked to terminate, and the tasks that would shut it down wait for the default mode; after
  `close()` the answer is skipped (`WorkerRunLoop.cpp:197`). The thread waits for ever (`Stuck`).
- `WorkerMessagingProxy.cpp:241` ignores whether the thread could be created: if not, the proxy
  leaks.
- `SharedTimerWinCE.cpp:65` assigns in its condition, `if (timerID = TimerIdManual)`, so that every
  WM_USER is followed by another; `:73` resets the collector's stack base when a nested timer
  message returns, so that the outer handler goes on without one.
- `CachedResource.cpp:237`: a resource with decoded data that regains a client does not return to
  the list of live decoded resources, so that pruning passes it by until it is decoded again.
- An inner pruning that moves the neighbour of the outer walk to another list shortens the outer
  walk; `PruningSuffices` holds all the same, since the inner one either resets the guard, which
  ends the outer one, or found that the dead resources fit.

## Not modelled

Frames and documents (policy, commit, `checkCompleted`) meet the models as calls to the outside;
their own state machines are spread over some ten thousand lines of callbacks to embedders.
Databases, the application cache and sockets are off in the WinCE build or small state machines
of their own. Network backends, embedding APIs and WebKit2 are platform code. Parsers, DOM, CSS,
rendering, SVG, editing and the JavaScript engine are the bulk of the repository; they transform
data sequentially and have no small state space: the share of all lines of `src/` that can be
modelled is small for that reason.

## Plan

Done: `LoadSlots`, `ResourceLoading`, `MemoryCache`, `CachePruning`, `MessageChannel`, `Workers`,
`EventLoop` with their runs; proofs of every safety property of `ResourceLoading`, `MemoryCache`,
`CachePruning`, `Workers` and `EventLoop` that a run checks, and of the refinements of `LoadSlots` and, but for its
liveness, `MessageChannel`.

Left, in this order:

1. `CacheMapExact` with refused loads and reloads: what holds in place of it once a late 304 overwrote
   the map.
2. A composition of `MemoryCache` with `ResourceLoading`, where refusals and the network's
   reports come from the loaders.
3. `FrameLoader::checkCompleted` and `DocumentLoader` as a module: a frame completes when its
   loads have.
