---------------------------- MODULE CachePruning ----------------------------
(***************************************************************************)
(* The books of MemoryCache and how it prunes                              *)
(* (WebCore/loader/cache/MemoryCache.cpp, CachedResource.cpp): the sizes   *)
(* of live and dead resources, the LRU lists, the list of live resources   *)
(* with decoded data.  What the other modules say of resources (URLs,      *)
(* loads, notifications) is left out here.                                 *)
(*                                                                         *)
(* Pruning evicts; an SVG image that is evicted may be deleted, takes the  *)
(* document in it along, and the resources of that document lose a client, *)
(* which prunes the cache.  Each pruneDeadResources() under way is a frame *)
(* of the stack, the innermost first.                                      *)
(***************************************************************************)
EXTENDS Integers, Sequences, SequencesExt, FiniteSets

CONSTANTS
    Resources,      \* CachedResource objects; a deleted one may be created again
    SVGs,           \* those that are SVG images; they have no decoded data
    None,
    Capacities,     \* what the embedder may set: [min, max, total]
    MaxEncoded,     \* bound: encoded size
    MaxDecoded,     \* bound: decoded size
    MaxAccess,      \* bound: access count
    Environments    \* what may happen in a behaviour

ASSUME ConstantsAssumption ==
    /\ IsFiniteSet(Resources) /\ SVGs \subseteq Resources /\ None \notin Resources
    /\ Capacities # {}
    /\ \A c \in Capacities : /\ {c.min, c.max, c.total} \subseteq Nat
                             /\ c.min <= c.max /\ c.max <= c.total
    /\ {MaxEncoded, MaxDecoded} \subseteq Nat /\ MaxAccess \in Nat \ {0}
    /\ Environments \subseteq SUBSET {"again", "decode", "embed", "preload", "revalidate", "settings"}

VARIABLES
    environment, \* one of Environments
    cache,  \* the cache and its resources
    stack   \* the calls of pruneDeadResources() under way

vars == <<environment, cache, stack>>

\* overheadSize()
Overhead == 1

\* fastLog2(): the logarithm, rounded up. It halves where the code shifts.
MaxSize == Overhead + MaxEncoded + MaxDecoded
FastLog2[i \in 0..MaxSize] == IF i <= 1 THEN 0 ELSE 1 + FastLog2[(i + 1) \div 2]

Queues == 0..FastLog2[MaxSize]

Cache == [
    alive    : SUBSET Resources,
    inCache  : SUBSET Resources,
    encoded  : [Resources -> 0..MaxEncoded],
    decoded  : [Resources -> 0..MaxDecoded],
    access   : [Resources -> 0..MaxAccess],
    loading  : SUBSET Resources,                    \* m_loading, and m_request
    handled  : SUBSET Resources,                    \* a document has a handle
    preloads : SUBSET Resources,
    page     : SUBSET Resources,                    \* a page is a client
    embeds   : [SVGs -> Resources \cup {None}],     \* whose client the SVG's document is
    revalidates : [Resources -> Resources \cup {None}],
    lists    : [Queues -> Seq(Resources)],          \* m_allResources, heads first
    live     : Seq(Resources),                      \* m_liveDecodedResources
    recent   : SUBSET Resources,                    \* drawn less than a second ago
    liveSize : Int,
    deadSize : Int,
    pruning  : BOOLEAN,                             \* m_inPruneDeadResources
    capacity : Capacities]

\* What the constructor sets.
DefaultCapacities == {c \in Capacities : c.min = 0 /\ c.max = c.total}

Init ==
    /\ environment \in Environments
    /\ \E capacity \in DefaultCapacities : cache =
               [alive |-> {}, inCache |-> {},
                encoded |-> [r \in Resources |-> 0], decoded |-> [r \in Resources |-> 0],
                access |-> [r \in Resources |-> 0],
                loading |-> {}, handled |-> {}, preloads |-> {}, page |-> {},
                embeds |-> [s \in SVGs |-> None],
                revalidates |-> [r \in Resources |-> None],
                lists |-> [q \in Queues |-> <<>>], live |-> <<>>, recent |-> {},
                liveSize |-> 0, deadSize |-> 0, pruning |-> FALSE,
                capacity |-> capacity]
    /\ stack = <<>>

-----------------------------------------------------------------------------
(* CachedResource.                                                         *)

Size(c, r) == Overhead + c.encoded[r] + c.decoded[r]

HasClients(c, r) == r \in c.page \/ \E s \in SVGs : c.embeds[s] = r

IsProxied(c, r) == \E n \in Resources : c.revalidates[n] = r

CanDelete(c, r) ==
    /\ ~HasClients(c, r)
    /\ r \notin c.loading \cup c.preloads \cup c.handled
    /\ c.revalidates[r] = None
    /\ ~IsProxied(c, r)

\* The resource's memory is free.
Erase(c, r) ==
    [c EXCEPT !.alive = @ \ {r}, !.recent = @ \ {r},
              !.encoded[r] = 0, !.decoded[r] = 0, !.access[r] = 0]

-----------------------------------------------------------------------------
(* The books.                                                              *)

\* lruListFor()
QueueOf(c, r) == FastLog2[Size(c, r) \div (IF c.access[r] = 0 THEN 1 ELSE c.access[r])]

InsertInLRUList(c, r) == [c EXCEPT !.lists[QueueOf(c, r)] = <<r>> \o @]

\* Finds the list by the size and access count of now.
RemoveFromLRUList(c, r) ==
    IF c.access[r] = 0 THEN c ELSE [c EXCEPT !.lists[QueueOf(c, r)] = RemoveFirst(@, r)]

RemoveFromLive(c, r) == [c EXCEPT !.live = RemoveFirst(@, r)]

AdjustSize(c, live, delta) ==
    IF live THEN [c EXCEPT !.liveSize = @ + delta] ELSE [c EXCEPT !.deadSize = @ + delta]

\* addToLiveResourcesSize() with k = 1, removeFromLiveResourcesSize() with k = -1
MoveSize(c, r, k) ==
    [c EXCEPT !.liveSize = @ + k * Size(c, r), !.deadSize = @ - k * Size(c, r)]

ResourceAccessed(c, r) ==
    LET removed  == RemoveFromLRUList(c, r)
        adjusted == IF c.access[r] = 0 THEN AdjustSize(removed, HasClients(c, r), Size(c, r)) ELSE removed
    IN  InsertInLRUList([adjusted EXCEPT !.access[r] = @ + 1], r)

\* Mutant: the resource leaves its list after its size has changed.
ResizeTooEarly(c, r, encoded, decoded) ==
    InsertInLRUList(RemoveFromLRUList([c EXCEPT !.encoded[r] = encoded, !.decoded[r] = decoded], r), r)

\* A resource in the cache that changes its size changes lists.
Resize(c, r, encoded, decoded) ==
    InsertInLRUList([RemoveFromLRUList(c, r) EXCEPT !.encoded[r] = encoded, !.decoded[r] = decoded], r)

\* setEncodedSize()
SetEncodedSize(c, r, size) ==
    IF size = c.encoded[r] THEN c
    ELSE IF r \notin c.inCache THEN [c EXCEPT !.encoded[r] = size]
    ELSE AdjustSize(Resize(c, r, size, c.decoded[r]), HasClients(c, r), size - c.encoded[r])

\* setDecodedSize()
SetDecodedSize(c, r, size) ==
    IF size = c.decoded[r] THEN c
    ELSE IF r \notin c.inCache THEN [c EXCEPT !.decoded[r] = size]
    ELSE LET moved  == Resize(c, r, c.encoded[r], size)
             listed == IF size = 0 THEN RemoveFromLive(moved, r)
                       ELSE IF HasClients(c, r) /\ r \notin ToSet(c.live)
                            THEN [moved EXCEPT !.live = <<r>> \o @]
                            ELSE moved
         IN  AdjustSize(listed, HasClients(c, r), size - c.decoded[r])

DestroyDecodedData(c, r) == SetDecodedSize(c, r, 0)

-----------------------------------------------------------------------------
(* Eviction and deletion.  These operators return the next cache, whether  *)
(* it is then to be pruned, and what is to be deleted next.                *)

Then(c, prune, next) == [cache |-> c, prune |-> prune, next |-> next]

\* The rest of removeClient(), once the client is gone.
Left(c, r) ==
    IF CanDelete(c, r) /\ r \notin c.inCache THEN Then(c, FALSE, r)
    ELSE IF ~HasClients(c, r) /\ r \in c.inCache
    THEN Then(RemoveFromLive(MoveSize(c, r, -1), r), TRUE, None)
    ELSE Then(c, FALSE, None)

\* delete. The document in an SVG image leaves the resource it uses.
DeleteNext(w) ==
    LET r      == w.next
        erased == Erase(w.cache, r)
    IN  IF r = None THEN w
        ELSE IF r \notin SVGs \/ w.cache.embeds[r] = None THEN Then(erased, FALSE, None)
        ELSE Left([erased EXCEPT !.embeds[r] = None], w.cache.embeds[r])

\* Destructors call destructors, for every SVG image that goes.
Deletions(w) ==
    LET depth == Cardinality(SVGs) + 1
        walk[i \in 0..depth] == IF i = 0 THEN w ELSE DeleteNext(walk[i - 1])
    IN  walk[depth]

Delete(c, r) == Deletions(Then(c, FALSE, r))

AfterRemoveClient(c, r) == Deletions(Left(c, r))

DeleteIfPossible(c, r) ==
    IF r \notin c.inCache /\ CanDelete(c, r) THEN Delete(c, r) ELSE Then(c, FALSE, None)

OutOfLists(c, r) == RemoveFromLive(RemoveFromLRUList(c, r), r)

\* Mutant: setInCache(false) is forgotten.
TakeOutOfLists(c, r) ==
    IF r \notin c.inCache THEN c
    ELSE AdjustSize(OutOfLists(c, r), HasClients(c, r), -Size(c, r))

\* The part of evict() before it deletes.
TakeOut(c, r) ==
    IF r \notin c.inCache THEN c
    ELSE AdjustSize([OutOfLists(c, r) EXCEPT !.inCache = @ \ {r}], HasClients(c, r), -Size(c, r))

Evict(c, r) ==
    LET out == TakeOut(c, r) IN IF CanDelete(out, r) THEN Delete(out, r) ELSE Then(out, FALSE, None)

-----------------------------------------------------------------------------
(* Pruning.                                                                *)

MinOf(a, b) == IF a < b THEN a ELSE b
MaxOf(a, b) == IF a > b THEN a ELSE b

DeadCapacity(c) ==
    LET free == c.capacity.total - MinOf(c.liveSize, c.capacity.total)
    IN  MinOf(MaxOf(free, c.capacity.min), c.capacity.max)

LiveCapacity(c) == c.capacity.total - DeadCapacity(c)

\* cTargetPrunePercentage
Target(capacity) == (95 * capacity) \div 100

DeadFits(c) == DeadCapacity(c) > 0 /\ c.deadSize <= DeadCapacity(c)

Reaches(size, target) == target > 0 /\ size <= target

\* pruneLiveResources() at a resource of the list.
PruneOne(w, r, target) ==
    IF w.done \/ r \in w.cache.loading \/ w.cache.decoded[r] = 0 THEN w
    ELSE IF r \in w.cache.recent THEN [w EXCEPT !.done = TRUE]
    ELSE LET d == DestroyDecodedData(w.cache, r)
         IN  [cache |-> d, done |-> Reaches(d.liveSize, target)]

\* pruneLiveResources(): destroys decoded data, the least recently used first, until
\* enough is gone or what is next is too new.
PruneLive(c) ==
    LET list == Reverse(c.live)
        walk[i \in 0..Len(list)] ==
            IF i = 0 THEN [cache |-> c, done |-> FALSE]
            ELSE PruneOne(walk[i - 1], list[i], Target(LiveCapacity(c)))
    IN  IF LiveCapacity(c) > 0 /\ c.liveSize <= LiveCapacity(c) THEN c ELSE walk[Len(list)].cache

Flushable(c, r) == ~HasClients(c, r) /\ r \notin c.preloads \cup c.loading

FlushOne(w, r, target) ==
    IF w.done \/ ~Flushable(w.cache, r) THEN w
    ELSE LET d == DestroyDecodedData(w.cache, r)
         IN  [cache |-> d, done |-> Reaches(d.deadSize, target)]

\* Decoded data goes first, from the tail, until enough is gone.
Flush(c, q, target) ==
    LET list == Reverse(c.lists[q])
        walk[i \in 0..Len(list)] ==
            IF i = 0 THEN [cache |-> c, done |-> FALSE] ELSE FlushOne(walk[i - 1], list[i], target)
    IN  walk[Len(list)]

Evictable(c, r) == ~HasClients(c, r) /\ r \notin c.preloads /\ c.revalidates[r] = None

\* The last of a list that may be evicted.
LastEvictable(c, list) ==
    LET k == SelectLastInSeq(list, LAMBDA r : Evictable(c, r)) IN IF k = 0 THEN None ELSE list[k]

\* The list up to r, by m_prevInAllResourcesList.
UpTo(c, r) ==
    IF r = None THEN <<>>
    ELSE LET list == c.lists[CHOOSE q \in Queues : r \in ToSet(c.lists[q])]
         IN  SubSeq(list, 1, CHOOSE k \in DOMAIN list : list[k] = r)

Previous(c, r) ==
    LET list == UpTo(c, r) IN IF Len(list) = 1 THEN None ELSE list[Len(list) - 1]

\* A pruneDeadResources() under way: about to evict current, or back from an eviction in
\* which the cache was pruned and with current to be looked at next.
Frame == [back : BOOLEAN, queue : Queues, current : Resources \cup {None}, target : Nat]

\* Mutant: the loop over the queues ends too early.
QueuesButLast == 1

LastQueue == 0

\* A queue that is flushed is searched from its tail.
Search(flushed, q) ==
    [cache |-> flushed.cache, done |-> flushed.done, queue |-> q,
     current |-> IF flushed.done THEN None ELSE LastEvictable(flushed.cache, flushed.cache.lists[q])]

\* The loop over the queues, at queue q, as long as it finds nothing to evict.
SweepOne(w, q, target) ==
    IF w.done \/ w.current # None THEN w ELSE Search(Flush(w.cache, q, target), q)

\* The loop stops at what to evict, or ends. pruneLiveResources() is next then.
StopAt(last, target, rest) ==
    IF last.current = None
    THEN [cache |-> PruneLive([last.cache EXCEPT !.pruning = FALSE]), stack |-> rest]
    ELSE [cache |-> last.cache,
          stack |-> <<[back |-> FALSE, queue |-> last.queue, current |-> last.current,
                       target |-> target]>> \o rest]

\* pruneDeadResources() goes on to queue q: it flushes it and looks for what to evict.
Sweep(c, q, target, rest) ==
    LET steps == q + 1 - LastQueue
        walk[i \in 0..steps] ==
            IF i = 0 THEN [cache |-> c, done |-> FALSE, queue |-> q, current |-> None]
            ELSE SweepOne(walk[i - 1], q + 1 - i, target)
    IN  StopAt(walk[steps], target, rest)

\* prune()
Prune(c, rest) ==
    IF c.liveSize + c.deadSize <= c.capacity.total /\ c.capacity.max > 0 /\ c.deadSize <= c.capacity.max
    THEN [cache |-> c, stack |-> rest]
    ELSE IF DeadFits(c)
    THEN [cache |-> PruneLive(c), stack |-> rest]
    ELSE Sweep([c EXCEPT !.pruning = TRUE], Cardinality(Queues) - 1, Target(DeadCapacity(c)), rest)

Become(state) == cache' = state.cache /\ stack' = state.stack /\ UNCHANGED environment

Proceed(outcome) ==
    IF outcome.prune THEN Become(Prune(outcome.cache, stack)) ELSE cache' = outcome.cache /\ UNCHANGED <<environment, stack>>

\* Mutant: nobody asks whether pruning was re-entered.
NeverReentered(c) == FALSE

\* An inner pruneDeadResources() has run and has reset m_inPruneDeadResources.
Reentered(c) == ~c.pruning

\* What follows evict() in pruneDeadResources(), with current next.
AfterEvict(c, frame, rest) ==
    LET r == LastEvictable(c, UpTo(c, frame.current))
    IN  IF Reentered(c)
        THEN [cache |-> PruneLive(c), stack |-> rest]
        ELSE IF Reaches(c.deadSize, frame.target)
        THEN [cache |-> PruneLive([c EXCEPT !.pruning = FALSE]), stack |-> rest]
        ELSE IF r = None THEN Sweep(c, frame.queue - 1, frame.target, rest)
        ELSE [cache |-> c, stack |-> <<[frame EXCEPT !.back = FALSE, !.current = r]>> \o rest]

Top == Head(stack)

EvictNext ==
    /\ stack # <<>> /\ ~Top.back
    /\ LET outcome == Evict(cache, Top.current)
           next    == [Top EXCEPT !.back = TRUE, !.current = Previous(cache, Top.current)]
       IN  Become(IF outcome.prune THEN Prune(outcome.cache, <<next>> \o Tail(stack))
                  ELSE AfterEvict(outcome.cache, next, Tail(stack)))

Resume ==
    /\ stack # <<>> /\ Top.back
    /\ Become(AfterEvict(cache, Top, Tail(stack)))

-----------------------------------------------------------------------------
(* What documents, pages and the network do.                               *)

InControl == stack = <<>>

Created(c, r, revalidates) ==
    ResourceAccessed([c EXCEPT !.alive = @ \cup {r}, !.inCache = @ \cup {r}, !.loading = @ \cup {r},
                               !.handled = @ \cup {r}, !.revalidates[r] = revalidates], r)

\* A document requests what is not in the cache, perhaps to preload it.
Request(r) ==
    /\ InControl /\ r \notin cache.alive
    /\ \E preload \in IF "preload" \in environment THEN {{}, {r}} ELSE {{}} :
        cache' = [Created(cache, r, None) EXCEPT !.preloads = @ \cup preload]
    /\ UNCHANGED <<environment, stack>>

\* A document requests what is.
RequestAgain(r) ==
    /\ "again" \in environment
    /\ InControl /\ r \in cache.inCache /\ cache.access[r] < MaxAccess
    /\ cache' = [ResourceAccessed(cache, r) EXCEPT !.handled = @ \cup {r}]
    /\ UNCHANGED <<environment, stack>>

\* remove(), for a reload or because the embedder empties the cache.
RemoveResource(r) ==
    /\ "again" \in environment
    /\ InControl /\ r \in cache.inCache
    /\ Proceed(Evict(cache, r))

DropHandle(r) ==
    /\ InControl /\ r \in cache.handled
    /\ Proceed(DeleteIfPossible([cache EXCEPT !.handled = @ \ {r}], r))

\* clearPreloads() for one resource: it is removed if nobody asked for it.
EndPreload(r) ==
    /\ InControl /\ r \in cache.preloads
    /\ LET c == [cache EXCEPT !.preloads = @ \ {r}] IN
       \/ Proceed(DeleteIfPossible(c, r))
       \/ r \in cache.inCache /\ Proceed(Evict(c, r))

\* addClientToSet()
Joined(c, r) == IF ~HasClients(c, r) /\ r \in c.inCache THEN MoveSize(c, r, 1) ELSE c

AddClient(r) ==
    /\ InControl /\ r \in cache.handled \ cache.page
    /\ cache' = [Joined(cache, r) EXCEPT !.page = @ \cup {r}]
    /\ UNCHANGED <<environment, stack>>

\* removeClient(). Of responses that are no-store, those that came by https are removed
\* at once, and the others do not prune.
RemoveClient(r) ==
    /\ InControl /\ r \in cache.page
    /\ LET gone == AfterRemoveClient([cache EXCEPT !.page = @ \ {r}], r) IN
       \/ Proceed(gone)
       \/ /\ r \in cache.inCache /\ gone.prune
          /\ \/ cache' = gone.cache /\ UNCHANGED <<environment, stack>>
             \/ Proceed(Evict(gone.cache, r))

\* The document in an SVG image becomes a client.
Embed(s, r) ==
    /\ "embed" \in environment
    /\ InControl /\ s \in cache.alive \ cache.loading /\ r \in cache.handled
    /\ r # s /\ cache.embeds[s] = None
    /\ r \in SVGs => cache.embeds[r] = None
    /\ \A t \in SVGs : cache.embeds[t] # s
    /\ cache' = [Joined(cache, r) EXCEPT !.embeds[s] = r]
    /\ UNCHANGED <<environment, stack>>

DataArrives(r) ==
    /\ InControl /\ r \in cache.loading /\ cache.revalidates[r] = None
    /\ \E size \in cache.encoded[r]..MaxEncoded : cache' = SetEncodedSize(cache, r, size)
    /\ UNCHANGED <<environment, stack>>

\* setRequest(0), after setLoading(false).
FinishLoad(r) ==
    /\ InControl /\ r \in cache.loading /\ cache.revalidates[r] = None
    /\ Proceed(DeleteIfPossible([cache EXCEPT !.loading = @ \ {r}], r))

\* CachedImage::error() and then remove(), by data() or by the loader. The request goes.
FailLoad(r) ==
    /\ InControl /\ r \in cache.loading /\ cache.revalidates[r] = None
    /\ LET cleared == SetEncodedSize(DestroyDecodedData(cache, r), r, 0)
       IN  Proceed(Evict([cleared EXCEPT !.loading = @ \ {r}], r))

\* Part of the image is decoded, or a script.
Decode(r) ==
    /\ "decode" \in environment
    /\ InControl /\ r \in cache.alive \ SVGs /\ cache.encoded[r] > 0
    /\ \E size \in 1..MaxDecoded : cache' = SetDecodedSize(cache, r, size)
    /\ UNCHANGED <<environment, stack>>

\* didAccessDecodedData()
Draw(r) ==
    /\ InControl /\ r \in cache.alive /\ HasClients(cache, r) /\ cache.decoded[r] > 0
    /\ LET drawn == [cache EXCEPT !.recent = @ \cup {r}] IN
       IF r \notin cache.inCache THEN cache' = drawn /\ UNCHANGED <<environment, stack>>
       ELSE Become(Prune(IF r \in ToSet(cache.live)
                         THEN [drawn EXCEPT !.live = <<r>> \o RemoveFirst(@, r)] ELSE drawn, stack))

\* The timer that destroys decoded data fires.
DeletionTimerFires(r) ==
    /\ InControl /\ cache.decoded[r] > 0
    /\ cache' = DestroyDecodedData(cache, r)
    /\ UNCHANGED <<environment, stack>>

TimePasses ==
    /\ InControl /\ cache.recent # {}
    /\ cache' = [cache EXCEPT !.recent = {}]
    /\ UNCHANGED <<environment, stack>>

SetCapacities ==
    /\ "settings" \in environment
    /\ InControl
    /\ \E capacity \in Capacities \ {cache.capacity} :
        Become(Prune([cache EXCEPT !.capacity = capacity], stack))

-----------------------------------------------------------------------------
(* Revalidation.                                                           *)

\* revalidateResource()
Revalidate(r, n) ==
    /\ "revalidate" \in environment
    /\ InControl
    /\ r \in cache.inCache \ cache.loading /\ cache.revalidates[r] = None /\ ~IsProxied(cache, r)
    /\ n \notin cache.alive /\ (n \in SVGs <=> r \in SVGs)
    /\ LET linked == [cache EXCEPT !.revalidates[n] = r]
       IN  cache' = Created(Evict(linked, r).cache, n, r)
    /\ UNCHANGED <<environment, stack>>

ReturnsLive(c, r) == HasClients(c, r)

\* revalidationSucceeded(): the resource returns to the cache.
PutBack(c, r) ==
    LET listed == InsertInLRUList([c EXCEPT !.inCache = @ \cup {r}], r)
        live   == IF c.decoded[r] > 0 /\ HasClients(c, r) THEN [listed EXCEPT !.live = <<r>> \o @] ELSE listed
    IN  AdjustSize(live, ReturnsLive(c, r), Size(c, r))

\* switchClientsToRevalidatedResource()
Switch(c, n, r) ==
    LET joined == IF HasClients(c, n) THEN Joined(c, r) ELSE c
        Moved(S) == IF n \in S THEN (S \ {n}) \cup {r} ELSE S
    IN  [joined EXCEPT !.handled = Moved(@), !.page = Moved(@),
                       !.embeds = [s \in SVGs |-> IF @[s] = n THEN r ELSE @[s]]]

\* A 304 arrives, while the validator is in the cache. Its request ends with it.
RevalidationSucceeds(n) ==
    LET r == cache.revalidates[n] IN
    /\ InControl /\ r # None /\ n \in cache.inCache
    /\ LET switched == Switch(PutBack(TakeOut(cache, n), r), n, r)
       IN  Proceed(DeleteIfPossible([switched EXCEPT !.revalidates[n] = None, !.loading = @ \ {n}], n))

\* Another response arrives: clearResourceToRevalidate(); the load goes on.
RevalidationFails(n) ==
    LET r == cache.revalidates[n] IN
    /\ InControl /\ r # None
    /\ Proceed(DeleteIfPossible([cache EXCEPT !.revalidates[n] = None], r))

-----------------------------------------------------------------------------

Pruning == EvictNext \/ Resume

Requests(r) == Request(r) \/ RequestAgain(r) \/ RemoveResource(r) \/ DropHandle(r) \/ EndPreload(r)

Uses(r) ==
    \/ AddClient(r) \/ RemoveClient(r) \/ \E s \in SVGs : Embed(s, r)
    \/ Decode(r) \/ Draw(r) \/ DeletionTimerFires(r)

Loads(r) ==
    \/ DataArrives(r) \/ FinishLoad(r) \/ FailLoad(r)
    \/ RevalidationSucceeds(r) \/ RevalidationFails(r) \/ \E n \in Resources : Revalidate(r, n)

Next ==
    \/ Pruning
    \/ \E r \in Resources : Requests(r) \/ Uses(r) \/ Loads(r)
    \/ TimePasses \/ SetCapacities

Spec == Init /\ [][Next]_vars

-----------------------------------------------------------------------------
(* Properties.                                                             *)

\* The type of the state; what is in the cache is alive.
TypeOK ==
    /\ environment \in Environments
    /\ cache \in Cache /\ cache.inCache \subseteq cache.alive
    /\ stack \in Seq(Frame)

\* The sum of a function over the resources.
Total(w) ==
    LET order == SetToSeq(Resources)
        sum[i \in 0..Len(order)] == IF i = 0 THEN 0 ELSE sum[i - 1] + w[order[i]]
    IN  sum[Len(order)]

SizeOf(c, S) == Total([r \in Resources |-> IF r \in S THEN Size(c, r) ELSE 0])

\* The sizes the cache prunes by are what the resources in it take, the live ones and the
\* dead, whatever joins, leaves, grows, is evicted or returns: each of those adjusts them
\* by a difference of its own.
SizesAreExact ==
    LET Live == {r \in cache.inCache : HasClients(cache, r)}
    IN  cache.liveSize = SizeOf(cache, Live) /\ cache.deadSize = SizeOf(cache, cache.inCache \ Live)

\* Every resource in the cache is in one LRU list, the one that lruListFor() names, and
\* the lists hold nothing else. The live list holds resources in the cache with clients
\* and decoded data.
ListsAreExact ==
    /\ \A q \in Queues :
        /\ ToSet(cache.lists[q]) = {r \in cache.inCache : QueueOf(cache, r) = q}
        /\ IsInjective(cache.lists[q])
    /\ IsInjective(cache.live)
    /\ \A r \in ToSet(cache.live) : r \in cache.inCache /\ HasClients(cache, r) /\ cache.decoded[r] > 0

\* The books of the cache are exact.
BooksAreExact == SizesAreExact /\ ListsAreExact

\* Pruning that walks a list only follows pointers to resources in the cache, although
\* what it evicts may prune the cache and evict others.
WalkIsSafe ==
    stack # <<>> /\ ~Reentered(cache) => Top.current \in cache.inCache \cup {None}

\* Pruning is done when the dead resources fit or what is left of them cannot be evicted,
\* re-entered or not.
PruningSuffices ==
    [][stack # <<>> /\ stack' = <<>> =>
        DeadFits(cache') \/ \A r \in cache'.inCache : ~Evictable(cache', r)]_vars
=============================================================================
