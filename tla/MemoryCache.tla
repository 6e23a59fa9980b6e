------------------------------ MODULE MemoryCache ------------------------------
(***************************************************************************)
(* MemoryCache, its CachedResources and the requests of Loader             *)
(* (WebCore/loader/cache, WebCore/loader/loader.cpp): which resource a URL *)
(* names, who keeps a resource alive, how a revalidation replaces one      *)
(* resource by another and who is told when a load ends.  Sizes and LRU    *)
(* lists are left out: pruning evicts any resources that it may evict.     *)
(*                                                                         *)
(* A CachedResource is deleted by hand, at each place that takes away a    *)
(* reason to keep it.  As in ResourceLoading, `stack' holds the functions  *)
(* that are waiting for a call to the outside to return.                   *)
(***************************************************************************)
EXTENDS Integers, FiniteSets, Sequences

CONSTANTS
    Resources,  \* the CachedResource objects ever created
    URLs,
    Documents,  \* each with its CachedResourceLoader
    Clients,    \* the CachedResourceClients
    None,
    Policies,   \* the cache policies frames use
    Answers,    \* what responses say of caching: they have an ETag or a date to
                \* revalidate with, they have neither, or they are no-store
    Preloads,   \* whether requests are preloads
    Refusals,   \* whether scheduleSubresourceLoad may refuse a load
    Flushes,    \* whether the embedder empties the cache
    Stops,      \* whether code outside stops the loads of a document
    MaxCalls    \* bound: calls to the outside under way at once

ASSUME URLsAssumption == URLs # {}
ASSUME NoneAssumption == None \notin Resources \cup Documents
ASSUME PolicyAssumption == Policies \subseteq {"verify", "revalidate", "reload", "history"}
ASSUME AnswerAssumption == Answers \subseteq {"validator", "plain", "noStore"}
ASSUME PreloadAssumption == Preloads \subseteq BOOLEAN
ASSUME SwitchAssumption == {Refusals, Flushes, Stops} \subseteq BOOLEAN
ASSUME MaxCallsAssumption == MaxCalls \in Nat

VARIABLES
    mem,        \* the objects and the pointers between them
    docs,       \* the documents that are alive
    reloaded,   \* m_reloadedURLs of every document
    told,       \* history: the clients of a resource that notifyFinished reached
    stopped,    \* history: the resources whose load was cancelled
    stack       \* the functions waiting for a call to return, top first

vars == <<mem, docs, reloaded, told, stopped, stack>>

Memory == [
    map : [URLs -> Resources \cup {None}],          \* m_resources
    life : [Resources -> {"unused", "alive", "deleted"}],
    at : [Resources -> URLs],                       \* m_url
    inCache : SUBSET Resources,
    loading : SUBSET Resources,
    error : SUBSET Resources,                       \* errorOccurred()
    response : [Resources -> Answers \cup {"none"}],
    clients : [Resources -> SUBSET Clients],
    referenced : SUBSET Resources,                  \* m_preloadResult is not
                                                    \* PreloadNotReferenced
    request : [Resources -> Documents \cup {None}], \* m_request
    revalidates : [Resources -> Resources \cup {None}],
    proxy : [Resources -> Resources \cup {None}],   \* m_proxyResource
    handle : [Documents -> [URLs -> Resources \cup {None}]],
    preloads : [Documents -> SUBSET Resources]]

(***************************************************************************)
(* Frames.  A load frame stands for a function that notifies the clients   *)
(* in `left' of `res' one after the other.  The outside runs while the     *)
(* stage is "client", and while it is "loadDone", in which the function    *)
(* has called FrameLoader::checkCompleted (from setLoadInProgress(false)). *)
(***************************************************************************)
LoadOps == {"finish", "dataError", "decodeError", "fail", "cancelled", "switched",
            "refused", "refusedNew"}
LoadFrame == [op : LoadOps, res : Resources, left : SUBSET Clients,
              stage : {"walk", "client", "loadDone", "return"}]
RequestFrame == [op : {"request"}, doc : Documents, url : URLs,
                 policy : Policies, preload : Preloads]
CancelFrame == [op : {"cancelAll"}, left : SUBSET Resources]

Top == Head(stack)
Running(op) == stack # <<>> /\ Top.op = op
Below == Tail(stack)
Load(op, r, left) == [op |-> op, res |-> r, left |-> left, stage |-> "walk"]

InControl == stack # <<>> => Top.op \in LoadOps /\ Top.stage \in {"client", "loadDone"}
MayCall == Cardinality({i \in DOMAIN stack : stack[i].op \in LoadOps}) < MaxCalls

\* The operations that have taken their request from m_requestsLoading.
Ending == LoadOps \ {"dataError", "decodeError"}
InFlight(r) ==
    /\ mem.request[r] # None
    /\ \A i \in DOMAIN stack : stack[i].op \in Ending => stack[i].res # r

------------------------------------------------------------------------------
(***************************************************************************)
(* CachedResource.                                                         *)
(***************************************************************************)
Preloaded(m, r) == \E d \in Documents : r \in m.preloads[d]
HasHandles(m, r) == \E d \in Documents, u \in URLs : m.handle[d][u] = r

\* A mutant of canDelete that forgets m_proxyResource, and one that forgets
\* m_preloadCount.
DeletesRevalidated(m, r) ==
    /\ m.clients[r] = {} /\ m.request[r] = None /\ ~Preloaded(m, r)
    /\ ~HasHandles(m, r) /\ m.revalidates[r] = None
DeletesPreloaded(m, r) ==
    /\ m.clients[r] = {} /\ m.request[r] = None /\ ~HasHandles(m, r)
    /\ m.revalidates[r] = None /\ m.proxy[r] = None

\* canDelete.
CanDelete(m, r) ==
    /\ m.clients[r] = {}
    /\ m.request[r] = None
    /\ ~Preloaded(m, r)
    /\ ~HasHandles(m, r)
    /\ m.revalidates[r] = None
    /\ m.proxy[r] = None

Delete(m, S) ==
    [m EXCEPT !.life = [r \in Resources |-> IF r \in S THEN "deleted" ELSE @[r]],
              !.loading = @ \ S, !.error = @ \ S, !.referenced = @ \ S,
              !.response = [r \in Resources |-> IF r \in S THEN "none" ELSE @[r]]]

\* deleteIfPossible, for each of S.
DeleteIfPossible(m, S) == Delete(m, {r \in S \ m.inCache : CanDelete(m, r)})

\* A mutant of setRequest(0) that deletes nothing.
KeepAfterRequest(m, r) == [m EXCEPT !.request[r] = None]

\* setRequest(0), by the destructor of Request.
EndRequest(m, r) == DeleteIfPossible([m EXCEPT !.request[r] = None], {r})

\* Assignment to a CachedResourceHandle of a document.
SetHandle(m, d, u, r) ==
    LET old == m.handle[d][u]
    IN DeleteIfPossible([m EXCEPT !.handle[d][u] = r], {old} \ {None, r})

\* canUseCacheValidator.
CanUseValidator(m, r) ==
    r \notin m.loading \cup m.error /\ m.response[r] = "validator"

\* mustRevalidate, by whether the response has expired.
MustRevalidate(m, r, expired) ==
    \/ r \in m.error
    \/ r \notin m.loading /\ (m.response[r] = "noStore" \/ expired)

\* A mutant of clearResourceToRevalidate that deletes neither resource.
KeepRevalidated(m, n) ==
    LET r == m.revalidates[n]
    IN [m EXCEPT !.proxy[r] = IF @ = n THEN None ELSE @, !.revalidates[n] = None]

\* clearResourceToRevalidate, also revalidationFailed.
ClearRevalidation(m, n) ==
    LET r == m.revalidates[n]
        m1 == IF m.proxy[r] = n
              THEN DeleteIfPossible([m EXCEPT !.proxy[r] = None], {r})
              ELSE m
    IN DeleteIfPossible([m1 EXCEPT !.revalidates[n] = None], {n})

RevalidationFailed(m, n) ==
    IF m.revalidates[n] = None THEN m ELSE ClearRevalidation(m, n)

(***************************************************************************)
(* MemoryCache.                                                            *)
(***************************************************************************)
\* A mutant of evict that forgets setInCache(false).
EvictFromMap(m, S) ==
    LET out == S \cap m.inCache
        m1 == [m EXCEPT !.map = [u \in URLs |-> IF \E r \in out : m.at[r] = u
                                                THEN None ELSE @[u]]]
    IN Delete(m1, {r \in S : CanDelete(m1, r)})

\* evict, for each of S.  The entry of a URL goes whatever it names by then.
Evict(m, S) ==
    LET out == S \cap m.inCache
        m1 == [m EXCEPT !.inCache = @ \ out,
                        !.map = [u \in URLs |-> IF \E r \in out : m.at[r] = u
                                                THEN None ELSE @[u]]]
    IN Delete(m1, {r \in S : CanDelete(m1, r)})

\* A new resource that pretends to be in the cache, its load requested by d.
Create(m, r, u, d) ==
    [m EXCEPT !.life[r] = "alive", !.at[r] = u, !.inCache = @ \cup {r},
              !.request[r] = d]

\* revalidateResource, for the case that it creates n to revalidate r.
CreateValidator(m, n, r, d) ==
    LET u == m.at[r]
        m1 == Evict([m EXCEPT !.revalidates[n] = r, !.proxy[r] = n], {r})
    IN [Create(m1, n, u, d) EXCEPT !.map[u] = n]

Unused == {r \in Resources : mem.life[r] = "unused"}

\* A mutant of pruneDeadResources that forgets isCacheValidator.
PrunableValidators(m) ==
    {r \in m.inCache : m.clients[r] = {} /\ ~Preloaded(m, r)}

\* What pruneDeadResources may evict: what is listed, so not what pretends to
\* be cached, and is dead, not preloaded and no validator.
Prunable(m) ==
    {r \in m.inCache :
        /\ m.clients[r] = {}
        /\ ~Preloaded(m, r)
        /\ m.revalidates[r] = None
        /\ \A i \in DOMAIN stack : stack[i].op = "refusedNew" => stack[i].res # r}

------------------------------------------------------------------------------
Init ==
    /\ mem = [map |-> [u \in URLs |-> None],
              life |-> [r \in Resources |-> "unused"],
              at |-> [r \in Resources |-> CHOOSE u \in URLs : TRUE],
              inCache |-> {}, loading |-> {}, error |-> {},
              response |-> [r \in Resources |-> "none"],
              clients |-> [r \in Resources |-> {}],
              referenced |-> {},
              request |-> [r \in Resources |-> None],
              revalidates |-> [r \in Resources |-> None],
              proxy |-> [r \in Resources |-> None],
              handle |-> [d \in Documents |-> [u \in URLs |-> None]],
              preloads |-> [d \in Documents |-> {}]]
    /\ docs = Documents
    /\ reloaded = {}
    /\ told = [r \in Resources |-> {}]
    /\ stopped = {}
    /\ stack = <<>>

(***************************************************************************)
(* CachedResourceLoader::requestResource: checkForReload, then             *)
(* MemoryCache::requestResource.                                           *)
(***************************************************************************)
\* checkForReload looks at the resource the URL names only if it is there, was
\* not preloaded and was not checked for this document before.
Checks(d, u) ==
    LET r == mem.map[u]
    IN r # None /\ ~Preloaded(mem, r) /\ <<d, u>> \notin reloaded

\* m_reloadedURLs, and a mutant that does not keep it for each document.
RememberURL(d, u) == reloaded \cup {u}
Remember(d, u) == reloaded \cup {<<d, u>>}

\* policy says revalidateResource; a load that is refused tells the clients
\* of the new resource, which has none, and the frame.
Revalidate(d, u, policy, rest) ==
    LET r == mem.map[u]
    IN /\ \/ policy = "revalidate"
          \/ policy = "verify" /\ \E expired \in BOOLEAN : MustRevalidate(mem, r, expired)
       /\ \/ /\ mem.revalidates[r] # None
             /\ mem' = mem /\ stack' = rest /\ reloaded' = Remember(d, u)
          \/ /\ mem.revalidates[r] = None /\ ~CanUseValidator(mem, r)
             /\ mem' = Evict(mem, {r}) /\ stack' = rest /\ reloaded' = Remember(d, u)
          \/ /\ mem.revalidates[r] = None /\ CanUseValidator(mem, r)
             /\ \E n \in Unused :
                   LET m == CreateValidator(mem, n, r, d)
                   IN \/ /\ mem' = [m EXCEPT !.loading = @ \cup {n}]
                         /\ stack' = rest /\ reloaded' = Remember(d, u)
                      \/ /\ Refusals /\ MayCall
                         /\ mem' = [RevalidationFailed(m, n) EXCEPT !.error = @ \cup {n}]
                         /\ stack' = <<Load("refused", n, {})>> \o rest
                         /\ UNCHANGED reloaded

CheckForReload(d, u, policy, preload) ==
    /\ InControl
    /\ d \in docs
    /\ LET rest == <<[op |-> "request", doc |-> d, url |-> u, policy |-> policy,
                      preload |-> preload]>> \o stack
       IN \/ /\ \/ ~Checks(d, u)
                \/ policy = "history"
                \/ Checks(d, u) /\ policy = "verify" /\ ~MustRevalidate(mem, mem.map[u], FALSE)
             /\ stack' = rest
             /\ UNCHANGED <<mem, reloaded>>
          \/ /\ Checks(d, u) /\ policy = "reload"
             /\ mem' = Evict(mem, {mem.map[u]})
             /\ reloaded' = Remember(d, u)
             /\ stack' = rest
          \/ Checks(d, u) /\ Revalidate(d, u, policy, rest)
    /\ UNCHANGED <<docs, told, stopped>>

\* The resource goes to the caller, to a handle of the document and, if asked
\* for by the preload scanner, to its preloads.
Give(m, d, u, r, preload) ==
    LET m1 == SetHandle(m, d, u, r)
    IN IF preload THEN [m1 EXCEPT !.preloads[d] = @ \cup {r}] ELSE m1

RequestResource ==
    /\ Running("request")
    /\ LET d == Top.doc
           u == Top.url
           e == mem.map[u]
           stale == e # None /\ mem.response[e] = "noStore" /\ Top.policy # "history"
           m == IF stale THEN Evict(mem, {e}) ELSE mem
           r == m.map[u]
       IN \/ \* not preloaded yet, not displayable, or of another type
             mem' = m /\ stack' = Below
          \/ /\ r # None
             /\ Top.preload => Preloaded(m, r)
             /\ mem' = Give(m, d, u, r, Top.preload)
             /\ stack' = Below
          \/ /\ r = None
             /\ \E n \in Unused :
                   LET m1 == Create(m, n, u, d)
                   IN \/ /\ mem' = Give([m1 EXCEPT !.map[u] = n, !.loading = @ \cup {n}],
                                        d, u, n, Top.preload)
                         /\ stack' = Below
                      \/ /\ Refusals /\ MayCall
                         /\ mem' = [m1 EXCEPT !.error = @ \cup {n}]
                         /\ stack' = <<Load("refusedNew", n, {})>> \o Below
    /\ UNCHANGED <<docs, reloaded, told, stopped>>

------------------------------------------------------------------------------
(***************************************************************************)
(* Clients, preloads, documents, pruning.                                  *)
(***************************************************************************)
\* A client watches one resource, which it got from a document.
AddClient(r, c) ==
    /\ InControl
    /\ HasHandles(mem, r)
    /\ \A s \in Resources : c \notin mem.clients[s]
    /\ mem' = [mem EXCEPT !.clients[r] = @ \cup {c}, !.referenced = @ \cup {r}]
    /\ told' = IF r \in mem.loading THEN told ELSE [told EXCEPT ![r] = @ \cup {c}]
    /\ UNCHANGED <<docs, reloaded, stopped, stack>>

\* The last client to leave a cached resource has the cache pruned, or a
\* no-store resource of an https URL removed.
RemoveClient(r, c) ==
    /\ InControl
    /\ c \in mem.clients[r]
    /\ LET m == [mem EXCEPT !.clients[r] = @ \ {c}]
       IN IF r \notin m.inCache THEN mem' = DeleteIfPossible(m, {r})
          ELSE IF m.clients[r] # {} THEN mem' = m
          ELSE IF m.response[r] = "noStore"
          THEN \E S \in SUBSET {r} : mem' = Evict(m, S)
          ELSE \E S \in SUBSET Prunable(m) : mem' = Evict(m, S)
    /\ told' = [told EXCEPT ![r] = @ \ {c}]
    /\ UNCHANGED <<docs, reloaded, stopped, stack>>

\* prune, on a paint or a change of the capacities.
Prune ==
    /\ InControl
    /\ \E S \in SUBSET Prunable(mem) : mem' = Evict(mem, S)
    /\ UNCHANGED <<docs, reloaded, told, stopped, stack>>

\* The embedder disables the cache and enables it again.
Flush ==
    /\ Flushes
    /\ InControl
    /\ mem' = Evict(mem, {mem.map[u] : u \in URLs} \ {None})
    /\ UNCHANGED <<docs, reloaded, told, stopped, stack>>

\* A mutant of clearPreloads that removes the unused but deletes no others.
KeepPreloads(m, d) ==
    Evict([m EXCEPT !.preloads[d] = {}],
          {r \in m.preloads[d] : r \notin m.referenced /\ r \in m.inCache})

\* clearPreloads: what nobody came to use leaves the cache.
WithoutPreloads(m, d) ==
    LET S == m.preloads[d]
        m1 == [m EXCEPT !.preloads[d] = {}]
        m2 == DeleteIfPossible(m1, S)
    IN Evict(m2, {r \in S : m2.life[r] = "alive" /\ r \notin m.referenced})

ClearPreloads(d) ==
    /\ InControl
    /\ d \in docs
    /\ mem' = WithoutPreloads(mem, d)
    /\ UNCHANGED <<docs, reloaded, told, stopped, stack>>

\* Loader::cancelRequests copies the loaders to cancel.
CancelRequests(d) ==
    /\ Stops
    /\ InControl
    /\ MayCall
    /\ d \in docs
    /\ stack' = <<[op |-> "cancelAll",
                   left |-> {r \in Resources : InFlight(r) /\ mem.request[r] = d}]>>
                \o stack
    /\ UNCHANGED <<mem, docs, reloaded, told, stopped>>

\* ~CachedResourceLoader, once its requests have been cancelled.
DestroyDocument(d) ==
    /\ InControl
    /\ d \in docs
    /\ \A r \in Resources : mem.request[r] # d
    /\ \A i \in DOMAIN stack : stack[i].op = "request" => stack[i].doc # d
    /\ LET m == WithoutPreloads(mem, d)
           S == {m.handle[d][u] : u \in URLs} \ {None}
       IN mem' = DeleteIfPossible([m EXCEPT !.handle[d] = [u \in URLs |-> None]], S)
    /\ docs' = docs \ {d}
    /\ UNCHANGED <<reloaded, told, stopped, stack>>

------------------------------------------------------------------------------
(***************************************************************************)
(* Loader, told by SubresourceLoaders, from the event loop.                *)
(***************************************************************************)
Reports(r) == stack = <<>> /\ InFlight(r)

\* A mutant of switchClientsToRevalidatedResource that calls no client.
SwitchedSilently(n) == Load("switched", n, {})

\* The clients that switchClientsToRevalidatedResource tells.
Switched(n) == Load("switched", n, mem.clients[n])

\* A 304: the revalidated resource is cached again and takes over the handles
\* and the clients, which are told.  m_requestsLoading forgets the request
\* first; the request itself goes last.
NotModified(n, answer) ==
    LET r == mem.revalidates[n]
        u == mem.at[r]
        m == Evict(mem, {n})
    IN /\ Reports(n)
       /\ r # None
       /\ mem' = [m EXCEPT !.map[u] = r, !.inCache = @ \cup {r},
                           !.response[r] = answer,
                           !.handle = [d \in Documents |-> [v \in URLs |->
                                          IF @[d][v] = n THEN r ELSE @[d][v]]],
                           !.clients[r] = @ \cup m.clients[n], !.clients[n] = {},
                           !.referenced = @ \cup (IF m.clients[n] # {} THEN {r} ELSE {})]
       /\ told' = [told EXCEPT ![n] = {}]
       /\ stack' = <<Switched(n)>>
       /\ UNCHANGED <<docs, reloaded, stopped>>

DidReceiveResponse(r, answer) ==
    /\ Reports(r)
    /\ mem.response[r] = "none"
    /\ mem' = [RevalidationFailed(mem, r) EXCEPT !.response[r] = answer]
    /\ UNCHANGED <<docs, reloaded, told, stopped, stack>>

\* The answer is an HTTP error, or data that cannot be decoded, upon which the
\* resource also leaves the cache.
DidReceiveData(r) ==
    /\ Reports(r)
    /\ mem.response[r] # "none"
    /\ r \notin mem.error
    /\ mem' = [mem EXCEPT !.error = @ \cup {r}, !.loading = @ \ {r}]
    /\ \E op \in {"dataError", "decodeError"} : stack' = <<Load(op, r, mem.clients[r])>>
    /\ UNCHANGED <<docs, reloaded, told, stopped>>

DidFinishLoading(r) ==
    /\ Reports(r)
    /\ mem.response[r] # "none"
    /\ \/ r \in mem.error /\ mem' = EndRequest(mem, r) /\ UNCHANGED stack
       \/ /\ r \notin mem.error
          /\ mem' = [mem EXCEPT !.loading = @ \ {r}]
          /\ stack' = <<Load("finish", r, mem.clients[r])>>
       \/ /\ r \notin mem.error
          /\ mem' = [mem EXCEPT !.loading = @ \ {r}, !.error = @ \cup {r}]
          /\ stack' = <<Load("decodeError", r, mem.clients[r]), Load("finish", r, {})>>
    /\ UNCHANGED <<docs, reloaded, told, stopped>>

\* A mutant of CachedResource::error that tells no client.
FailSilently(r) ==
    /\ Reports(r)
    /\ mem' = [RevalidationFailed(mem, r) EXCEPT !.error = @ \cup {r},
                                                  !.loading = @ \ {r}]
    /\ stack' = <<Load("fail", r, {})>>
    /\ UNCHANGED <<docs, reloaded, told, stopped>>

DidFail(r) ==
    /\ Reports(r)
    /\ mem' = [RevalidationFailed(mem, r) EXCEPT !.error = @ \cup {r},
                                                  !.loading = @ \ {r}]
    /\ stack' = <<Load("fail", r, mem.clients[r])>>
    /\ UNCHANGED <<docs, reloaded, told, stopped>>

\* cancelRequests goes on: didFail of a cancelled load tells no client.
CancelOne(r) ==
    /\ Running("cancelAll")
    /\ r \in Top.left
    /\ LET rest == <<[Top EXCEPT !.left = @ \ {r}]>> \o Below
       IN IF InFlight(r)
          THEN /\ mem' = RevalidationFailed(mem, r)
               /\ stopped' = stopped \cup {r}
               /\ stack' = <<Load("cancelled", r, {})>> \o rest
          ELSE stack' = rest /\ UNCHANGED <<mem, stopped>>
    /\ UNCHANGED <<docs, reloaded, told>>

CancelReturn ==
    /\ Running("cancelAll")
    /\ Top.left = {}
    /\ stack' = Below
    /\ UNCHANGED <<mem, docs, reloaded, told, stopped>>

------------------------------------------------------------------------------
(***************************************************************************)
(* What the functions that call out do when the call returns.              *)
(***************************************************************************)
Walking == stack # <<>> /\ Top.op \in LoadOps /\ Top.stage \in {"walk", "client"}

\* The next client is told, if it is a client still.  After a switch the
\* clients are those of the resource that was revalidated.
Tell(c) ==
    /\ Walking
    /\ c \in Top.left
    /\ LET r == IF Top.op = "switched" THEN mem.revalidates[Top.res] ELSE Top.res
           calls == c \in mem.clients[r] /\ (Top.op = "switched" => r \notin mem.loading)
       IN /\ stack' = <<[Top EXCEPT !.left = @ \ {c},
                                    !.stage = IF calls THEN "client" ELSE "walk"]>> \o Below
          /\ told' = IF calls THEN [told EXCEPT ![r] = @ \cup {c}] ELSE told
    /\ UNCHANGED <<mem, docs, reloaded, stopped>>

\* setLoadInProgress(false), before the request goes.
LoadDone ==
    /\ Walking
    /\ Top.left = {}
    /\ Top.op \in {"fail", "cancelled", "refused", "refusedNew"}
    /\ stack' = <<[Top EXCEPT !.stage = "loadDone"]>> \o Below
    /\ UNCHANGED <<mem, docs, reloaded, told, stopped>>

\* Each function's last steps; stack is what it leaves.
Ends(op, stages, m, rest) ==
    /\ Running(op)
    /\ Top.left = {}
    /\ Top.stage \in stages
    /\ mem' = m
    /\ stack' = rest
    /\ UNCHANGED <<docs, reloaded, told, stopped>>

FinishReturn ==
    Ends("finish", {"walk", "client"}, EndRequest(mem, Top.res), Below)

DataErrorReturn ==
    Ends("dataError", {"walk", "client"}, mem, Below)

DecodeErrorReturn ==
    Ends("decodeError", {"walk", "client"},
         IF Top.res \in mem.inCache THEN Evict(mem, {Top.res}) ELSE mem, Below)

FailReturn ==
    Ends("fail", {"loadDone"},
         EndRequest(IF Preloaded(mem, Top.res) THEN mem ELSE Evict(mem, {Top.res}),
                    Top.res), Below)

CancelledReturn ==
    Ends("cancelled", {"loadDone"}, EndRequest(Evict(mem, {Top.res}), Top.res), Below)

\* revalidationSucceeded ends before Loader goes on to checkCompleted.
Switch ==
    Ends("switched", {"walk", "client"}, ClearRevalidation(mem, Top.res),
         <<[Top EXCEPT !.stage = "loadDone"]>> \o Below)

SwitchReturn ==
    Ends("switched", {"loadDone"}, EndRequest(mem, Top.res), Below)

\* Loader::load ends the request ...
RefusedReturn ==
    \E op \in {"refused", "refusedNew"} :
        Ends(op, {"loadDone"}, EndRequest(mem, Top.res),
             <<[Top EXCEPT !.stage = "return"]>> \o Below)

\* ... CachedResource::load sets m_loading, checkForReload remembers the URL ...
RevalidateReturn ==
    /\ Running("refused")
    /\ Top.stage = "return"
    /\ mem' = [mem EXCEPT !.loading = @ \cup {Top.res}]
    /\ reloaded' = Remember(Head(Below).doc, Head(Below).url)
    /\ stack' = Below
    /\ UNCHANGED <<docs, told, stopped>>

\* A mutant that deletes what it created without setInCache(false).
LoadReturnCached ==
    \/ RevalidateReturn
    \/ Ends("refusedNew", {"return"}, Delete(mem, {Top.res}), Below)

\* ... and requestResource deletes what it created.
LoadReturn ==
    \/ RevalidateReturn
    \/ Ends("refusedNew", {"return"},
            Delete([mem EXCEPT !.inCache = @ \ {Top.res}], {Top.res}), Below)

------------------------------------------------------------------------------
Outside ==
    \/ \E d \in Documents, u \in URLs, p \in Policies, preload \in Preloads :
          CheckForReload(d, u, p, preload)
    \/ \E r \in Resources, c \in Clients : AddClient(r, c) \/ RemoveClient(r, c)
    \/ Prune
    \/ Flush
    \/ \E d \in Documents : ClearPreloads(d) \/ CancelRequests(d) \/ DestroyDocument(d)

Network == \E r \in Resources :
    \/ \E answer \in Answers \ {"plain"} : NotModified(r, answer)
    \/ \E answer \in Answers : DidReceiveResponse(r, answer)
    \/ DidReceiveData(r)
    \/ DidFinishLoading(r)
    \/ DidFail(r)

Returning ==
    \/ RequestResource
    \/ \E r \in Resources : CancelOne(r)
    \/ CancelReturn
    \/ \E c \in Clients : Tell(c)
    \/ LoadDone
    \/ FinishReturn \/ DataErrorReturn \/ DecodeErrorReturn \/ FailReturn
    \/ CancelledReturn \/ Switch \/ SwitchReturn \/ RefusedReturn \/ LoadReturn

Next == Outside \/ Network \/ Returning

Spec == Init /\ [][Next]_vars

------------------------------------------------------------------------------
\* The type of the state.
TypeOK ==
    /\ mem \in Memory
    /\ docs \subseteq Documents
    /\ reloaded \subseteq Documents \X URLs
    /\ told \in [Resources -> SUBSET Clients]
    /\ stopped \subseteq Resources
    /\ stack \in Seq(LoadFrame \cup RequestFrame \cup CancelFrame)

\* No use after deletion: whatever the map, a document, a revalidation or a
\* function on the stack points to is alive.
NoDanglingPointers ==
    LET Alive == {r \in Resources : mem.life[r] = "alive"}
    IN /\ mem.inCache \subseteq Alive
       /\ \A u \in URLs : mem.map[u] \in Alive \cup {None}
       /\ \A d \in Documents, u \in URLs : mem.handle[d][u] \in Alive \cup {None}
       /\ \A d \in Documents : mem.preloads[d] \subseteq Alive
       /\ \A r \in Alive : {mem.revalidates[r], mem.proxy[r]} \subseteq Alive \cup {None}
       /\ \A i \in DOMAIN stack : stack[i].op \in LoadOps => stack[i].res \in Alive

\* No leak: a resource that is neither cached nor needed is gone.
NothingLeaks ==
    \A r \in Resources : mem.life[r] = "alive" /\ CanDelete(mem, r) => r \in mem.inCache

\* The map and m_inCache agree: a resource that thinks it is cached is the one
\* its URL names, except the one that pretends to be.
CacheMapExact ==
    /\ \A u \in URLs : mem.map[u] # None => mem.map[u] \in mem.inCache
    /\ \A r \in mem.inCache :
          \/ mem.map[mem.at[r]] = r
          \/ \E i \in DOMAIN stack : stack[i].op = "refusedNew" /\ stack[i].res = r

\* revalidationSucceeded asserts that the resource that did the revalidation
\* is still cached.
ValidatorIsCached ==
    \A n \in Resources : InFlight(n) /\ mem.revalidates[n] # None => n \in mem.inCache

\* Every client of a resource that is done was told so, and every client of one
\* that is loading has a request to wait for, unless the load was cancelled.
ClientsAreTold ==
    stack = <<>> =>
        \A r \in Resources :
            /\ mem.clients[r] \subseteq told[r] \/ r \in mem.loading
            /\ mem.clients[r] # {} /\ r \in mem.loading =>
                  mem.request[r] # None \/ r \in stopped
=============================================================================
