--------------------------- MODULE ResourceLoading ---------------------------
(***************************************************************************)
(* ResourceLoadScheduler and the life of the ResourceLoaders it schedules  *)
(* (WebCore/loader).  Everything runs on the main thread.  The interesting *)
(* interleavings are re-entrant: a loader calls its client, the client     *)
(* schedules, cancels and defers loads, and the loader goes on with what   *)
(* it had read before the call.  `stack' is that call stack.  It holds one *)
(* frame per function that is waiting for a call to return, and the code   *)
(* outside this component runs only when the event loop is idle (the stack *)
(* is empty) or a call to a client is on top.                              *)
(***************************************************************************)
EXTENDS Integers, FiniteSets, SequencesExt

CONSTANTS
    Loaders,        \* the ResourceLoader objects ever created
    Hosts,          \* the names of http(s) hosts, keys of m_hosts
    NonHTTP,        \* m_nonHTTPProtocolHost, which has no name
    Priorities,     \* the priorities callers schedule with
    MaxPerHost,     \* maxRequestsInFlightPerHost
    MaxNonHTTP,     \* maxRequestsInFlightForNonHTTPProtocols
    InitialSend,    \* what the embedder does with the first willSendRequest
    Deferrals,      \* the values of m_defersLoading that pages choose
    MaxCalls,       \* bound: calls to clients and attaches under way at once
    NestedEventLoop \* whether clients and attach spin a nested event loop

VeryLow == 0
Low == 1
Medium == 2
High == 3
Priority == VeryLow..High

ASSUME LoadersAssumption == IsFiniteSet(Loaders)
ASSUME HostsAssumption == NonHTTP \notin Hosts
ASSUME PrioritiesAssumption == Priorities \subseteq Priority
ASSUME LimitsAssumption == MaxPerHost \in Nat \ {0} /\ MaxNonHTTP \in Nat \ {0}
ASSUME SendAssumption == InitialSend \subseteq {"keep", "rewrite", "null"}
ASSUME DeferralsAssumption == Deferrals \subseteq BOOLEAN
ASSUME MaxCallsAssumption == MaxCalls \in Nat
ASSUME NestingAssumption == NestedEventLoop \in BOOLEAN

VARIABLES
    hostMap,    \* the keys of m_hosts
    pending,    \* HostInformation::m_requestsPending, by host and priority
    loading,    \* HostInformation::m_requestsLoading, by host
    timer,      \* m_requestTimer.isActive()
    suspended,  \* m_isSuspendingPendingRequests
    parsing,    \* the document is parsing, or waits for style sheets
    phase,      \* where a loader is in its life
    url,        \* the host of m_request.url(), until the load has ended
    defers,     \* ResourceLoader::m_defersLoading, until the load has ended
    admitted,   \* history: loads whose slot passed the limit check
    stack       \* the functions waiting for a call to return, top first

schedulerVars == <<hostMap, pending, loading, timer, suspended, parsing>>
loaderVars == <<phase, url, defers>>
vars == <<schedulerVars, loaderVars, admitted, stack>>

AllHosts == Hosts \cup {NonHTTP}
\* A loader that has reached its terminal state has m_cancelled or it has not.
Active == {"pending", "inFlight", "deferred"}
Terminal == {"ended", "cancelled"}
Phases == {"new"} \cup Active \cup Terminal

(***************************************************************************)
(* Frames of the call stack.                                               *)
(***************************************************************************)
\* servePendingRequests(host, minimumPriority), at `prio' in its for loop.
ServeFrame == [op : {"serve"}, host : AllHosts, prio : Priority, min : Priority]
\* servePendingRequests(minimumPriority): before the hosts are copied ...
SnapshotFrame == [op : {"snapshot"}]
\* ... and with the copied hosts that remain to be served.
SweepFrame == [op : {"sweep"}, todo : SUBSET Hosts]
\* A loader in the call to its client (told), or, after it has left the
\* document loader, in checkLoadComplete (removed).
EndOps == {"didFinish", "didFail", "didCancel"}
EndFrame == [op : EndOps, loader : Loaders,
             stage : {"told", "removed"}]
\* ContainerNode attach, between suspending and resuming the scheduler.
AttachFrame == [op : {"attach"}]

Frame == ServeFrame \cup SnapshotFrame \cup SweepFrame \cup EndFrame \cup AttachFrame

Top == Head(stack)
Running(op) == stack # <<>> /\ Top.op = op
Push(f) == stack' = <<f>> \o stack
Pop == stack' = Tail(stack)

\* Mutant: the loop starts at the minimum priority.
ServeFromMinimum(h, p) == [op |-> "serve", host |-> h, prio |-> p, min |-> p]
Serve(h, p) == [op |-> "serve", host |-> h, prio |-> High, min |-> p]
End(op, l, stage) == [op |-> op, loader |-> l, stage |-> stage]

On(f) == \E i \in DOMAIN stack : stack[i] = f
\* SubresourceLoader::m_client is clear: its client, the memory cache's Loader,
\* clears it when it is told of a failure.
ClientCleared(l) == On(End("didFail", l, "told")) \/ On(End("didCancel", l, "told"))
\* Where a failing loader begins.
FailStage(l) == IF ClientCleared(l) THEN "removed" ELSE "told"

\* Code outside the component runs.
InControl ==
    stack # <<>> => Top.op \in EndOps \cup {"attach"}
Calls == {i \in DOMAIN stack : stack[i].op \in EndOps \cup {"attach"}}
MayCall == Cardinality(Calls) < MaxCalls
\* Mutant: every call to a client runs the timers.
TimersRunInCalls == InControl
\* Timers fire from the event loop; a modal dialog or a plug-in that is being
\* attached spins one of its own, with the network loads deferred.
TimersRun == stack = <<>> \/ (NestedEventLoop /\ InControl)

------------------------------------------------------------------------------
(***************************************************************************)
(* Queries and updates of HostInformation.                                 *)
(***************************************************************************)
\* Mutant: the queues are forgotten.
HasLoading(h) == loading[h] # {}
HasRequests(h) == loading[h] # {} \/ \E p \in Priority : pending[h][p] # <<>>

\* Mutant: one load too many.
LimitExceeded(h) ==
    Cardinality(loading[h]) > IF h = NonHTTP THEN MaxNonHTTP ELSE MaxPerHost
LimitRequests(h) ==
    Cardinality(loading[h]) >= IF h = NonHTTP THEN MaxNonHTTP ELSE MaxPerHost

\* Named hosts are always limited, the others while the document parses.
ShouldLimit(h) == h # NonHTTP \/ parsing

\* Mutant: the host without a name gets an entry on the map.
WithAnyHost(h) == hostMap \cup {h}
\* hostForURL(url, CreateIfNotFound) on the map of hosts.
WithHost(h) == hostMap \cup ({h} \ {NonHTTP})
Known(h) == h = NonHTTP \/ h \in hostMap

Dequeued(q, l) == RemoveAt(q, CHOOSE i \in DOMAIN q : q[i] = l)

\* Mutant: the pending queues are not searched.
RemoveLoading(h, l) ==
    /\ loading' = [loading EXCEPT ![h] = @ \ {l}]
    /\ UNCHANGED pending
\* HostInformation::remove of l from host h: from the loads in flight if it
\* is there, else from the pending queue it waits in.
RemoveFromHost(h, l) ==
    IF Known(h) /\ l \in loading[h]
    THEN /\ loading' = [loading EXCEPT ![h] = @ \ {l}]
         /\ UNCHANGED pending
    ELSE /\ pending' = IF ~Known(h) THEN pending
                       ELSE [pending EXCEPT ![h] =
                                [p \in Priority |-> IF l \in ToSet(@[p])
                                                    THEN Dequeued(@[p], l)
                                                    ELSE @[p]]]
         /\ UNCHANGED loading

------------------------------------------------------------------------------
Init ==
    /\ hostMap = {}
    /\ pending = [h \in AllHosts |-> [p \in Priority |-> <<>>]]
    /\ loading = [h \in AllHosts |-> {}]
    /\ timer = FALSE
    /\ suspended = FALSE
    /\ parsing \in BOOLEAN
    /\ phase = [l \in Loaders |-> "new"]
    /\ url = [l \in Loaders |-> NonHTTP]
    /\ defers = [l \in Loaders |-> FALSE]
    /\ admitted = {}
    /\ stack = <<>>

(***************************************************************************)
(* Entry points of the scheduler.                                          *)
(***************************************************************************)
\* SubresourceLoader::create and scheduleLoad.  A loader takes the deferral
\* of its page.  What is urgent is served before the call returns, even when
\* pending requests are suspended.
ScheduleLoad(l, h, p, d) ==
    /\ InControl
    /\ phase[l] = "new"
    /\ phase' = [phase EXCEPT ![l] = "pending"]
    /\ url' = [url EXCEPT ![l] = h]
    /\ defers' = [defers EXCEPT ![l] = d]
    /\ hostMap' = WithHost(h)
    /\ pending' = [pending EXCEPT ![h][p] = Append(@, l)]
    /\ IF p > Low \/ h = NonHTTP \/ (p = Low /\ ~HasRequests(h))
       THEN Push(Serve(h, p)) /\ UNCHANGED timer
       ELSE timer' = TRUE /\ UNCHANGED stack
    /\ UNCHANGED <<loading, suspended, parsing, admitted>>

\* MainResourceLoader::loadNow and addMainResourceLoad: no queue, no limit.
AddMainResourceLoad(l, h) ==
    /\ InControl
    /\ phase[l] = "new"
    /\ phase' = [phase EXCEPT ![l] = "inFlight"]
    /\ url' = [url EXCEPT ![l] = h]
    /\ hostMap' = WithHost(h)
    /\ loading' = [loading EXCEPT ![h] = @ \cup {l}]
    /\ UNCHANGED <<pending, timer, suspended, parsing, defers, admitted, stack>>

\* The handle follows a redirect: crossOriginRedirectReceived, after which
\* m_request is the new request.  The new host is not asked for its limit
\* and the old host's pending loads are not served.
Redirect(l, h) ==
    /\ stack = <<>>
    /\ phase[l] = "inFlight"
    /\ ~defers[l]
    /\ Known(url[l])
    /\ hostMap' = WithHost(h)
    /\ IF url[l] = h
       THEN UNCHANGED <<pending, loading, admitted>>
       ELSE /\ loading' = [loading EXCEPT ![h] = @ \cup {l},
                                          ![url[l]] = @ \ {l}]
            /\ admitted' = admitted \ {l}
            /\ UNCHANGED pending
    /\ url' = [url EXCEPT ![l] = h]
    /\ UNCHANGED <<timer, suspended, parsing, phase, defers, stack>>

\* ContainerNode::suspendPostAttachCallbacks at the outermost attach.
SuspendPendingRequests ==
    /\ InControl
    /\ MayCall
    /\ ~suspended
    /\ suspended' = TRUE
    /\ Push([op |-> "attach"])
    /\ UNCHANGED <<hostMap, pending, loading, timer, parsing, loaderVars, admitted>>

\* Mutant: the timer is set only for the host without a name.
ResumeUnnamed ==
    /\ Running("attach")
    /\ suspended' = FALSE
    /\ timer' = (timer \/ HasRequests(NonHTTP))
    /\ Pop
    /\ UNCHANGED <<hostMap, pending, loading, parsing, loaderVars, admitted>>

ResumePendingRequests ==
    /\ Running("attach")
    /\ suspended' = FALSE
    /\ timer' = (timer \/ hostMap # {} \/ HasRequests(NonHTTP))
    /\ Pop
    /\ UNCHANGED <<hostMap, pending, loading, parsing, loaderVars, admitted>>

\* The document starts or stops parsing, or its style sheets arrive.
SetParsing(b) ==
    /\ InControl
    /\ parsing' = b
    /\ UNCHANGED <<hostMap, pending, loading, timer, suspended, loaderVars,
                   admitted, stack>>

------------------------------------------------------------------------------
(***************************************************************************)
(* ResourceLoader::start and what the embedder makes of the request.       *)
(***************************************************************************)
\* The request is sent as it is, or deferred.
SendAs(l, h, defer) ==
    /\ url' = [url EXCEPT ![l] = h]
    /\ phase' = [phase EXCEPT ![l] = IF defer THEN "deferred" ELSE "inFlight"]

\* A request the embedder clears fails at once: the loader runs didFail
\* before start returns, and its URL is no longer that of its host.
Start(l, defer, below) ==
    \/ /\ "keep" \in InitialSend
       /\ SendAs(l, url[l], defer)
       /\ stack' = below
    \/ /\ "rewrite" \in InitialSend
       /\ \E h \in Hosts : SendAs(l, h, defer)
       /\ stack' = below
    \/ /\ "null" \in InitialSend
       /\ url' = [url EXCEPT ![l] = NonHTTP]
       /\ phase' = [phase EXCEPT ![l] = "inFlight"]
       /\ stack' = <<End("didFail", l, FailStage(l))>> \o below

(***************************************************************************)
(* servePendingRequests of one host.                                       *)
(***************************************************************************)
\* The queues the loop still has to look at.
Waiting(f) == {p \in f.min..f.prio : pending[f.host][p] # <<>>}

\* requestsPending(p).first() leaves its queue, takes a slot and starts.
ServeStart ==
    /\ Running("serve")
    /\ \E p \in Waiting(Top) :
          LET h == Top.host
              l == Head(pending[h][p])
          IN /\ \A q \in Waiting(Top) : q <= p
             /\ ~(ShouldLimit(h) /\ LimitRequests(h))
             /\ pending' = [pending EXCEPT ![h][p] = Tail(@)]
             /\ loading' = [loading EXCEPT ![h] = @ \cup {l}]
             /\ admitted' = IF ShouldLimit(h) THEN admitted \cup {l} ELSE admitted
             /\ Start(l, defers[l], <<[Top EXCEPT !.prio = p]>> \o Tail(stack))
    /\ UNCHANGED <<hostMap, timer, suspended, parsing, defers>>

\* Nothing left to serve, or the limit is reached: return.
ServeReturn ==
    /\ Running("serve")
    /\ Waiting(Top) # {} => ShouldLimit(Top.host) /\ LimitRequests(Top.host)
    /\ Pop
    /\ UNCHANGED <<schedulerVars, loaderVars, admitted>>

(***************************************************************************)
(* requestTimerFired: serve the host without a name, then every host that  *)
(* is on the map by then, dropping the idle ones.                          *)
(***************************************************************************)
TimerFires ==
    /\ TimersRun
    /\ timer
    /\ timer' = FALSE
    /\ IF suspended
       THEN UNCHANGED stack
       ELSE stack' = <<Serve(NonHTTP, VeryLow), [op |-> "snapshot"]>> \o stack
    /\ UNCHANGED <<hostMap, pending, loading, suspended, parsing, loaderVars, admitted>>

SnapshotHosts ==
    /\ Running("snapshot")
    /\ stack' = <<[op |-> "sweep", todo |-> hostMap]>> \o Tail(stack)
    /\ UNCHANGED <<schedulerVars, loaderVars, admitted>>

SweepHost(h) ==
    /\ Running("sweep")
    /\ h \in Top.todo
    /\ LET rest == <<[Top EXCEPT !.todo = @ \ {h}]>> \o Tail(stack)
       IN IF HasRequests(h)
          THEN stack' = <<Serve(h, VeryLow)>> \o rest /\ UNCHANGED hostMap
          ELSE stack' = rest /\ hostMap' = hostMap \ {h}
    /\ UNCHANGED <<pending, loading, timer, suspended, parsing, loaderVars, admitted>>

SweepReturn ==
    /\ Running("sweep")
    /\ Top.todo = {}
    /\ Pop
    /\ UNCHANGED <<schedulerVars, loaderVars, admitted>>

------------------------------------------------------------------------------
(***************************************************************************)
(* The end of a load.  SubresourceLoader::didFinishLoading, didFail and    *)
(* didCancel tell the client, give up if the load was cancelled meanwhile, *)
(* leave the document loader, whose checkLoadComplete calls out again, and *)
(* release the slot.                                                       *)
(***************************************************************************)
\* The loader is in DocumentLoader::m_subresourceLoaders.
Attached(l) ==
    /\ phase[l] \in Active
    /\ \A op \in EndOps : ~On(End(op, l, "removed"))

\* Mutant: a nested event loop does not defer the network.
HandleReportsInCalls(l) == InControl /\ phase[l] = "inFlight" /\ ~defers[l]
HandleReports(l) == stack = <<>> /\ phase[l] = "inFlight" /\ ~defers[l]

DidFinishLoading(l) ==
    /\ HandleReports(l)
    /\ Push(End("didFinish", l, "told"))
    /\ UNCHANGED <<schedulerVars, loaderVars, admitted>>

DidFail(l) ==
    /\ HandleReports(l)
    /\ Push(End("didFail", l, "told"))
    /\ UNCHANGED <<schedulerVars, loaderVars, admitted>>

\* ResourceLoader::cancel, by the document loader or by the client, both of
\* which know the loader only while it is attached.
Cancel(l) ==
    /\ InControl
    /\ MayCall
    /\ Attached(l)
    /\ Push(End("didCancel", l, FailStage(l)))
    /\ UNCHANGED <<schedulerVars, loaderVars, admitted>>

\* Back from the client: a load cancelled meanwhile has ended already, and a
\* didCancel that finds a terminal loader returns too.
EndReturnsEarly(l) ==
    /\ \E op \in EndOps :
          /\ Running(op)
          /\ Top = End(op, l, "told")
          /\ phase[l] = "cancelled" \/ (op = "didCancel" /\ phase[l] \in Terminal)
    /\ Pop
    /\ UNCHANGED <<schedulerVars, loaderVars, admitted>>

\* Otherwise removeSubresourceLoader.
LeaveDocumentLoader(l) ==
    /\ \E op \in EndOps :
          /\ Running(op)
          /\ Top = End(op, l, "told")
          /\ phase[l] # "cancelled"
          /\ op = "didCancel" => phase[l] \notin Terminal
          /\ stack' = <<End(op, l, "removed")>> \o Tail(stack)
    /\ UNCHANGED <<schedulerVars, loaderVars, admitted>>

\* ResourceLoader's own didFinishLoading, didFail and didCancel, which end in
\* releaseResources and so in ResourceLoadScheduler::remove.
ReleaseResources(l) ==
    /\ \E op \in EndOps :
          /\ Running(op)
          /\ Top = End(op, l, "removed")
          /\ phase' = [phase EXCEPT ![l] = IF op = "didCancel" THEN "cancelled"
                                                              ELSE "ended"]
    /\ RemoveFromHost(url[l], l)
    /\ timer' = TRUE
    /\ admitted' = admitted \ {l}
    /\ url' = [url EXCEPT ![l] = NonHTTP]
    /\ defers' = [defers EXCEPT ![l] = FALSE]
    /\ Pop
    /\ UNCHANGED <<hostMap, suspended, parsing>>

\* ResourceLoader::setDefersLoading: a load that was deferred when it started
\* starts anew.
SetDefersLoading(l, b) ==
    /\ InControl
    /\ Attached(l)
    /\ defers' = [defers EXCEPT ![l] = b]
    /\ IF ~b /\ phase[l] = "deferred"
       THEN Start(l, FALSE, stack)
       ELSE UNCHANGED <<url, phase, stack>>
    /\ UNCHANGED <<schedulerVars, admitted>>

------------------------------------------------------------------------------
Callers ==
    \/ \E l \in Loaders, h \in AllHosts, p \in Priorities, d \in Deferrals :
          ScheduleLoad(l, h, p, d)
    \/ \E l \in Loaders, h \in AllHosts : AddMainResourceLoad(l, h)
    \/ \E l \in Loaders, b \in Deferrals : SetDefersLoading(l, b)
    \/ \E l \in Loaders : Cancel(l)
    \/ SuspendPendingRequests
    \/ \E b \in BOOLEAN : SetParsing(b)

Network == \E l \in Loaders :
    DidFinishLoading(l) \/ DidFail(l) \/ \E h \in AllHosts : Redirect(l, h)

Scheduler ==
    ServeStart \/ ServeReturn \/ SnapshotHosts \/ SweepReturn
    \/ \E h \in Hosts : SweepHost(h)

\* What is left of a call once the functions it called have returned.
Ending(l) == EndReturnsEarly(l) \/ LeaveDocumentLoader(l) \/ ReleaseResources(l)

Next ==
    \/ Callers
    \/ Network
    \/ Scheduler
    \/ TimerFires
    \/ ResumePendingRequests
    \/ \E l \in Loaders : Ending(l)

Spec == Init /\ [][Next]_vars

(***************************************************************************)
(* The outer event loop serves its timers, calls return, and a handle that *)
(* is not deferred for good answers or fails.                              *)
(***************************************************************************)
Fairness ==
    /\ WF_vars(Scheduler)
    /\ SF_vars(stack = <<>> /\ TimerFires)
    /\ SF_vars(ResumePendingRequests)
    /\ \A l \in Loaders : SF_vars(Ending(l))
    /\ \A l \in Loaders : SF_vars(DidFinishLoading(l) \/ DidFail(l))

FairSpec == Spec /\ Fairness

------------------------------------------------------------------------------
\* The type of the state.
TypeOK ==
    /\ hostMap \subseteq Hosts
    /\ pending \in [AllHosts -> [Priority -> Seq(Loaders)]]
    /\ loading \in [AllHosts -> SUBSET Loaders]
    /\ timer \in BOOLEAN
    /\ suspended \in BOOLEAN
    /\ parsing \in BOOLEAN
    /\ phase \in [Loaders -> Phases]
    /\ url \in [Loaders -> AllHosts]
    /\ defers \in [Loaders -> BOOLEAN]
    /\ admitted \subseteq Loaders
    /\ stack \in Seq(Frame)

\* A load that waits is queued at the host of its URL, and only loads that
\* wait are queued, each once.
QueuedOnce ==
    /\ \A l \in Loaders : phase[l] = "pending" =>
          \E p \in Priority : l \in ToSet(pending[url[l]][p])
    /\ \A h \in AllHosts, p \in Priority :
          /\ \A l \in ToSet(pending[h][p]) : phase[l] = "pending" /\ url[l] = h
          /\ IsInjective(pending[h][p])
    /\ \A h \in AllHosts, p, q \in Priority :
          p # q => ToSet(pending[h][p]) \cap ToSet(pending[h][q]) = {}

\* A load that has started holds a slot of the host of its URL until it has
\* ended, and no other slot: remove, which looks only at that host, finds it.
SlotsHeld ==
    \A l \in Loaders, h \in AllHosts :
        l \in loading[h] <=> phase[l] \in {"inFlight", "deferred"} /\ url[l] = h

\* Every load is where the scheduler will find it, through redirects, cancels
\* from inside callbacks and restarts of deferred loads.
SlotOwnership == QueuedOnce /\ SlotsHeld

\* HostInformation's destructor asserts that nothing is left in it: a host
\* that is not on the map has no load waiting and none in flight.
DroppedHostsAreIdle ==
    \A h \in Hosts \ hostMap :
        loading[h] = {} /\ \A p \in Priority : pending[h][p] = <<>>

\* The hosts a sweep has copied, and the host it is serving, stay on the map:
\* the pointers in hostsToServe do not dangle.
ServedHostsExist ==
    \A i \in DOMAIN stack :
        /\ stack[i].op = "serve" => Known(stack[i].host)
        /\ stack[i].op = "sweep" => stack[i].todo \subseteq hostMap

\* "we should always enforce the connection limit": the loads that took their
\* slot from the queue, and have not been redirected since, are never more
\* than the host's limit.
LimitHonoured ==
    \A h \in Hosts : Cardinality(loading[h] \cap admitted) <= MaxPerHost

\* No lost wakeup.  When the event loop is idle and a load waits at a host with
\* a free slot, the timer is set; or the slot came free without a remove,
\* through a redirect or the end of parsing, and a load in flight will do it.
NoLostWakeup ==
    stack = <<>> =>
        \A h \in AllHosts :
            /\ \E p \in Priority : pending[h][p] # <<>>
            /\ ~(ShouldLimit(h) /\ LimitRequests(h))
            => \/ timer
               \/ h = NonHTTP /\ loading[h] # {}
               \/ \E g \in AllHosts : loading[g] \ admitted # {}

\* "The only way the subresource loader can reach the terminal state here is if
\* the run loop spins": a didCancel back from its client finds the load
\* cancelled or still going, never ended otherwise.
CancelFindsNoEndedLoad ==
    \A l \in Loaders : On(End("didCancel", l, "told")) => phase[l] # "ended"

\* A load ends once, whatever its client does from inside the calls that tell
\* it so: releaseResources never sees a terminal loader.
EndsOnce ==
    /\ CancelFindsNoEndedLoad
    /\ \A l \in Loaders, op \in EndOps :
          On(End(op, l, "removed")) => phase[l] \in Active

\* crossOriginRedirectReceived asserts that it finds the old host: a load that
\* a server may redirect has the host of its URL on the map.
RedirectFindsOldHost ==
    \A l \in Loaders : phase[l] = "inFlight" => Known(url[l])

\* A load leaves the queue of a host for a slot in the order of priority, and
\* among equals in the order in which the loads were scheduled.
StartsInOrder ==
    [][\A h \in AllHosts, p \in Priority : \A i \in DOMAIN pending[h][p] :
          pending[h][p][i] \in loading'[h] =>
              /\ i = 1
              /\ \A q \in Priority : q > p => pending[h][q] = <<>>]_vars

\* Every load that is scheduled starts or is cancelled.
EveryLoadLeavesTheQueue ==
    \A l \in Loaders : phase[l] = "pending" ~> phase[l] # "pending"

\* A host without requests is dropped from the map, or used again.
IdleHostsAreDropped ==
    \A h \in Hosts :
        h \in hostMap /\ ~HasRequests(h) ~> h \notin hostMap \/ HasRequests(h)

------------------------------------------------------------------------------
(***************************************************************************)
(* The scheduler implements LoadSlots.  Where a load is, is read off the   *)
(* structures of the scheduler, not off the loader.                        *)
(***************************************************************************)
Queued(l, h) == \E p \in Priority : l \in ToSet(pending[h][p])

slotStatus ==
    [l \in Loaders |->
        IF \E h \in AllHosts : l \in loading[h] THEN "open"
        ELSE IF \E h \in AllHosts : Queued(l, h) THEN "waiting"
        ELSE IF phase[l] = "new" THEN "unscheduled" ELSE "closed"]
slotHost ==
    [l \in Loaders |->
        IF \E h \in AllHosts : l \in loading[h] \/ Queued(l, h)
        THEN CHOOSE h \in AllHosts : l \in loading[h] \/ Queued(l, h)
        ELSE NonHTTP]

Slots == INSTANCE LoadSlots WITH Loads <- Loaders, Unnamed <- NonHTTP,
    Limit <- MaxPerHost, status <- slotStatus, at <- slotHost

\* A load takes one slot, at most once, within the limit unless it is a main
\* resource or was redirected, and gives it back for good.
ImplementsLoadSlots == Slots!Spec
=============================================================================
