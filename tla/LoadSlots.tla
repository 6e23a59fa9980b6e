------------------------------ MODULE LoadSlots ------------------------------
(***************************************************************************)
(* What ResourceLoadScheduler promises, without queues, timers or          *)
(* callbacks: a load waits at a host, is granted a slot of that host if    *)
(* fewer than the limit are taken, may be moved to another host, and is    *)
(* closed once, after which it never comes back.                           *)
(***************************************************************************)
EXTENDS Integers, FiniteSets

CONSTANTS Loads, Hosts, Unnamed, Limit

VARIABLES status, at

AllHosts == Hosts \cup {Unnamed}
Open(h) == {l \in Loads : status[l] = "open" /\ at[l] = h}

Init ==
    /\ status = [l \in Loads |-> "unscheduled"]
    /\ at = [l \in Loads |-> Unnamed]

\* A load is scheduled, or is a main resource, which takes a slot unasked.
Request(l, h) ==
    /\ status[l] = "unscheduled"
    /\ \E s \in {"waiting", "open"} : status' = [status EXCEPT ![l] = s]
    /\ at' = [at EXCEPT ![l] = h]

Grant(l) ==
    /\ status[l] = "waiting"
    /\ at[l] \in Hosts => Cardinality(Open(at[l])) < Limit
    /\ status' = [status EXCEPT ![l] = "open"]
    /\ UNCHANGED at

Move(l, h) ==
    /\ status[l] = "open"
    /\ at' = [at EXCEPT ![l] = h]
    /\ UNCHANGED status

Close(l) ==
    /\ status[l] \in {"waiting", "open"}
    /\ status' = [status EXCEPT ![l] = "closed"]
    /\ at' = [at EXCEPT ![l] = Unnamed]

Next == \E l \in Loads :
    \/ Grant(l)
    \/ Close(l)
    \/ \E h \in AllHosts : Request(l, h) \/ Move(l, h)

Spec == Init /\ [][Next]_<<status, at>>
=============================================================================
