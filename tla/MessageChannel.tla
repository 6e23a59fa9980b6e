---------------------------- MODULE MessageChannel ----------------------------
(***************************************************************************)
(* Abstract specification: what each of the two directions between a       *)
(* Worker object and its script promises. Messages are numbered as they    *)
(* are posted. They arrive in that order, none twice and none skipped,     *)
(* until the channel is closed; then no more of them arrive.               *)
(***************************************************************************)
EXTENDS Naturals, Sequences

VARIABLES
    sent,       \* how many messages were posted
    received,   \* the numbers of those that arrived, in order of arrival
    open

vars == <<sent, received, open>>

Init ==
    /\ sent = 0
    /\ received = <<>>
    /\ open = TRUE

\* Whoever posts does not know whether the other end still listens.
Send ==
    /\ sent' = sent + 1
    /\ UNCHANGED <<received, open>>

Receive ==
    /\ open
    /\ Len(received) < sent
    /\ received' = Append(received, Len(received) + 1)
    /\ UNCHANGED <<sent, open>>

Close ==
    /\ open
    /\ open' = FALSE
    /\ UNCHANGED <<sent, received>>

Next == Send \/ Receive \/ Close

Spec == Init /\ [][Next]_vars

\* What was posted arrives, unless the channel closes first.
Delivery(n) == (sent >= n) ~> (Len(received) >= n \/ ~open)
=============================================================================
