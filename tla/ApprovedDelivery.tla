-------------------------- MODULE ApprovedDelivery --------------------------
(***************************************************************************)
(* What the release gate promises about a run root, with no word on how:   *)
(* bundles of tarballs are offered for approval, approved and delivered,   *)
(* one delivery at a time, and a delivery delivers the bundle that was     *)
(* approved when it began.  Nothing is promised about a run root that two  *)
(* gates share.                                                            *)
(***************************************************************************)
CONSTANTS
    Gates,      \* gate processes
    None        \* no bundle, no delivery

VARIABLES
    offer,      \* the bundle that awaits approval
    approved,   \* the bundle the operator approved last
    delivery,   \* [Gates -> None, or a bundle and whether it is delivered]
    shared      \* two gates ran in the run root at the same time

vars == <<offer, approved, delivery, shared>>

Init ==
    /\ offer = None
    /\ approved = None
    /\ delivery = [g \in Gates |-> None]
    /\ shared = FALSE

Pending(g) == delivery[g] # None /\ ~delivery[g].done
Quiet == \A g \in Gates : ~Pending(g)

(* An offer never gives a Harness file that was offered before another     *)
(* meaning: plans name that file and nothing else.                         *)
Agree(b, c) == c # None /\ b["harness"].file = c["harness"].file => b = c

Offer ==
    /\ Quiet
    /\ offer' # None
    /\ Agree(offer', offer) /\ Agree(offer', approved)
    /\ UNCHANGED <<approved, delivery>>

(* The offer is lost with the process that was writing it.                 *)
Withdraw ==
    /\ Quiet
    /\ offer' = None
    /\ UNCHANGED <<approved, delivery>>

Approve ==
    /\ offer # None
    /\ approved' = offer
    /\ UNCHANGED <<offer, delivery>>

Begin(g) ==
    /\ Quiet
    /\ approved # None
    /\ delivery' = [delivery EXCEPT ![g] = [bundle |-> approved, done |-> FALSE]]
    /\ UNCHANGED <<offer, approved>>

Deliver(g) ==
    /\ Pending(g)
    /\ delivery' = [delivery EXCEPT ![g].done = TRUE]
    /\ UNCHANGED <<offer, approved>>

(* The delivery fails, or its process starts on something else.            *)
Abandon(g) ==
    /\ delivery' = [delivery EXCEPT ![g] = None]
    /\ UNCHANGED <<offer, approved>>

Share ==
    /\ shared' = TRUE
    /\ offer' = None
    /\ approved' = None
    /\ delivery' = [g \in Gates |-> None]

Next ==
    /\ ~shared
    /\ \/ Share
       \/ /\ UNCHANGED shared
          /\ \/ Offer
             \/ Withdraw
             \/ Approve
             \/ \E g \in Gates : Begin(g) \/ Deliver(g) \/ Abandon(g)

Spec == Init /\ [][Next]_vars
=============================================================================
