----------------------------- MODULE CounterSale -----------------------------
(***************************************************************************)
(* What the sales counter promises of each cart, whatever the number of     *)
(* requests, retries and cleanup runs: a cart is offered, billed and sold   *)
(* at most once, a sold cart stays sold, and goods leave the shelf only in  *)
(* the step that sells a cart.                                              *)
(***************************************************************************)
EXTENDS Naturals

CONSTANTS Carts, Products

VARIABLES
    phase,  \* of each cart
    left    \* units of each product that have left the shelf

Phases == {"absent", "open", "offered", "billed", "sold", "cancelled", "dropped", "gone"}

Init == phase = [c \in Carts |-> "absent"] /\ left = [p \in Products |-> 0]

\* One cart moves from one of the phases From to phase to.
Move(From, to) == \E c \in Carts : /\ phase[c] \in From
                                   /\ phase' = [phase EXCEPT ![c] = to]

Start   == Move({"absent"}, "open") /\ UNCHANGED left
Offer   == Move({"open"}, "offered") /\ UNCHANGED left
Bill    == Move({"open", "offered"}, "billed") /\ UNCHANGED left
Sell    == Move({"open", "billed"}, "sold") /\ \A p \in Products : left'[p] >= left[p]
Cancel  == Move({"billed"}, "cancelled") /\ UNCHANGED left
Drop    == Move({"open"}, "dropped") /\ UNCHANGED left
PickUp  == Move({"dropped"}, "open") /\ UNCHANGED left
Discard == Move({"open"}, "gone") /\ UNCHANGED left

Next == Start \/ Offer \/ Bill \/ Sell \/ Cancel \/ Drop \/ PickUp \/ Discard

Spec == Init /\ [][Next]_<<phase, left>>
==============================================================================
