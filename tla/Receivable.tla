----------------------------- MODULE Receivable -----------------------------
(***************************************************************************)
(* What an invoice promises its customer and the accounts, without rows,     *)
(* stock or periods: an amount due, what has been settled of it, and whether *)
(* it is a draft, a debt, or closed.  A debt can be settled only up to what  *)
(* is due and the cent that rounding may add, its amount is fixed, and it is  *)
(* closed only while unsettled.                                              *)
(***************************************************************************)
EXTENDS Integers

CONSTANTS Accounts, Limit,  \* invoices, and the largest amount due
          Rounding          \* what a credit may be over by

VARIABLES due, settled, phase

rvars == <<due, settled, phase>>

RInit ==
    /\ due = [i \in Accounts |-> 0]
    /\ settled = [i \in Accounts |-> 0]
    /\ phase = [i \in Accounts |-> "none"]

\* A new draft or debt appears, or a draft is revised.
Bill(i) ==
    /\ phase[i] \in {"none", "draft"}
    /\ \E t \in 0..Limit : due' = [due EXCEPT ![i] = t]
    /\ \E p \in {"draft", "open"} : phase' = [phase EXCEPT ![i] = p]
    /\ UNCHANGED settled

\* Money or a credit settles a part of a debt, or a credit is taken back.
Settle(i) ==
    /\ phase[i] = "open"
    /\ \E s \in 0..(due[i] + Rounding) : settled' = [settled EXCEPT ![i] = s]
    /\ UNCHANGED <<due, phase>>

\* A debt nothing was settled of is cancelled.
Close(i) ==
    /\ phase[i] = "open" /\ settled[i] = 0
    /\ phase' = [phase EXCEPT ![i] = "closed"]
    /\ UNCHANGED <<due, settled>>

\* A debt nothing was settled of is closed in favour of a new draft.
Replace(i, j) ==
    /\ phase[i] = "open" /\ settled[i] = 0
    /\ phase[j] = "none"
    /\ phase' = [phase EXCEPT ![i] = "closed", ![j] = "draft"]
    /\ \E t \in 0..Limit : due' = [due EXCEPT ![j] = t]
    /\ UNCHANGED settled

RNext ==
    \/ \E i \in Accounts : Bill(i) \/ Settle(i) \/ Close(i)
    \/ \E i, j \in Accounts : Replace(i, j)

RSpec == RInit /\ [][RNext]_rvars
=============================================================================
