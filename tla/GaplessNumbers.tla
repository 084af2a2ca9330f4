---------------------------- MODULE GaplessNumbers ----------------------------
(***************************************************************************)
(* What document numbering promises: within a scope numbers are given one    *)
(* after the other, each to one document; a number is left out only because   *)
(* someone had typed it by hand before.                                      *)
(***************************************************************************)
EXTENDS Naturals

CONSTANTS Scopes, MaxNumber

VARIABLES
    last,  \* the last number given in each scope
    used   \* <<scope, number>> of the documents there are

Init == last = [s \in Scopes |-> 0] /\ used = {}

\* One transaction gives at most one number in each of the scopes S.
Give == \E S \in SUBSET Scopes :
           /\ \A s \in S : /\ last'[s] > last[s]
                           /\ <<s, last'[s]>> \notin used
                           /\ \A n \in (last[s] + 1)..(last'[s] - 1) : <<s, n>> \in used
           /\ \A s \in Scopes \ S : last'[s] = last[s]
           /\ used' = used \cup { <<s, last'[s]>> : s \in S }

Type == \E s \in Scopes, n \in 1..MaxNumber : /\ <<s, n>> \notin used
                                           /\ used' = used \cup {<<s, n>>}
                                           /\ UNCHANGED last

Next == Give \/ Type

Spec == Init /\ [][Next]_<<last, used>>
==============================================================================
