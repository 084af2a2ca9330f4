---------------------------- MODULE MCSubscriptions ----------------------------
(* Instances of Subscriptions, and of what the lists say of them.            *)
EXTENDS CustomerWorklist, TLC

\* Ids are interchangeable: no action prefers one.
Interchangeable == Permutations(Subs) \cup Permutations(Invoices) \cup Permutations(Requests)

Unused(s) == /\ status'[s] = "active" /\ period'[s] = [m \in Starts |-> NoPeriod]
             /\ \A q \in Requests : req'[q].sub # s

PlainLines == unowed' = {} /\ \A i \in Invoices : said'[i] = 0

PlainDates == \A s \in Subs : from[s] = 1 /\ upto'[s] = NoEnd

\* A customer has one agreement with periods over all months, or two with fewer
\* months and invoices.  Of two that are billed and paid, one may begin in the
\* middle of a month and one end in one of two half months; or a line says the most months, whatever its period
\* does; or nothing is due on an invoice.
DeskNext ==
    /\ WorkNext
    /\ \/ /\ PlainLines /\ PlainDates
          /\ \A s, t \in Subs : s = t \/ Unused(s) \/ Unused(t)
       \/ /\ \A s \in Subs : period'[s][Horizon] = NoPeriod
          /\ Cardinality({ i \in Invoices : invoice'[i] # NoInvoice }) <= 2
          /\ \/ /\ PlainLines /\ \A s \in Subs : upto'[s] \in {2, 3, NoEnd}
                /\ Cardinality({ s \in Subs : upto'[s] # NoEnd }) <= 1
                /\ \A i \in Invoices : /\ invoice'[i].status \in {"absent", "issued", "paid"}
                                        /\ ~invoice'[i].credit
             \/ /\ PlainDates
                /\ \/ unowed' = {} /\ \A i \in Invoices : said'[i] \in {0, MaxMonths}
                   \/ Cardinality(unowed') <= 1 /\ \A i \in Invoices : said'[i] = 0

DeskInit ==
    /\ WorkInit
    /\ \E r \in Subs : from[r] \in {1, 2} /\ \A s \in Subs \ {r} : from[s] = 1

DeskSpec == DeskInit /\ [][DeskNext]_workVars

\* The rows alone.
RowsSpec == WorkInit /\ from = [s \in Subs |-> 1] /\ [][Next /\ UNCHANGED <<lineVars, dateVars>>]_workVars
================================================================================
