---------------------------- MODULE MCStockLedger ----------------------------
(* Instances of StockLedger for model checking: one quantity-based product    *)
(* and one sold by serial number.                                           *)
EXTENDS StockLedger, TLC

CONSTANTS cable, modem

MCProducts   == {cable, modem}
MCSerialized == {modem}

\* Up to one of each product, with serial numbers S on the modem line and
\* those of T, by mistake, on the cable line.
Lines(cables, modems, S, T) ==
    [qty     |-> [p \in MCProducts |-> IF p = modem THEN modems ELSE cables],
     serials |-> [p \in MCProducts |-> IF p = modem THEN S ELSE T]]

MCOrders ==
    {Lines(1, 0, {}, {}), Lines(0, 1, {}, {})}
    \cup {Lines(0, 1, {s}, {}) : s \in Serials}
    \cup {Lines(1, 1, {s}, {}) : s \in Serials}
    \cup {Lines(1, 1, {s}, {s}) : s \in Serials}

\* The same without a modem line alone that has its serial number.
MCMixedOrders ==
    {Lines(1, 0, {}, {}), Lines(0, 1, {}, {})}
    \cup {Lines(1, 1, {s}, {}) : s \in Serials}
    \cup {Lines(1, 1, {s}, {s}) : s \in Serials}

\* Purchases, sales, serial numbers and requests are interchangeable.
Interchangeable == Permutations(Purchases) \cup Permutations(Sales)
                   \cup Permutations(Serials) \cup Permutations(Requests)
=============================================================================
