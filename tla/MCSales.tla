-------------------------------- MODULE MCSales --------------------------------
(***************************************************************************)
(* Instances of StockLedger, of SalePricing and of CounterScreen.  They share no  *)
(* state: an initial choice says which one moves, and their states add up.       *)
(***************************************************************************)
EXTENDS MCStockLedger, SalePricing, CounterScreen

CONSTANTS notes, discount, customer   \* the fields of the page

VARIABLE moves            \* the component that moves

salesVars == <<vars, pricingVars, counterVars, moves>>

\* A taxed product at two prices and an exempt one.
Prices(standard, technician, retail, wholesale, from, cost, taxable) ==
    [standard |-> standard, technician |-> technician, retail |-> retail,
     wholesale |-> wholesale, from |-> from, cost |-> cost, taxable |-> taxable]

MCOffers ==
    {Prices(25, 22, 27, 21, 2, 18, TRUE), Prices(27, Unset, Unset, Unset, 0, 20, TRUE),
     Prices(24, Unset, Unset, Unset, 0, 18, FALSE)}

MCLimits ==
    {[manager |-> TRUE, percent |-> Unset, amount |-> Unset],
     [manager |-> FALSE, percent |-> 10, amount |-> 3]}

MCMostOf == [p \in Goods |-> IF p = cable THEN 2 ELSE 1]

MCSent ==
    {[p \in Goods |-> [qty |-> 1, price |-> 0, off |-> IF p = cable THEN 0 ELSE d]] : d \in {0, 2}}

\* The page in three parts: the lines alone; one field and one change of the lines;
\* all fields and no change of the lines.
PagePart ==
    /\ CounterNext
    /\ moves = "lines" => wires'["details"] = NoWire /\ field' = field /\ modal' = "none"
    /\ moves = "field" => /\ modal' # notes /\ saved'.lines \in {0, 1}
                          /\ wires'["discount"] = NoWire
                          /\ \A f \in {notes, customer} : field'[f] = field[f]
    /\ moves = "fields" => /\ saved'.lines = 0
                           /\ \A k \in {"adjust", "discount"} : wires'[k] = NoWire

SalesInit ==
    /\ Init /\ PricingInit /\ CounterInit
    /\ saved = Blank
    /\ moves \in {"stock", "prices", "lines", "field", "fields"}
    /\ moves # "prices" =>
          /\ offer = [p \in Goods |-> Prices(25, 22, 27, 21, 2, 18, TRUE)]
          /\ limit.manager /\ till.category = "retail"
    /\ moves # "stock" => \A p \in Products : OnHand(p) = 0

SalesNext ==
    /\ \/ moves = "stock" /\ Next /\ UNCHANGED <<pricingVars, counterVars>>
       \/ moves = "prices" /\ PricingNext /\ UNCHANGED <<vars, counterVars>>
       \/ moves \in {"lines", "field", "fields"} /\ PagePart /\ UNCHANGED <<vars, pricingVars>>
    /\ UNCHANGED moves

SalesSpec == SalesInit /\ [][SalesNext]_salesVars
================================================================================
