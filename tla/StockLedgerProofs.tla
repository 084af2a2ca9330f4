-------------------------- MODULE StockLedgerProofs --------------------------
(***************************************************************************)
(* Proofs about StockLedger for every catalogue, every set of documents and  *)
(* every order, with requests that may overlap; about SalePricing for every  *)
(* price, cost, discount and grant; and about PurchaseScreen, the import     *)
(* dialog, for any rows, requests and serial numbers.                        *)
(***************************************************************************)
EXTENDS StockLedger, SalePricing, PurchaseScreen, SumsTheorems

-----------------------------------------------------------------------------
(* Types.                                                                   *)

LEMMA QuantityIsNat == Quantity \subseteq Nat /\ 0 \in Quantity /\ Nothing \notin Quantity
  BY Bounds, NullId DEF Quantity

LEMMA NoLinesTyped == NoLines \in OrderLines
  BY DEF NoLines, OrderLines

LEMMA OrderTyped ==
    ASSUME NEW o \in OrderLines
    PROVE  /\ o.qty \in [Products -> Nat]
           /\ o.serials \in [Products -> SUBSET Serials]
           /\ Ordered(o) \subseteq Products
           /\ Cardinality(Ordered(o)) \in Nat
<1>1. o.qty \in [Products -> Nat] /\ o.serials \in [Products -> SUBSET Serials]
  BY DEF OrderLines
<1>2. Ordered(o) \subseteq Products
  BY DEF Ordered
<1>3. IsFiniteSet(Ordered(o))
  BY <1>2, Catalogue, FS_Subset
<1> QED
  BY <1>1, <1>2, <1>3, FS_CardinalityType

\* What is on hand before a movement is a quantity.
LEMMA OnHandTyped ==
    ASSUME TypeOK, NEW p \in Products
    PROVE  OnHand(p) \in Quantity
  BY DEF TypeOK, OnHand

\* A movement leaves typed balances, shelves and movements.
LEMMA MoveTyped ==
    ASSUME TypeOK, NEW D \in SUBSET Products, NEW delta \in [Products -> Int],
           NEW source \in Sources, Move(D, delta, source)
    PROVE  /\ balance' \in [Products -> Quantity \cup {Nothing}]
           /\ shelf' \in [Products -> Quantity]
           /\ movement' \in [Products -> [Sources -> Int]]
<1>1. \A p \in D : OnHand(p) + delta[p] \in Quantity
  <2> SUFFICES ASSUME NEW p \in D PROVE OnHand(p) + delta[p] \in Quantity
    OBVIOUS
  <2>1. p \in Products
    OBVIOUS
  <2>2. OnHand(p) \in Quantity
    BY <2>1, OnHandTyped
  <2>3. OnHand(p) \in Int
    BY <2>2, Bounds DEF Quantity
  <2>4. delta[p] \in Int
    BY <2>1
  <2> QED BY <2>3, <2>4, Bounds DEF Move, Sufficient, Quantity
<1>2. balance' \in [Products -> Quantity \cup {Nothing}]
  BY <1>1 DEF Move, TypeOK
<1>3. shelf' \in [Products -> Quantity]
  BY <1>1 DEF Move, TypeOK, ShelfAfter
<1>4. \A p \in D : Opening(p) \in Int
  <2> SUFFICES ASSUME NEW p \in D PROVE Opening(p) \in Int
    OBVIOUS
  <2>1. p \in Products /\ "legacy" \in Sources
    BY DEF Sources
  <2>2. movement[p]["legacy"] \in Int /\ shelf[p] \in Nat
    BY <2>1, QuantityIsNat DEF TypeOK
  <2> QED BY <2>2 DEF Opening
<1>5. movement' \in [Products -> [Sources -> Int]]
  <2> SUFFICES ASSUME NEW p \in D
               PROVE  [movement[p] EXCEPT !["legacy"] = Opening(p), ![source] = @ + delta[p]]
                          \in [Sources -> Int]
    BY DEF Move, TypeOK
  <2>1. movement[p] \in [Sources -> Int] /\ delta[p] \in Int
    BY DEF TypeOK
  <2>2. \A m \in Sources : movement[p][m] \in Int
    BY <2>1
  <2> QED BY <2>1, <2>2, <1>4
<1> QED BY <1>2, <1>3, <1>5

LEMMA TypeInit == Init => TypeOK
<1> SUFFICES ASSUME Init PROVE TypeOK
  OBVIOUS
<1>1. shelf \in [Products -> Quantity]
  BY Bounds DEF Init, Quantity
<1>2. NoUnit \in Unit /\ NoPurchase \in Purchase /\ NoEdit \in Edit
  BY NoLinesTyped, QuantityIsNat DEF NoUnit, Unit, NoPurchase, Purchase, NoEdit, Edit
<1>3. [status |-> "absent", lines |-> NoLines] \in Sale
  BY NoLinesTyped DEF Sale
<1> QED
  BY <1>1, <1>2, <1>3 DEF Init, TypeOK

LEMMA TypeStep == TypeOK /\ [Next]_vars => TypeOK'
<1> SUFFICES ASSUME TypeOK, [Next]_vars PROVE TypeOK'
  OBVIOUS
<1>a. /\ unit \in [Serials -> Unit] /\ purchase \in [Purchases -> Purchase]
      /\ sale \in [Sales -> Sale] /\ edit \in [Requests -> Edit]
      /\ shelf \in [Products -> Quantity]
      /\ balance \in [Products -> Quantity \cup {Nothing}]
      /\ movement \in [Products -> [Sources -> Int]]
  BY DEF TypeOK
<1>b. NoEdit \in Edit
  BY NoLinesTyped, QuantityIsNat DEF NoEdit, Edit
<1>1. ASSUME NEW u \in Purchases, NEW o \in Orders, CreatePurchase(u, o)
      PROVE  TypeOK'
  <2>1. [status |-> "draft", lines |-> o, posted |-> 0] \in Purchase
    BY OrdersTyped DEF Purchase
  <2> QED BY <1>1, <1>a, <2>1 DEF CreatePurchase, TypeOK
<1>2. ASSUME NEW q \in Requests, NEW u \in Purchases, ReadPurchase(q, u)
      PROVE  TypeOK'
  <2>1. [NoEdit EXCEPT !.op = "purchase", !.id = u] \in Edit
    BY <1>b DEF Edit
  <2> QED BY <1>2, <1>a, <2>1 DEF ReadPurchase, TypeOK
<1>3. ASSUME NEW q \in Requests, CheckPurchase(q)
      PROVE  TypeOK'
  BY <1>3, <1>a, ZenonT(60) DEF CheckPurchase, TypeOK, Edit
<1>4. ASSUME NEW q \in Requests, NEW o \in Orders, WritePurchase(q, o)
      PROVE  TypeOK'
  BY <1>4, <1>a, <1>b, OrdersTyped DEF WritePurchase, TypeOK, Purchase
<1>5. ASSUME NEW u \in Purchases, ConfirmPurchase(u)
      PROVE  TypeOK'
  <2> DEFINE o == purchase[u].lines
  <2>1. o \in OrderLines
    BY <1>a DEF Purchase
  <2>2. /\ o.qty \in [Products -> Int] /\ Ordered(o) \in SUBSET Products
        /\ Cardinality(Ordered(o)) \in Nat
    BY <2>1, OrderTyped
  <2>3. Move(Ordered(o), o.qty, "purchase")
    BY <1>5 DEF ConfirmPurchase
  <2>4. /\ balance' \in [Products -> Quantity \cup {Nothing}]
        /\ shelf' \in [Products -> Quantity]
        /\ movement' \in [Products -> [Sources -> Int]]
    <3> HIDE DEF o
    <3> QED BY <2>2, <2>3, MoveTyped DEF Sources
  <2>5. unit' \in [Serials -> Unit]
    <3>1. \A s \in Named(o) : ProductOf(o, s) \in Products
      BY DEF Named, ProductOf
    <3> QED BY <1>5, <1>a, <3>1 DEF ConfirmPurchase, Unit, NoUnit
  <2>6. purchase' \in [Purchases -> Purchase]
    BY <1>5, <1>a, <2>2, ZenonT(60) DEF ConfirmPurchase, Purchase
  <2> QED BY <1>5, <1>a, <2>4, <2>5, <2>6 DEF ConfirmPurchase, TypeOK
<1>6. ASSUME NEW u \in Purchases, CancelPurchase(u)
      PROVE  TypeOK'
  BY <1>6, <1>a DEF CancelPurchase, TypeOK, Purchase
<1>7. ASSUME NEW p \in Products, NEW n \in 1..MaxAdjusted, NEW S \in SUBSET Serials,
             AdjustUp(p, n, S)
      PROVE  TypeOK'
  <2>1. [r \in Products |-> n] \in [Products -> Int]
    BY Bounds
  <2>2. Move({p}, [r \in Products |-> n], "adjustment")
    BY <1>7 DEF AdjustUp
  <2>3. /\ balance' \in [Products -> Quantity \cup {Nothing}]
        /\ shelf' \in [Products -> Quantity]
        /\ movement' \in [Products -> [Sources -> Int]]
    BY <2>1, <2>2, MoveTyped DEF Sources
  <2>4. unit' \in [Serials -> Unit]
    BY <1>7, <1>a DEF AdjustUp, Unit, NoUnit
  <2> QED BY <1>7, <1>a, <2>3, <2>4 DEF AdjustUp, TypeOK
<1>8. ASSUME NEW p \in Products, NEW n \in 1..MaxAdjusted, NEW S \in SUBSET Serials,
             AdjustDown(p, n, S)
      PROVE  TypeOK'
  <2>1. [r \in Products |-> -n] \in [Products -> Int]
    BY Bounds
  <2>2. Move({p}, [r \in Products |-> -n], "adjustment")
    BY <1>8 DEF AdjustDown
  <2>3. /\ balance' \in [Products -> Quantity \cup {Nothing}]
        /\ shelf' \in [Products -> Quantity]
        /\ movement' \in [Products -> [Sources -> Int]]
    BY <2>1, <2>2, MoveTyped DEF Sources
  <2>4. unit' \in [Serials -> Unit]
    BY <1>8, <1>a, ZenonT(60) DEF AdjustDown, Unit
  <2> QED BY <1>8, <1>a, <2>3, <2>4 DEF AdjustDown, TypeOK
<1>9. ASSUME NEW a \in Sales, NEW o \in Orders, OpenSale(a, o)
      PROVE  TypeOK'
  <2>1. [status |-> "open", lines |-> o] \in Sale
    BY OrdersTyped DEF Sale
  <2> QED BY <1>9, <1>a, <2>1 DEF OpenSale, TypeOK
<1>10. ASSUME NEW q \in Requests, NEW a \in Sales, NEW o \in Orders, ReadSerials(q, a, o)
       PROVE  TypeOK'
  <2>1. [NoEdit EXCEPT !.op = "serials", !.id = a, !.lines = o] \in Edit
    BY <1>b, OrdersTyped DEF Edit
  <2> QED BY <1>10, <1>a, <2>1 DEF ReadSerials, TypeOK
<1>11. ASSUME NEW q \in Requests, WriteSerials(q)
       PROVE  TypeOK'
  <2>1. sale' \in [Sales -> Sale]
    BY <1>11, <1>a, ZenonT(60) DEF WriteSerials, Sale, Edit
  <2> QED BY <1>11, <1>a, <1>b, <2>1 DEF WriteSerials, TypeOK
<1>12. ASSUME NEW a \in Sales, CompleteSale(a)
       PROVE  TypeOK'
  <2> DEFINE o == sale[a].lines
             taken == [p \in Products |-> -o.qty[p]]
  <2>1. o \in OrderLines
    BY <1>a DEF Sale
  <2>2. taken \in [Products -> Int] /\ Ordered(o) \in SUBSET Products
    BY <2>1, OrderTyped
  <2>3. Move(Ordered(o), taken, "sale")
    BY <1>12 DEF CompleteSale
  <2>4. /\ balance' \in [Products -> Quantity \cup {Nothing}]
        /\ shelf' \in [Products -> Quantity]
        /\ movement' \in [Products -> [Sources -> Int]]
    <3> HIDE DEF o, taken
    <3> QED BY <2>2, <2>3, MoveTyped DEF Sources
  <2>5. unit' \in [Serials -> Unit]
    BY <1>12, <1>a, ZenonT(60) DEF CompleteSale, Unit
  <2>6. sale' \in [Sales -> Sale]
    BY <1>12, <1>a DEF CompleteSale, Sale
  <2> QED BY <1>12, <1>a, <2>4, <2>5, <2>6 DEF CompleteSale, TypeOK
<1>13. ASSUME NEW q \in Requests, NEW p \in Products, ReadProduct(q, p)
       PROVE  TypeOK'
  <2>1. [NoEdit EXCEPT !.op = "product", !.id = p, !.shelf = shelf[p]] \in Edit
    BY <1>a, <1>b DEF Edit
  <2> QED BY <1>13, <1>a, <2>1 DEF ReadProduct, TypeOK
<1>14. ASSUME NEW q \in Requests, WriteProduct(q)
       PROVE  TypeOK'
  <2>1. shelf' \in [Products -> Quantity]
    BY <1>14, <1>a DEF WriteProduct, Edit
  <2> QED BY <1>14, <1>a, <1>b, <2>1 DEF WriteProduct, TypeOK
<1>15. ASSUME NEW q \in Requests, AbandonEdit(q)
       PROVE  TypeOK'
  BY <1>15, <1>a, <1>b DEF AbandonEdit, TypeOK
<1>16. ASSUME UNCHANGED vars
       PROVE  TypeOK'
  BY <1>16 DEF vars, TypeOK
<1> QED
  BY <1>1, <1>2, <1>3, <1>4, <1>5, <1>6, <1>7, <1>8, <1>9, <1>10, <1>11, <1>12, <1>13,
     <1>14, <1>15, <1>16 DEF Next

\* Balances are never negative and every row keeps its type, however requests
\* overlap.
THEOREM StockTyped == Spec => []TypeOK
<1> QED
  BY TypeInit, TypeStep, PTL DEF Spec

-----------------------------------------------------------------------------
(* Balances and movements.                                                  *)

\* Balances and movements change together or not at all.
LEMMA MovesOrNot ==
    ASSUME TypeOK, [Next]_vars
    PROVE  \/ UNCHANGED <<balance, movement>>
           \/ \E D \in SUBSET Products, delta \in [Products -> Int],
                 source \in Sources \ {"legacy"} : Move(D, delta, source)
<1> DEFINE Moves == \E D \in SUBSET Products, delta \in [Products -> Int],
                       source \in Sources \ {"legacy"} : Move(D, delta, source)
<1>1. ASSUME NEW u \in Purchases, ConfirmPurchase(u)
      PROVE  Moves
  <2> DEFINE o == purchase[u].lines
  <2>1. o \in OrderLines
    BY DEF TypeOK, Purchase
  <2>2. Ordered(o) \in SUBSET Products /\ o.qty \in [Products -> Int]
    BY <2>1, OrderTyped
  <2>3. Move(Ordered(o), o.qty, "purchase") /\ "purchase" \in Sources \ {"legacy"}
    BY <1>1 DEF ConfirmPurchase, Sources
  <2> QED
    <3> HIDE DEF o
    <3> QED BY <2>2, <2>3
<1>2. ASSUME NEW p \in Products, NEW n \in 1..MaxAdjusted, NEW S \in SUBSET Serials,
             AdjustUp(p, n, S)
      PROVE  Moves
  <2> DEFINE delta == [r \in Products |-> n]
  <2>1. {p} \in SUBSET Products /\ delta \in [Products -> Int]
    OBVIOUS
  <2>2. Move({p}, delta, "adjustment") /\ "adjustment" \in Sources \ {"legacy"}
    BY <1>2 DEF AdjustUp, Sources
  <2> QED
    <3> HIDE DEF delta
    <3> QED BY <2>1, <2>2
<1>3. ASSUME NEW p \in Products, NEW n \in 1..MaxAdjusted, NEW S \in SUBSET Serials,
             AdjustDown(p, n, S)
      PROVE  Moves
  <2> DEFINE delta == [r \in Products |-> -n]
  <2>1. {p} \in SUBSET Products /\ delta \in [Products -> Int]
    OBVIOUS
  <2>2. Move({p}, delta, "adjustment") /\ "adjustment" \in Sources \ {"legacy"}
    BY <1>3 DEF AdjustDown, Sources
  <2> QED
    <3> HIDE DEF delta
    <3> QED BY <2>1, <2>2
<1>4. ASSUME NEW a \in Sales, CompleteSale(a)
      PROVE  Moves
  <2> DEFINE o == sale[a].lines
             delta == [p \in Products |-> -o.qty[p]]
  <2>1. o \in OrderLines
    BY DEF TypeOK, Sale
  <2>2. Ordered(o) \in SUBSET Products /\ delta \in [Products -> Int]
    BY <2>1, OrderTyped
  <2>3. Move(Ordered(o), delta, "sale") /\ "sale" \in Sources \ {"legacy"}
    BY <1>4 DEF CompleteSale, Sources
  <2> QED
    <3> HIDE DEF o, delta
    <3> QED BY <2>2, <2>3
<1> QED
  <2> HIDE DEF Moves
  <2>1. Moves \/ UNCHANGED <<balance, movement>>
    BY <1>1, <1>2, <1>3, <1>4 DEF Next, vars, CreatePurchase, ReadPurchase, CheckPurchase,
       WritePurchase, CancelPurchase, OpenSale, ReadSerials, WriteSerials, ReadProduct,
       WriteProduct, AbandonEdit
  <2> QED BY <2>1 DEF Moves

\* A movement explains the balance it leaves.
LEMMA MoveExplains ==
    ASSUME TypeOK, MovementsExplainBalance, NEW D \in SUBSET Products,
           NEW delta \in [Products -> Int], NEW source \in Sources \ {"legacy"},
           Move(D, delta, source)
    PROVE  MovementsExplainBalance'
<1> SUFFICES ASSUME NEW p \in Products
             PROVE  /\ balance'[p] # Nothing =>
                          balance'[p] = movement'[p]["legacy"] + movement'[p]["purchase"]
                                      + movement'[p]["sale"] + movement'[p]["adjustment"]
                    /\ balance'[p] = Nothing => \A m \in Sources : movement'[p][m] = 0
  BY DEF MovementsExplainBalance
<1>a. /\ "legacy" \in Sources /\ "purchase" \in Sources /\ "sale" \in Sources
      /\ "adjustment" \in Sources
      /\ source \in {"purchase", "sale", "adjustment"}
  BY DEF Sources
<1>1. CASE p \notin D
  <2>1. balance'[p] = balance[p] /\ movement'[p] = movement[p]
    BY <1>1 DEF Move
  <2> QED BY <2>1 DEF MovementsExplainBalance
<1>2. CASE p \in D
  <2>1. /\ balance'[p] = OnHand(p) + delta[p]
        /\ movement'[p] = [movement[p] EXCEPT !["legacy"] = Opening(p), ![source] = @ + delta[p]]
        /\ movement[p] \in [Sources -> Int]
        /\ delta[p] \in Int
    BY <1>2 DEF Move, TypeOK
  <2>2. OnHand(p) \in Int
    BY OnHandTyped, Bounds DEF Quantity
  <2>3. balance'[p] # Nothing
    BY <2>1, <2>2, <1>2, Bounds, NullId DEF Move, Sufficient
  <2>4. /\ movement'[p]["legacy"] = Opening(p)
        /\ movement'[p][source] = movement[p][source] + delta[p]
        /\ \A m \in Sources : m # "legacy" /\ m # source => movement'[p][m] = movement[p][m]
    BY <2>1, <1>a
  <2>5. OnHand(p) = Opening(p) + movement[p]["purchase"] + movement[p]["sale"]
                  + movement[p]["adjustment"]
    <3>1. CASE balance[p] = Nothing
      <4>1. \A m \in Sources : movement[p][m] = 0
        BY <3>1 DEF MovementsExplainBalance
      <4> QED BY <3>1, <4>1, <1>a, <2>2 DEF OnHand, Opening
    <3>2. CASE balance[p] # Nothing
      BY <3>2 DEF OnHand, Opening, MovementsExplainBalance
    <3> QED BY <3>1, <3>2
  <2>6. Opening(p) \in Int
    BY <2>1, <2>2, <1>a DEF Opening, OnHand
  <2>7. balance'[p] = movement'[p]["legacy"] + movement'[p]["purchase"]
                    + movement'[p]["sale"] + movement'[p]["adjustment"]
    <3>1. /\ movement[p]["purchase"] \in Int /\ movement[p]["sale"] \in Int
          /\ movement[p]["adjustment"] \in Int
      BY <2>1, <1>a
    <3> QED BY <3>1, <1>a, <2>1, <2>4, <2>5, <2>6
  <2> QED BY <2>3, <2>7
<1> QED BY <1>1, <1>2

\* The movements of a product explain its balance, however requests overlap.
THEOREM BalanceExplained == Spec => []MovementsExplainBalance
<1>1. Init => TypeOK /\ MovementsExplainBalance
  BY TypeInit DEF Init, MovementsExplainBalance
<1>2. TypeOK /\ MovementsExplainBalance /\ [Next]_vars => TypeOK' /\ MovementsExplainBalance'
  <2> SUFFICES ASSUME TypeOK, MovementsExplainBalance, [Next]_vars
               PROVE  MovementsExplainBalance'
    BY TypeStep
  <2>1. CASE UNCHANGED <<balance, movement>>
    BY <2>1 DEF MovementsExplainBalance
  <2>2. ASSUME NEW D \in SUBSET Products, NEW delta \in [Products -> Int],
               NEW source \in Sources \ {"legacy"}, Move(D, delta, source)
        PROVE  MovementsExplainBalance'
    BY <2>2, MoveExplains
  <2> QED BY <2>1, <2>2, MovesOrNot
<1> QED
  BY <1>1, <1>2, PTL DEF Spec

-----------------------------------------------------------------------------
(* Sales, units and balances agree, however requests overlap.               *)

\* The units of a product in stock, and those a sale took.
InStock(un, p)   == {s \in Serials : un[s].product = p /\ un[s].status = "available"}
SoldBy(un, a, p) == {s \in Serials : un[s].sale = a /\ un[s].product = p}

\* The quantity counted by units: what the balance has beyond the legacy one.
Counted(b, m, p) == IF b[p] = Nothing THEN 0 ELSE b[p] - m[p]["legacy"]

Delivered(sa)   == {a \in Sales : sa[a].status = "deducted"}
Invoiced(sa, p) == [a \in Sales |-> sa[a].lines.qty[p]]

\* The selections a request is about to write invoice what the sale invoices,
\* whatever happened to the sale since they were read.
SelectionsFit ==
    \A q \in Requests : edit[q].op = "serials" =>
        /\ edit[q].id \in Sales
        /\ sale[edit[q].id].status # "absent"
        /\ edit[q].lines.qty = sale[edit[q].id].lines.qty

StockInv == TypeOK /\ SalesTakeUnitsOnce /\ SelectionsFit

\* Sets of serial numbers and of sales are finite.
LEMMA FiniteStock ==
    ASSUME NEW un, NEW sa, NEW a, NEW p
    PROVE  /\ IsFiniteSet(InStock(un, p)) /\ Cardinality(InStock(un, p)) \in Nat
           /\ IsFiniteSet(SoldBy(un, a, p)) /\ Cardinality(SoldBy(un, a, p)) \in Nat
           /\ IsFiniteSet(Delivered(sa))
<1>1. InStock(un, p) \subseteq Serials /\ SoldBy(un, a, p) \subseteq Serials
      /\ Delivered(sa) \subseteq Sales
  BY DEF InStock, SoldBy, Delivered
<1>2. IsFiniteSet(InStock(un, p)) /\ IsFiniteSet(SoldBy(un, a, p)) /\ IsFiniteSet(Delivered(sa))
  BY <1>1, Catalogue, Documents, FS_Subset
<1> QED
  BY <1>2, FS_CardinalityType

\* Serial numbers that join or leave a set change its size by their number.
LEMMA JoinSize ==
    ASSUME NEW A, NEW B, IsFiniteSet(A), IsFiniteSet(B), A \cap B = {}
    PROVE  Cardinality(A \cup B) = Cardinality(A) + Cardinality(B)
<1>1. Cardinality(A \cup B) = Cardinality(A) + Cardinality(B) - Cardinality(A \cap B)
  BY FS_Union
<1>2. Cardinality(A \cap B) = 0 /\ Cardinality(A) \in Nat /\ Cardinality(B) \in Nat
  BY FS_EmptySet, FS_CardinalityType
<1> QED
  BY <1>1, <1>2

LEMMA LeaveSize ==
    ASSUME NEW A, NEW B, IsFiniteSet(A), B \subseteq A
    PROVE  Cardinality(A \ B) = Cardinality(A) - Cardinality(B)
<1>1. Cardinality(A \ B) = Cardinality(A) - Cardinality(A \cap B)
  BY FS_Difference
<1>2. A \cap B = B
  OBVIOUS
<1> QED
  BY <1>1, <1>2

\* What a movement does to a product it moves: its stock, less what the stock
\* started from, changes by the quantity moved.
LEMMA MoveInside ==
    ASSUME TypeOK, NEW D \in SUBSET Products, NEW delta \in [Products -> Int],
           NEW source \in Sources \ {"legacy"}, Move(D, delta, source), NEW p \in D
    PROVE  /\ Counted(balance', movement', p) = Counted(balance, movement, p) + delta[p]
           /\ movement'[p][source] = movement[p][source] + delta[p]
<1>a. "legacy" \in Sources /\ source \in Sources /\ source # "legacy" /\ p \in Products
  BY DEF Sources
<1>b. /\ movement[p] \in [Sources -> Int] /\ delta[p] \in Int
      /\ movement[p]["legacy"] \in Int /\ movement[p][source] \in Int
  BY <1>a DEF TypeOK
<1>c. /\ OnHand(p) \in Int /\ shelf[p] \in Int
      /\ balance[p] # Nothing => balance[p] \in Int
  BY <1>a, OnHandTyped, Bounds DEF TypeOK, Quantity
<1>1. /\ balance'[p] = OnHand(p) + delta[p]
      /\ movement'[p] = [movement[p] EXCEPT !["legacy"] = Opening(p), ![source] = @ + delta[p]]
  BY DEF Move
<1>2. OnHand(p) + delta[p] \in Nat
  BY <1>b, <1>c DEF Move, Sufficient
<1>3. balance'[p] # Nothing
  BY <1>1, <1>2, NullId
<1>4. /\ movement'[p]["legacy"] = Opening(p)
      /\ movement'[p][source] = movement[p][source] + delta[p]
  BY <1>1, <1>a, <1>b
<1>5. Opening(p) \in Int
  BY <1>b, <1>c DEF Opening
<1>6. Counted(balance', movement', p) = OnHand(p) + delta[p] - Opening(p)
  BY <1>1, <1>3, <1>4, <1>5, <1>b, <1>c DEF Counted
<1>7. CASE balance[p] = Nothing
  <2>1. OnHand(p) = Opening(p) /\ Counted(balance, movement, p) = 0
    BY <1>7 DEF Counted, OnHand, Opening
  <2> QED BY <1>4, <1>5, <1>6, <2>1, <1>b, <1>c
<1>8. CASE balance[p] # Nothing
  <2>1. OnHand(p) = balance[p] /\ Opening(p) = movement[p]["legacy"]
        /\ Counted(balance, movement, p) = balance[p] - movement[p]["legacy"]
    BY <1>8 DEF Counted, OnHand, Opening
  <2> QED BY <1>4, <1>5, <1>6, <1>8, <2>1, <1>b, <1>c
<1> QED BY <1>7, <1>8

\* What a movement does to a product it does not move: nothing.
LEMMA MoveOutside ==
    ASSUME NEW D \in SUBSET Products, NEW delta, NEW source,
           Move(D, delta, source), NEW p \in Products \ D
    PROVE  Counted(balance', movement', p) = Counted(balance, movement, p)
<1>1. movement'[p] = movement[p] /\ balance'[p] = balance[p]
  BY DEF Move
<1> QED BY <1>1 DEF Counted

LEMMA SourceMoves ==
    ASSUME TypeOK, NEW D \in SUBSET Products, NEW delta \in [Products -> Int],
           NEW source \in Sources \ {"legacy"}, Move(D, delta, source), NEW p \in D
    PROVE  movement'[p][source] = movement[p][source] + delta[p]
  BY MoveInside

\* Units S that were unknown and are in stock now, f naming their products.
Received(S, f) ==
    /\ \A s \in S : /\ unit[s].status = "absent" /\ unit'[s].status = "available"
                    /\ unit'[s].product = f[s] /\ unit'[s].sale = Nothing
    /\ \A s \in Serials \ S : unit'[s] = unit[s]

\* Received units of p join the stock of p.
LEMMA UnitsReceived ==
    ASSUME NEW S \in SUBSET Serials, NEW f, Received(S, f), NEW p
    PROVE  /\ InStock(unit', p) = InStock(unit, p) \cup {s \in S : f[s] = p}
           /\ InStock(unit, p) \cap {s \in S : f[s] = p} = {}
<1>1. ASSUME NEW s \in Serials
      PROVE  s \in InStock(unit', p) <=> s \in InStock(unit, p) \/ (s \in S /\ f[s] = p)
  <2>1. CASE s \in S
    BY <2>1 DEF InStock, Received
  <2>2. CASE s \notin S
    BY <2>2 DEF InStock, Received
  <2> QED BY <2>1, <2>2
<1>2. InStock(unit', p) = InStock(unit, p) \cup {s \in S : f[s] = p}
  BY <1>1 DEF InStock
<1>3. InStock(unit, p) \cap {s \in S : f[s] = p} = {}
  BY DEF InStock, Received
<1> QED
  BY <1>2, <1>3

\* The count of units follows a movement, product by product.
LEMMA UnitsFollow ==
    ASSUME TypeOK, UnitsMatchBalance, NEW D \in SUBSET Products,
           NEW delta \in [Products -> Int], NEW source \in Sources \ {"legacy"},
           Move(D, delta, source),
           \A p \in Serialized : Cardinality(InStock(unit', p)) =
               Cardinality(InStock(unit, p)) + (IF p \in D THEN delta[p] ELSE 0)
    PROVE  UnitsMatchBalance'
<1> SUFFICES ASSUME NEW p \in Serialized
             PROVE  Cardinality(InStock(unit', p)) = Counted(balance', movement', p)
  BY DEF UnitsMatchBalance, InStock, Counted
<1>0. p \in Products
  BY Catalogue
<1>1. Cardinality(InStock(unit, p)) = Counted(balance, movement, p)
  BY DEF UnitsMatchBalance, InStock, Counted
<1>2. CASE p \in D
  <2>1. Counted(balance', movement', p) = Counted(balance, movement, p) + delta[p]
    BY <1>2, MoveInside
  <2> QED BY <1>1, <1>2, <2>1
<1>3. CASE p \notin D
  <2>1. Counted(balance', movement', p) = Counted(balance, movement, p)
    BY <1>0, <1>3, MoveOutside
  <2>2. Cardinality(InStock(unit, p)) \in Nat
    BY FiniteStock
  <2> QED BY <1>1, <1>3, <2>1, <2>2
<1> QED
  BY <1>2, <1>3

\* Deliveries are as they were: the same sales delivered the same quantities,
\* out of the same movements and with the same units.
LEMMA DeliveriesStay ==
    ASSUME SalesLeaveOnce, UnitsSoldOnce,
           \A p \in Products : movement'[p]["sale"] = movement[p]["sale"],
           \A a \in Sales : /\ sale'[a].status = "deducted" <=> sale[a].status = "deducted"
                            /\ sale[a].status = "deducted" => sale'[a].lines.qty = sale[a].lines.qty,
           \A s \in Serials : /\ unit'[s].sale = unit[s].sale
                              /\ unit'[s].sale # Nothing => unit'[s].product = unit[s].product
                              /\ unit'[s].status = "sold" <=> unit[s].status = "sold"
    PROVE  SalesLeaveOnce' /\ UnitsSoldOnce'
<1>1. Delivered(sale') = Delivered(sale)
  BY DEF Delivered
<1>2. ASSUME NEW p \in Products
      PROVE  movement'[p]["sale"] = -SumOf(Delivered(sale'), Invoiced(sale', p))
  <2>1. \A a \in Delivered(sale) : Invoiced(sale', p)[a] = Invoiced(sale, p)[a]
    BY DEF Delivered, Invoiced
  <2>2. SumOf(Delivered(sale), Invoiced(sale', p)) = SumOf(Delivered(sale), Invoiced(sale, p))
    BY <2>1, SumAgree
  <2>3. movement[p]["sale"] = -SumOf(Delivered(sale), Invoiced(sale, p))
    BY DEF SalesLeaveOnce, Delivered, Invoiced
  <2> QED BY <1>1, <2>2, <2>3
<1>3. SalesLeaveOnce'
  BY <1>2 DEF SalesLeaveOnce, Delivered, Invoiced
<1>4. ASSUME NEW a \in Sales, NEW p \in Serialized
      PROVE  Cardinality(SoldBy(unit', a, p)) =
                 IF sale'[a].status = "deducted" THEN sale'[a].lines.qty[p] ELSE 0
  <2>1. SoldBy(unit', a, p) = SoldBy(unit, a, p)
    BY NullId DEF SoldBy
  <2>2. Cardinality(SoldBy(unit, a, p)) =
            IF sale[a].status = "deducted" THEN sale[a].lines.qty[p] ELSE 0
    BY DEF UnitsSoldOnce, SoldBy
  <2> QED BY <2>1, <2>2
<1>5. UnitsSoldOnce'
  <2>1. \A s \in Serials : unit'[s].status = "sold" <=> unit'[s].sale # Nothing
    BY DEF UnitsSoldOnce
  <2>2. (\A a \in Sales, p \in Serialized :
           Cardinality({s \in Serials : unit[s].sale = a /\ unit[s].product = p}) =
               IF sale[a].status = "deducted" THEN sale[a].lines.qty[p] ELSE 0)'
    BY <1>4 DEF SoldBy
  <2> QED BY <2>1, <2>2 DEF UnitsSoldOnce
<1> QED
  BY <1>3, <1>5

\* Selections go on fitting while sales keep what they invoice.
LEMMA SelectionsStay ==
    ASSUME SelectionsFit,
           \A q \in Requests : edit'[q] = edit[q] \/ edit'[q].op # "serials",
           \A a \in Sales : sale[a].status # "absent" =>
               sale'[a].status # "absent" /\ sale'[a].lines.qty = sale[a].lines.qty
    PROVE  SelectionsFit'
  BY DEF SelectionsFit

\* A step that moves no stock keeps what sales, units and balances agree on.
LEMMA StockStays ==
    ASSUME StockInv, UNCHANGED <<balance, movement, unit>>,
           \A a \in Sales : /\ sale'[a].status = "deducted" <=> sale[a].status = "deducted"
                            /\ sale[a].status = "deducted" => sale'[a].lines.qty = sale[a].lines.qty
    PROVE  SalesTakeUnitsOnce'
<1>1. SalesLeaveOnce' /\ UnitsSoldOnce'
  BY DeliveriesStay DEF StockInv, SalesTakeUnitsOnce
<1>2. UnitsMatchBalance'
  BY DEF StockInv, SalesTakeUnitsOnce, UnitsMatchBalance
<1> QED
  BY <1>1, <1>2 DEF SalesTakeUnitsOnce

\* Units that are received were never sold.
LEMMA NewUnitsUnsold ==
    ASSUME StockInv, NEW s \in Serials, unit[s].status = "absent"
    PROVE  unit[s].sale = Nothing
  BY DEF StockInv, SalesTakeUnitsOnce, UnitsSoldOnce

\* A receipt of units: as many of each serialized product as the movement says.
LEMMA ReceiptKeeps ==
    ASSUME StockInv, NEW S \in SUBSET Serials, NEW f, Received(S, f), sale' = sale,
           NEW D \in SUBSET Products, NEW delta \in [Products -> Int],
           NEW source \in Sources \ {"legacy", "sale"}, Move(D, delta, source),
           \A p \in Serialized : Cardinality({s \in S : f[s] = p}) = IF p \in D THEN delta[p] ELSE 0
    PROVE  SalesTakeUnitsOnce'
<1>1. \A s \in S : /\ unit'[s].status = "available" /\ unit'[s].sale = Nothing
                   /\ unit[s].status = "absent" /\ unit[s].sale = Nothing
  BY NewUnitsUnsold DEF Received
<1>2. \A s \in Serials \ S : unit'[s] = unit[s]
  BY DEF Received
<1>3. ASSUME NEW p \in Products PROVE movement'[p]["sale"] = movement[p]["sale"]
  <2>1. "sale" \in Sources \ {"legacy", source} /\ source \in Sources \ {"legacy"}
    BY DEF Sources
  <2>2. TypeOK
    BY DEF StockInv
  <2>3. /\ movement[p] \in [Sources -> Int]
        /\ \/ movement'[p] = movement[p]
           \/ movement'[p] = [movement[p] EXCEPT !["legacy"] = Opening(p), ![source] = @ + delta[p]]
    BY <2>2 DEF TypeOK, Move
  <2> QED BY <2>1, <2>3
<1>4. SalesLeaveOnce' /\ UnitsSoldOnce'
  <2>1. \A s \in Serials : /\ unit'[s].sale = unit[s].sale
                           /\ unit'[s].sale # Nothing => unit'[s].product = unit[s].product
                           /\ unit'[s].status = "sold" <=> unit[s].status = "sold"
    BY <1>1, <1>2
  <2> QED BY <1>3, <2>1, DeliveriesStay DEF StockInv, SalesTakeUnitsOnce
<1>5. ASSUME NEW p \in Serialized
      PROVE  Cardinality(InStock(unit', p)) =
                 Cardinality(InStock(unit, p)) + (IF p \in D THEN delta[p] ELSE 0)
  <2> DEFINE T == {s \in S : f[s] = p}
  <2>1. InStock(unit', p) = InStock(unit, p) \cup T /\ InStock(unit, p) \cap T = {}
    BY UnitsReceived
  <2>2. IsFiniteSet(T)
    BY Catalogue, FS_Subset
  <2>3. Cardinality(T) = IF p \in D THEN delta[p] ELSE 0
    OBVIOUS
  <2> HIDE DEF T
  <2>4. IsFiniteSet(InStock(unit, p))
    BY FiniteStock
  <2>5. Cardinality(InStock(unit, p) \cup T) = Cardinality(InStock(unit, p)) + Cardinality(T)
    BY <2>1, <2>2, <2>4, JoinSize
  <2> QED BY <2>1, <2>3, <2>5
<1>6. UnitsMatchBalance'
  BY <1>5, UnitsFollow DEF StockInv, SalesTakeUnitsOnce
<1> QED
  BY <1>4, <1>6 DEF SalesTakeUnitsOnce

\* Units S that were in stock and left it, p naming their product.
Left(S, p) ==
    /\ Available(S, p)
    /\ \A s \in Serials : unit'[s].product = unit[s].product
    /\ \A s \in S : unit'[s].status # "available"
    /\ \A s \in Serials : unit[s].product = p /\ s \notin S => unit'[s] = unit[s]

\* They leave the stock of p.
LEMMA UnitsLeft ==
    ASSUME NEW S \in SUBSET Serials, NEW p, Left(S, p)
    PROVE  Cardinality(InStock(unit', p)) = Cardinality(InStock(unit, p)) - Cardinality(S)
<1>1. InStock(unit', p) = InStock(unit, p) \ S /\ S \subseteq InStock(unit, p)
  BY DEF InStock, Left, Available
<1>2. IsFiniteSet(InStock(unit, p))
  BY FiniteStock
<1> QED
  BY <1>1, <1>2, LeaveSize

\* A sale is delivered: the units it names are its units now, and those of
\* other sales are as they were.
LEMMA DeliveryUnits ==
    ASSUME StockInv, NEW a \in Sales, CompleteSale(a)
    PROVE  /\ \A s \in Taken(sale[a].lines) :
                  /\ unit'[s].status = "sold" /\ unit'[s].sale = a
                  /\ unit'[s].product = unit[s].product
                  /\ unit[s].status = "available" /\ unit[s].sale = Nothing
           /\ \A s \in Serials \ Taken(sale[a].lines) : unit'[s] = unit[s]
           /\ \A p \in Serialized : SoldBy(unit', a, p) = sale[a].lines.serials[p]
           /\ \A b \in Sales \ {a}, p \in Serialized : SoldBy(unit', b, p) = SoldBy(unit, b, p)
<1> DEFINE o == sale[a].lines
<1>0. TypeOK
  BY DEF StockInv
<1>1. o.serials \in [Products -> SUBSET Serials] /\ Serialized \subseteq Products
  <2>1. o \in OrderLines
    BY <1>0 DEF TypeOK, Sale
  <2> QED BY <2>1, OrderTyped, Catalogue
<1>2. /\ sale[a].status = "open"
      /\ \A p \in Serialized : Available(o.serials[p], p)
  BY DEF CompleteSale, Deductible
<1>3. \A s \in Serials :
          /\ s \in Taken(o) => unit'[s] = [unit[s] EXCEPT !.status = "sold", !.sale = a]
          /\ s \notin Taken(o) => unit'[s] = unit[s]
  BY DEF CompleteSale
<1>5. \A s \in Taken(o) : \E p \in Serialized : s \in o.serials[p]
  BY DEF Taken
<1>7. /\ \A s \in Taken(o) : /\ unit'[s].status = "sold" /\ unit'[s].sale = a
                             /\ unit'[s].product = unit[s].product
                             /\ unit[s].status = "available" /\ unit[s].sale = Nothing
      /\ \A s \in Serials \ Taken(o) : unit'[s] = unit[s]
      /\ Taken(o) \subseteq Serials
  <2>1. \A s \in Taken(o) : s \in Serials /\ unit[s].status = "available"
    BY <1>1, <1>2, <1>5 DEF Available
  <2>2. \A s \in Serials : unit[s] \in Unit
    BY <1>0 DEF TypeOK
  <2>3. \A s \in Taken(o) : unit[s].sale = Nothing
    BY <2>1 DEF StockInv, SalesTakeUnitsOnce, UnitsSoldOnce
  <2>4. \A s \in Taken(o) : /\ unit'[s].status = "sold" /\ unit'[s].sale = a
                            /\ unit'[s].product = unit[s].product
    <3> SUFFICES ASSUME NEW s \in Taken(o)
                 PROVE  /\ unit'[s].status = "sold" /\ unit'[s].sale = a
                        /\ unit'[s].product = unit[s].product
      OBVIOUS
    <3>1. s \in Serials /\ unit[s] \in Unit
      BY <2>1, <2>2
    <3>2. unit'[s] = [unit[s] EXCEPT !.status = "sold", !.sale = a]
      BY <1>3, <3>1
    <3> QED BY <3>1, <3>2 DEF Unit
  <2> QED BY <1>3, <2>1, <2>3, <2>4
<1> HIDE DEF o
<1>8. ASSUME NEW p \in Serialized PROVE SoldBy(unit', a, p) = o.serials[p]
  <2>1. Cardinality(SoldBy(unit, a, p)) = 0
    BY <1>2 DEF StockInv, SalesTakeUnitsOnce, UnitsSoldOnce, SoldBy, o
  <2>2. SoldBy(unit, a, p) = {}
    BY <2>1, FiniteStock, FS_EmptySet
  <2>3. \A s \in Serials : unit[s].sale # a \/ unit[s].product # p
    BY <2>2 DEF SoldBy
  <2>4. \A s \in Serials : s \in o.serials[p] <=> s \in Taken(o) /\ unit[s].product = p
    BY <1>2, <1>5 DEF Available, Taken
  <2>5. o.serials[p] \subseteq Serials
    BY <1>1
  <2> QED BY <1>7, <2>3, <2>4, <2>5 DEF SoldBy
<1>9. \A b \in Sales \ {a}, p \in Serialized : SoldBy(unit', b, p) = SoldBy(unit, b, p)
  BY <1>7, NullId DEF SoldBy
<1> QED
  BY <1>7, <1>8, <1>9 DEF o

\* A sale is delivered: its quantities leave by a movement, its units are sold.
LEMMA DeliveryKeeps ==
    ASSUME StockInv, NEW a \in Sales, CompleteSale(a)
    PROVE  SalesTakeUnitsOnce'
<1> DEFINE o == sale[a].lines
           D == Ordered(o)
           delta == [p \in Products |-> -o.qty[p]]
<1>0. TypeOK
  BY DEF StockInv
<1>1. /\ o \in OrderLines /\ o.qty \in [Products -> Nat]
      /\ o.serials \in [Products -> SUBSET Serials]
      /\ D \in SUBSET Products /\ delta \in [Products -> Int]
  <2>1. o \in OrderLines
    BY <1>0 DEF TypeOK, Sale
  <2> QED BY <2>1, OrderTyped
<1>2. /\ sale[a].status = "open" /\ Move(D, delta, "sale")
      /\ \A p \in Serialized : Cardinality(o.serials[p]) = o.qty[p] /\ Available(o.serials[p], p)
      /\ sale' = [sale EXCEPT ![a].status = "deducted"]
  BY DEF CompleteSale, Deductible, SerialsCounted
<1>b. \A p \in Products : p \notin D => o.qty[p] = 0
  BY <1>1 DEF Ordered
<1>4. "sale" \in Sources \ {"legacy"} /\ Serialized \subseteq Products
  BY Catalogue DEF Sources
<1>5. \A s \in Taken(o) : \E p \in Serialized : s \in o.serials[p]
  BY DEF Taken
<1>6. /\ sale' \in [Sales -> Sale] /\ sale'[a].status = "deducted" /\ sale'[a].lines = o
      /\ \A b \in Sales : b # a => sale'[b] = sale[b]
  BY <1>0, <1>2 DEF TypeOK, Sale
<1>7. /\ \A s \in Taken(o) : /\ unit'[s].status = "sold" /\ unit'[s].sale = a
                             /\ unit'[s].product = unit[s].product
                             /\ unit[s].status = "available" /\ unit[s].sale = Nothing
      /\ \A s \in Serials \ Taken(o) : unit'[s] = unit[s]
      /\ \A p \in Serialized : SoldBy(unit', a, p) = o.serials[p]
      /\ \A b \in Sales \ {a}, p \in Serialized : SoldBy(unit', b, p) = SoldBy(unit, b, p)
  BY DeliveryUnits
<1> HIDE DEF o, D, delta
<1>8. SalesLeaveOnce'
  <2> SUFFICES ASSUME NEW p \in Products
               PROVE  movement'[p]["sale"] = -SumOf(Delivered(sale'), Invoiced(sale', p))
    BY DEF SalesLeaveOnce, Delivered, Invoiced
  <2> DEFINE f == Invoiced(sale, p)
             g == Invoiced(sale', p)
             S == Delivered(sale)
  <2>1. Delivered(sale') = S \cup {a} /\ a \notin S
    BY <1>2, <1>6 DEF Delivered
  <2>2. g[a] = o.qty[p] /\ \A b \in S : g[b] = f[b]
    BY <1>6, <2>1 DEF Invoiced, Delivered
  <2>3. \A b \in Sales : f[b] \in Nat
    BY <1>0 DEF TypeOK, Sale, OrderLines, Invoiced
  <2>4. movement[p]["sale"] = -SumOf(S, f)
    BY DEF StockInv, SalesTakeUnitsOnce, SalesLeaveOnce, Delivered, Invoiced
  <2>5. IsFiniteSet(S) /\ S \subseteq Sales
    BY FiniteStock DEF Delivered
  <2>6. g[a] \in Nat /\ \A b \in S : g[b] \in Nat
    BY <1>1, <2>2, <2>3, <2>5
  <2> HIDE DEF f, g, S
  <2>7. SumOf(S \cup {a}, g) = SumOf(S, g) + g[a]
    BY <2>1, <2>5, <2>6, SumAdd
  <2>8. SumOf(S, g) = SumOf(S, f) /\ SumOf(S, g) \in Nat
    BY <2>2, <2>5, <2>6, SumAgree, SumType
  <2>9. movement'[p]["sale"] = movement[p]["sale"] - o.qty[p]
    <3>1. CASE p \in D
      <4>1. movement'[p]["sale"] = movement[p]["sale"] + delta[p]
        BY <1>0, <1>1, <1>2, <1>4, <3>1, SourceMoves
      <4>2. delta[p] = -o.qty[p] /\ movement[p]["sale"] \in Int /\ o.qty[p] \in Nat
        BY <1>0, <1>1, <1>4 DEF delta, TypeOK
      <4> QED BY <4>1, <4>2
    <3>2. CASE p \notin D
      <4>1. movement'[p] = movement[p]
        BY <1>2, <3>2 DEF Move
      <4>2. movement[p]["sale"] \in Int
        BY <1>0, <1>4 DEF TypeOK
      <4> QED BY <1>b, <3>2, <4>1, <4>2
    <3> QED BY <3>1, <3>2
  <2> QED BY <2>1, <2>2, <2>4, <2>6, <2>7, <2>8, <2>9 DEF g
<1>9. ASSUME NEW p \in Serialized
      PROVE  Cardinality(InStock(unit', p)) =
                 Cardinality(InStock(unit, p)) + (IF p \in D THEN delta[p] ELSE 0)
  <2>1. Left(o.serials[p], p)
    <3>1. \A s \in Serials : unit[s].product = p /\ s \notin o.serials[p] => s \notin Taken(o)
      BY <1>2, <1>5 DEF Available
    <3>2. \A s \in o.serials[p] : s \in Taken(o)
      BY DEF Taken
    <3> QED BY <1>2, <1>7, <3>1, <3>2 DEF Left
  <2>2. o.serials[p] \in SUBSET Serials
    BY <1>1, <1>4
  <2>3. Cardinality(InStock(unit', p)) = Cardinality(InStock(unit, p)) - o.qty[p]
    BY <1>2, <2>1, <2>2, UnitsLeft
  <2>4. (IF p \in D THEN delta[p] ELSE 0) = -o.qty[p] /\ o.qty[p] \in Nat
    BY <1>1, <1>b, <1>4 DEF delta
  <2>5. Cardinality(InStock(unit, p)) \in Nat
    BY FiniteStock
  <2> QED BY <2>3, <2>4, <2>5
<1>10. UnitsMatchBalance'
  BY <1>0, <1>1, <1>2, <1>4, <1>9, UnitsFollow DEF StockInv, SalesTakeUnitsOnce
<1>11. ASSUME NEW b \in Sales, NEW p \in Serialized
       PROVE  Cardinality(SoldBy(unit', b, p)) =
                  IF sale'[b].status = "deducted" THEN sale'[b].lines.qty[p] ELSE 0
  <2>1. Cardinality(SoldBy(unit, b, p)) =
            IF sale[b].status = "deducted" THEN sale[b].lines.qty[p] ELSE 0
    BY DEF StockInv, SalesTakeUnitsOnce, UnitsSoldOnce, SoldBy
  <2> QED BY <1>2, <1>6, <1>7, <2>1
<1>12. UnitsSoldOnce'
  <2>1. \A s \in Serials : unit'[s].status = "sold" <=> unit'[s].sale # Nothing
    BY <1>7, NullId DEF StockInv, SalesTakeUnitsOnce, UnitsSoldOnce
  <2>2. (\A b \in Sales, p \in Serialized :
           Cardinality({s \in Serials : unit[s].sale = b /\ unit[s].product = p}) =
               IF sale[b].status = "deducted" THEN sale[b].lines.qty[p] ELSE 0)'
    BY <1>11 DEF SoldBy
  <2> QED BY <2>1, <2>2 DEF UnitsSoldOnce
<1> QED
  BY <1>8, <1>10, <1>12 DEF SalesTakeUnitsOnce

\* A purchase is received: every serial number it lists joins the product of
\* the line that lists it.
LEMMA PurchaseKeeps ==
    ASSUME StockInv, NEW u \in Purchases, ConfirmPurchase(u)
    PROVE  SalesTakeUnitsOnce'
<1> DEFINE o == purchase[u].lines
           S == Named(o)
           f == [s \in Named(o) |-> ProductOf(o, s)]
<1>1. /\ o \in OrderLines /\ o.qty \in [Products -> Nat] /\ o.qty \in [Products -> Int]
      /\ o.serials \in [Products -> SUBSET Serials]
      /\ Ordered(o) \in SUBSET Products
  <2>1. o \in OrderLines
    BY DEF StockInv, TypeOK, Purchase
  <2> QED BY <2>1, OrderTyped
<1>2. S \in SUBSET Serials
  BY <1>1 DEF Named
<1>3. /\ Move(Ordered(o), o.qty, "purchase") /\ NotReceived(S) /\ sale' = sale
      /\ SerialsCounted(o) /\ SerialsDistinct(o)
  BY DEF ConfirmPurchase
<1>4. Received(S, f)
  BY <1>2, <1>3 DEF ConfirmPurchase, Received, NoUnit, NotReceived
<1>5. ASSUME NEW p \in Serialized
      PROVE  Cardinality({s \in S : f[s] = p}) = IF p \in Ordered(o) THEN o.qty[p] ELSE 0
  <2>0. p \in Products
    BY Catalogue
  <2>1. {s \in S : f[s] = p} = o.serials[p]
    <3>1. ASSUME NEW s \in S PROVE ProductOf(o, s) = p <=> s \in o.serials[p]
      <4>1. \E r \in Products : s \in o.serials[r]
        BY DEF Named
      <4>2. ProductOf(o, s) \in Products /\ s \in o.serials[ProductOf(o, s)]
        BY <4>1 DEF ProductOf
      <4> QED BY <1>3, <2>0, <4>2 DEF SerialsDistinct
    <3>2. o.serials[p] \subseteq S
      BY <2>0 DEF Named
    <3> QED BY <3>1, <3>2
  <2>2. Cardinality(o.serials[p]) = o.qty[p] /\ o.qty[p] \in Nat
    BY <1>1, <1>3, <2>0 DEF SerialsCounted
  <2>3. p \notin Ordered(o) => o.qty[p] = 0
    BY <2>0, <2>2 DEF Ordered
  <2> QED BY <2>1, <2>2, <2>3
<1>6. "purchase" \in Sources \ {"legacy", "sale"}
  BY DEF Sources
<1> QED
  <2> HIDE DEF o, S, f
  <2> QED BY <1>1, <1>2, <1>3, <1>4, <1>5, <1>6, ReceiptKeeps

\* Units are found: an adjustment upwards.
LEMMA AdjustUpKeeps ==
    ASSUME StockInv, NEW p \in Products, NEW n \in 1..MaxAdjusted, NEW S \in SUBSET Serials,
           AdjustUp(p, n, S)
    PROVE  SalesTakeUnitsOnce'
<1> DEFINE f == [s \in S |-> p]
           delta == [r \in Products |-> n]
<1>1. Move({p}, delta, "adjustment") /\ NotReceived(S) /\ sale' = sale
      /\ (p \in Serialized => Cardinality(S) = n) /\ (p \notin Serialized => S = {})
  BY DEF AdjustUp, AdjustmentFits
<1>2. Received(S, f)
  BY <1>1 DEF AdjustUp, Received, NoUnit, NotReceived
<1>3. ASSUME NEW r \in Serialized
      PROVE  Cardinality({s \in S : f[s] = r}) = IF r \in {p} THEN delta[r] ELSE 0
  <2>1. CASE r = p
    <3>1. {s \in S : f[s] = r} = S
      BY <2>1
    <3> QED BY <1>1, <2>1, <3>1
  <2>2. CASE r # p
    <3>1. {s \in S : f[s] = r} = {}
      BY <2>2
    <3> QED BY <2>2, <3>1, FS_EmptySet
  <2> QED BY <2>1, <2>2
<1>4. "adjustment" \in Sources \ {"legacy", "sale"} /\ delta \in [Products -> Int]
      /\ {p} \in SUBSET Products
  BY DEF Sources
<1> QED
  <2> HIDE DEF f, delta
  <2> QED BY <1>1, <1>2, <1>3, <1>4, ReceiptKeeps

\* Units are lost: an adjustment downwards.
LEMMA AdjustDownKeeps ==
    ASSUME StockInv, NEW p \in Products, NEW n \in 1..MaxAdjusted, NEW S \in SUBSET Serials,
           AdjustDown(p, n, S)
    PROVE  SalesTakeUnitsOnce'
<1> DEFINE delta == [r \in Products |-> -n]
<1>0. TypeOK
  BY DEF StockInv
<1>1. /\ Move({p}, delta, "adjustment") /\ Available(S, p) /\ sale' = sale
      /\ (p \in Serialized => Cardinality(S) = n) /\ (p \notin Serialized => S = {})
      /\ \A s \in Serials : /\ s \in S => unit'[s] = [unit[s] EXCEPT !.status = "removed"]
                            /\ s \notin S => unit'[s] = unit[s]
  BY DEF AdjustDown, AdjustmentFits
<1>2. "adjustment" \in Sources \ {"legacy"} /\ delta \in [Products -> Int]
      /\ {p} \in SUBSET Products /\ n \in Nat
  BY Bounds DEF Sources
<1>3. /\ \A s \in S : unit'[s].status = "removed" /\ unit[s].status = "available"
      /\ \A s \in Serials : unit'[s].product = unit[s].product /\ unit'[s].sale = unit[s].sale
      /\ \A s \in Serials \ S : unit'[s] = unit[s]
  <2>1. \A s \in Serials : unit[s] \in Unit
    BY <1>0 DEF TypeOK
  <2>2. ASSUME NEW s \in S
        PROVE  /\ unit'[s].status = "removed" /\ unit[s].status = "available"
               /\ unit'[s].product = unit[s].product /\ unit'[s].sale = unit[s].sale
    <3>1. unit'[s] = [unit[s] EXCEPT !.status = "removed"] /\ unit[s] \in Unit
      BY <1>1, <2>1
    <3> QED BY <1>1, <3>1 DEF Unit, Available
  <2> QED BY <1>1, <2>2
<1>4. \A r \in Products : movement'[r]["sale"] = movement[r]["sale"]
  <2> SUFFICES ASSUME NEW r \in Products PROVE movement'[r]["sale"] = movement[r]["sale"]
    OBVIOUS
  <2>1. /\ movement[r] \in [Sources -> Int] /\ "sale" \in Sources
        /\ \/ movement'[r] = movement[r]
           \/ movement'[r] = [movement[r] EXCEPT !["legacy"] = Opening(r), !["adjustment"] = @ + delta[r]]
    BY <1>0, <1>1 DEF TypeOK, Move, Sources
  <2> QED BY <2>1
<1>5. SalesLeaveOnce' /\ UnitsSoldOnce'
  <2>1. \A s \in Serials : unit'[s].status = "sold" <=> unit[s].status = "sold"
    BY <1>3
  <2> QED BY <1>1, <1>3, <1>4, <2>1, DeliveriesStay DEF StockInv, SalesTakeUnitsOnce
<1>6. ASSUME NEW r \in Serialized
      PROVE  Cardinality(InStock(unit', r)) =
                 Cardinality(InStock(unit, r)) + (IF r \in {p} THEN delta[r] ELSE 0)
  <2>1. Cardinality(InStock(unit, r)) \in Nat
    BY FiniteStock
  <2>2. CASE r = p
    <3>1. Left(S, r)
      BY <1>1, <1>3, <2>2 DEF Left
    <3>2. Cardinality(InStock(unit', r)) = Cardinality(InStock(unit, r)) - n
      BY <1>1, <2>2, <3>1, UnitsLeft
    <3> QED BY <1>2, <2>1, <2>2, <3>2
  <2>3. CASE r # p
    <3>1. InStock(unit', r) = InStock(unit, r)
      BY <1>1, <1>3, <2>3 DEF InStock, Available
    <3> QED BY <2>1, <2>3, <3>1
  <2> QED BY <2>2, <2>3
<1>7. UnitsMatchBalance'
  <2> HIDE DEF delta
  <2> QED BY <1>0, <1>1, <1>2, <1>6, UnitsFollow DEF StockInv, SalesTakeUnitsOnce
<1> QED
  BY <1>5, <1>7 DEF SalesTakeUnitsOnce

LEMMA StockInit == Init => StockInv
<1> SUFFICES ASSUME Init PROVE StockInv
  OBVIOUS
<1>1. TypeOK
  BY TypeInit
<1>2. SelectionsFit
  BY DEF Init, SelectionsFit, NoEdit
<1>3. Delivered(sale) = {}
  BY DEF Init, Delivered
<1>4. SalesLeaveOnce
  <2>1. ASSUME NEW p \in Products PROVE movement[p]["sale"] = 0
    BY DEF Init, Sources
  <2>2. \A p \in Products : SumOf(Delivered(sale), Invoiced(sale, p)) = 0
    BY <1>3, SumEmpty
  <2> QED BY <2>1, <2>2 DEF SalesLeaveOnce, Delivered, Invoiced
<1>5. UnitsMatchBalance
  <2> SUFFICES ASSUME NEW p \in Serialized
               PROVE  Cardinality(InStock(unit, p)) = Counted(balance, movement, p)
    BY DEF UnitsMatchBalance, InStock, Counted
  <2>1. InStock(unit, p) = {}
    BY DEF Init, InStock, NoUnit
  <2>2. Counted(balance, movement, p) = 0
    BY Catalogue DEF Init, Counted
  <2> QED BY <2>1, <2>2, FS_EmptySet
<1>6. UnitsSoldOnce
  <2>1. \A s \in Serials : unit[s].status = "sold" <=> unit[s].sale # Nothing
    BY DEF Init, NoUnit
  <2>2. \A a \in Sales, p \in Serialized : SoldBy(unit, a, p) = {} /\ sale[a].status # "deducted"
    BY NullId DEF Init, SoldBy, NoUnit
  <2>3. \A a \in Sales, p \in Serialized :
            Cardinality({s \in Serials : unit[s].sale = a /\ unit[s].product = p}) = 0
    BY <2>2, FS_EmptySet DEF SoldBy
  <2> QED BY <2>1, <2>2, <2>3 DEF UnitsSoldOnce
<1> QED
  BY <1>1, <1>2, <1>4, <1>5, <1>6 DEF StockInv, SalesTakeUnitsOnce

LEMMA StockStep == StockInv /\ [Next]_vars => StockInv'
<1> SUFFICES ASSUME StockInv, [Next]_vars PROVE SalesTakeUnitsOnce' /\ SelectionsFit'
  BY TypeStep DEF StockInv
<1>0. TypeOK /\ TypeOK' /\ SelectionsFit
  BY TypeStep DEF StockInv
<1>a. edit \in [Requests -> Edit] /\ sale \in [Sales -> Sale]
  BY <1>0 DEF TypeOK
<1>1. ASSUME NEW u \in Purchases, NEW o \in Orders, CreatePurchase(u, o)
      PROVE  SalesTakeUnitsOnce' /\ SelectionsFit'
  BY <1>0, <1>1, StockStays, SelectionsStay DEF CreatePurchase
<1>2. ASSUME NEW q \in Requests, NEW u \in Purchases, ReadPurchase(q, u)
      PROVE  SalesTakeUnitsOnce' /\ SelectionsFit'
  <2>1. edit'[q].op = "purchase" /\ \A r \in Requests : r # q => edit'[r] = edit[r]
    BY <1>2, <1>a DEF ReadPurchase, NoEdit
  <2> QED BY <1>0, <1>2, <2>1, StockStays, SelectionsStay DEF ReadPurchase
<1>3. ASSUME NEW q \in Requests, CheckPurchase(q)
      PROVE  SalesTakeUnitsOnce' /\ SelectionsFit'
  <2>1. edit'[q].op = "purchase checked" /\ \A r \in Requests : r # q => edit'[r] = edit[r]
    BY <1>3, <1>a DEF CheckPurchase, Edit
  <2> QED BY <1>0, <1>3, <2>1, StockStays, SelectionsStay DEF CheckPurchase
<1>4. ASSUME NEW q \in Requests, NEW o \in Orders, WritePurchase(q, o)
      PROVE  SalesTakeUnitsOnce' /\ SelectionsFit'
  <2>1. edit'[q].op = "idle" /\ \A r \in Requests : r # q => edit'[r] = edit[r]
    BY <1>4, <1>a DEF WritePurchase, NoEdit
  <2> QED BY <1>0, <1>4, <2>1, StockStays, SelectionsStay DEF WritePurchase
<1>5. ASSUME NEW u \in Purchases, ConfirmPurchase(u)
      PROVE  SalesTakeUnitsOnce' /\ SelectionsFit'
  <2>1. SelectionsFit'
    BY <1>0, <1>5, SelectionsStay DEF ConfirmPurchase
  <2> QED BY <1>5, <2>1, PurchaseKeeps
<1>6. ASSUME NEW u \in Purchases, CancelPurchase(u)
      PROVE  SalesTakeUnitsOnce' /\ SelectionsFit'
  BY <1>0, <1>6, StockStays, SelectionsStay DEF CancelPurchase
<1>7. ASSUME NEW p \in Products, NEW n \in 1..MaxAdjusted, NEW S \in SUBSET Serials,
             AdjustUp(p, n, S)
      PROVE  SalesTakeUnitsOnce' /\ SelectionsFit'
  <2>1. SelectionsFit'
    BY <1>0, <1>7, SelectionsStay DEF AdjustUp
  <2> QED BY <1>7, <2>1, AdjustUpKeeps
<1>8. ASSUME NEW p \in Products, NEW n \in 1..MaxAdjusted, NEW S \in SUBSET Serials,
             AdjustDown(p, n, S)
      PROVE  SalesTakeUnitsOnce' /\ SelectionsFit'
  <2>1. SelectionsFit'
    BY <1>0, <1>8, SelectionsStay DEF AdjustDown
  <2> QED BY <1>8, <2>1, AdjustDownKeeps
<1>9. ASSUME NEW a \in Sales, NEW o \in Orders, OpenSale(a, o)
      PROVE  SalesTakeUnitsOnce' /\ SelectionsFit'
  <2>1. \A b \in Sales : sale[b].status # "absent" => sale'[b] = sale[b]
    BY <1>9, <1>a DEF OpenSale
  <2>2. sale[a].status = "absent" /\ sale'[a].status = "open"
        /\ \A b \in Sales : b # a => sale'[b] = sale[b]
    BY <1>9, <1>a DEF OpenSale
  <2>3. SalesTakeUnitsOnce'
    BY <1>9, <2>2, StockStays DEF OpenSale
  <2>4. SelectionsFit'
    BY <1>0, <1>9, <2>1, SelectionsStay DEF OpenSale
  <2> QED BY <2>3, <2>4
<1>10. ASSUME NEW q \in Requests, NEW a \in Sales, NEW o \in Orders, ReadSerials(q, a, o)
       PROVE  SalesTakeUnitsOnce' /\ SelectionsFit'
  <2>1. /\ edit'[q].id = a /\ edit'[q].lines = o
        /\ \A r \in Requests : r # q => edit'[r] = edit[r]
        /\ sale' = sale /\ sale[a].status = "open" /\ o.qty = sale[a].lines.qty
    BY <1>10, <1>a DEF ReadSerials, NoEdit, Selectable
  <2>2. SelectionsFit'
    BY <1>0, <2>1 DEF SelectionsFit
  <2>3. SalesTakeUnitsOnce'
    BY <1>10, StockStays DEF ReadSerials
  <2> QED BY <2>2, <2>3
<1>11. ASSUME NEW q \in Requests, WriteSerials(q)
       PROVE  SalesTakeUnitsOnce' /\ SelectionsFit'
  <2>1. /\ edit[q].id \in Sales /\ sale[edit[q].id].status # "absent"
        /\ edit[q].lines.qty = sale[edit[q].id].lines.qty
    BY <1>0, <1>11 DEF WriteSerials, SelectionsFit
  <2>2. \A b \in Sales : sale'[b].status = sale[b].status /\ sale'[b].lines.qty = sale[b].lines.qty
    BY <1>11, <1>a, <2>1 DEF WriteSerials, Sale
  <2>3. edit'[q].op = "idle" /\ \A r \in Requests : r # q => edit'[r] = edit[r]
    BY <1>11, <1>a DEF WriteSerials, NoEdit
  <2> QED BY <1>0, <1>11, <2>2, <2>3, StockStays, SelectionsStay DEF WriteSerials
<1>12. ASSUME NEW a \in Sales, CompleteSale(a)
       PROVE  SalesTakeUnitsOnce' /\ SelectionsFit'
  <2>1. \A b \in Sales : /\ sale'[b].lines = sale[b].lines
                         /\ sale[b].status # "absent" => sale'[b].status # "absent"
    BY <1>12, <1>a DEF CompleteSale, Sale
  <2>2. SelectionsFit'
    BY <1>0, <1>12, <2>1, SelectionsStay DEF CompleteSale
  <2> QED BY <1>12, <2>2, DeliveryKeeps
<1>13. ASSUME NEW q \in Requests, NEW p \in Products, ReadProduct(q, p)
       PROVE  SalesTakeUnitsOnce' /\ SelectionsFit'
  <2>1. edit'[q].op = "product" /\ \A r \in Requests : r # q => edit'[r] = edit[r]
    BY <1>13, <1>a DEF ReadProduct, NoEdit
  <2> QED BY <1>0, <1>13, <2>1, StockStays, SelectionsStay DEF ReadProduct
<1>14. ASSUME NEW q \in Requests, WriteProduct(q) \/ AbandonEdit(q)
       PROVE  SalesTakeUnitsOnce' /\ SelectionsFit'
  <2>1. edit'[q].op = "idle" /\ \A r \in Requests : r # q => edit'[r] = edit[r]
    BY <1>14, <1>a DEF WriteProduct, AbandonEdit, NoEdit
  <2> QED BY <1>0, <1>14, <2>1, StockStays, SelectionsStay DEF WriteProduct, AbandonEdit
<1>15. ASSUME UNCHANGED vars
       PROVE  SalesTakeUnitsOnce' /\ SelectionsFit'
  BY <1>0, <1>15, StockStays, SelectionsStay DEF vars
<1> QED
  BY <1>1, <1>2, <1>3, <1>4, <1>5, <1>6, <1>7, <1>8, <1>9, <1>10, <1>11, <1>12, <1>13,
     <1>14, <1>15 DEF Next

\* Sold and removed units stay what they are, and deliveries are final.
LEMMA LeftStep ==
    ASSUME StockInv, [Next]_vars
    PROVE  /\ \A s \in Serials : unit[s].status \in {"sold", "removed"} => unit'[s] = unit[s]
           /\ \A a \in Sales : sale[a].status = "deducted" => sale'[a].status = "deducted"
<1> DEFINE Units  == \A s \in Serials : unit[s].status \in {"sold", "removed"} => unit'[s] = unit[s]
           Gone   == \A a \in Sales : sale[a].status = "deducted" => sale'[a].status = "deducted"
<1>0. TypeOK
  BY DEF StockInv
<1>a. sale \in [Sales -> Sale]
  BY <1>0 DEF TypeOK
<1>1. ASSUME NEW u \in Purchases, ConfirmPurchase(u) PROVE Units /\ Gone
  BY <1>1 DEF ConfirmPurchase, NotReceived
<1>2. ASSUME NEW p \in Products, NEW n \in 1..MaxAdjusted, NEW S \in SUBSET Serials,
             AdjustUp(p, n, S)
      PROVE  Units /\ Gone
  BY <1>2 DEF AdjustUp, NotReceived
<1>3. ASSUME NEW p \in Products, NEW n \in 1..MaxAdjusted, NEW S \in SUBSET Serials,
             AdjustDown(p, n, S)
      PROVE  Units /\ Gone
  BY <1>3 DEF AdjustDown, Available
<1>4. ASSUME NEW a \in Sales, NEW o \in Orders, OpenSale(a, o) PROVE Units /\ Gone
  BY <1>4, <1>a DEF OpenSale
<1>5. ASSUME NEW q \in Requests, WriteSerials(q) PROVE Units /\ Gone
  <2>1. edit[q].id \in Sales
    BY <1>5 DEF WriteSerials, StockInv, SelectionsFit
  <2>2. \A a \in Sales : sale'[a].status = sale[a].status
    BY <1>5, <1>a, <2>1 DEF WriteSerials, Sale
  <2> QED BY <1>5, <2>2 DEF WriteSerials
<1>6. ASSUME NEW a \in Sales, CompleteSale(a) PROVE Units /\ Gone
  <2>1. ASSUME NEW s \in Taken(sale[a].lines) PROVE unit[s].status = "available"
    <3>1. PICK p \in Serialized : s \in sale[a].lines.serials[p]
      BY DEF Taken
    <3>2. Available(sale[a].lines.serials[p], p)
      BY <1>6 DEF CompleteSale
    <3> QED BY <3>1, <3>2 DEF Available
  <2>2. \A b \in Sales : sale[b].status = "deducted" => sale'[b].status = "deducted"
    BY <1>6, <1>a DEF CompleteSale, Sale
  <2> QED BY <1>6, <2>1, <2>2 DEF CompleteSale
<1>7. CASE UNCHANGED <<unit, sale>>
  BY <1>7
<1>8. Units /\ Gone
  BY <1>1, <1>2, <1>3, <1>4, <1>5, <1>6, <1>7 DEF Next, vars, CreatePurchase, ReadPurchase,
     CheckPurchase, WritePurchase, CancelPurchase, ReadSerials, ReadProduct, WriteProduct,
     AbandonEdit
<1> QED
  BY <1>8

\* What a sale took is counted once in movements, balances and units, and comes
\* back under no request, however requests overlap.
THEOREM UnitsLeave == Spec => UnitsLeaveOnce
<1>1. StockInv => SalesTakeUnitsOnce
  BY DEF StockInv
<1>2. StockInv /\ [Next]_vars =>
        [/\ \A s \in Serials : unit[s].status \in {"sold", "removed"} => unit'[s] = unit[s]
         /\ \A a \in Sales : sale[a].status = "deducted" => sale'[a].status = "deducted"]_vars
  BY LeftStep
<1> QED
  BY <1>1, <1>2, StockInit, StockStep, PTL DEF Spec, UnitsLeaveOnce, LeftStaysLeft

-----------------------------------------------------------------------------
(* What is stored twice agrees while requests do not overlap.               *)

Confirmed(pu)   == {u \in Purchases : pu[u].status = "confirmed"}
Bought(pu, p)   == [u \in Purchases |-> pu[u].lines.qty[p]]

\* What a request read is still what the row says.
EditsAreFresh ==
    \A q \in Requests :
        /\ edit[q].op \in {"purchase", "purchase checked"} =>
               edit[q].id \in Purchases /\ purchase[edit[q].id].status = "draft"
        /\ edit[q].op = "serials" => sale[edit[q].id].status = "open"
        /\ edit[q].op = "product" => edit[q].id \in Products /\ edit[q].shelf = shelf[edit[q].id]

CopyInv == StockInv /\ PurchasesArriveOnce /\ CopiesAgree /\ EditsAreFresh

LEMMA CopyInit == Init => CopyInv
<1> SUFFICES ASSUME Init PROVE CopyInv
  OBVIOUS
<1>1. StockInv
  BY StockInit
<1>2. PurchasesArriveOnce
  <2>1. Confirmed(purchase) = {}
    BY DEF Init, Confirmed, NoPurchase
  <2>2. \A p \in Products : SumOf(Confirmed(purchase), Bought(purchase, p)) = 0
    BY <2>1, SumEmpty
  <2>3. \A p \in Products : movement[p]["purchase"] = 0
    BY DEF Init, Sources
  <2> QED BY <2>2, <2>3 DEF PurchasesArriveOnce, Confirmed, Bought
<1>3. CopiesAgree
  BY DEF Init, CopiesAgree, ShelfShowsBalance, SelectionsNameSoldUnits
<1>4. EditsAreFresh
  BY DEF Init, EditsAreFresh, NoEdit
<1> QED
  BY <1>1, <1>2, <1>3, <1>4 DEF CopyInv

\* Purchases go on being posted once while the confirmed ones and what they
\* brought in stay as they are.
LEMMA ArrivalsStay ==
    ASSUME PurchasesArriveOnce,
           \A p \in Products : movement'[p]["purchase"] = movement[p]["purchase"],
           \A u \in Purchases :
               /\ purchase'[u].status = "confirmed" <=> purchase[u].status = "confirmed"
               /\ purchase[u].status = "confirmed" => purchase'[u].lines.qty = purchase[u].lines.qty
    PROVE  PurchasesArriveOnce'
<1>1. Confirmed(purchase') = Confirmed(purchase)
  BY DEF Confirmed
<1>2. ASSUME NEW p \in Products
      PROVE  movement'[p]["purchase"] = SumOf(Confirmed(purchase'), Bought(purchase', p))
  <2>1. \A u \in Confirmed(purchase) : Bought(purchase', p)[u] = Bought(purchase, p)[u]
    BY DEF Confirmed, Bought
  <2>2. SumOf(Confirmed(purchase), Bought(purchase', p)) = SumOf(Confirmed(purchase), Bought(purchase, p))
    BY <2>1, SumAgree
  <2>3. movement[p]["purchase"] = SumOf(Confirmed(purchase), Bought(purchase, p))
    BY DEF PurchasesArriveOnce, Confirmed, Bought
  <2> QED BY <1>1, <2>2, <2>3
<1> QED
  BY <1>2 DEF PurchasesArriveOnce, Confirmed, Bought

\* A movement leaves every product it touches with its balance on the shelf.
LEMMA ShelfMoves ==
    ASSUME TypeOK, ShelfShowsBalance, NEW D \in SUBSET Products, NEW delta \in [Products -> Int],
           NEW source \in Sources \ {"legacy"}, Move(D, delta, source)
    PROVE  ShelfShowsBalance'
  BY DEF Move, ShelfAfter, ShelfShowsBalance

\* A movement of another source is none of purchases.
LEMMA OtherSource ==
    ASSUME TypeOK, NEW D, NEW delta, NEW source \in {"sale", "adjustment"}, Move(D, delta, source)
    PROVE  \A p \in Products : movement'[p]["purchase"] = movement[p]["purchase"]
<1> SUFFICES ASSUME NEW p \in Products PROVE movement'[p]["purchase"] = movement[p]["purchase"]
  OBVIOUS
<1>1. /\ movement[p] \in [Sources -> Int] /\ "purchase" \in Sources
      /\ \/ movement'[p] = movement[p]
         \/ movement'[p] = [movement[p] EXCEPT !["legacy"] = Opening(p), ![source] = @ + delta[p]]
  BY DEF TypeOK, Move, Sources
<1> QED
  BY <1>1

\* A sale that is not delivered has no units, so a step that keeps the units of
\* sales keeps what their selections name.
LEMMA SelectionsNamed ==
    ASSUME SelectionsNameSoldUnits,
           \A s \in Serials : unit'[s].sale # unit[s].sale \/ unit'[s].product # unit[s].product =>
               unit[s].sale = Nothing /\ unit'[s].sale = Nothing,
           \A a \in Sales : sale'[a].status = "deducted" =>
               sale[a].status = "deducted" /\ sale'[a].lines = sale[a].lines
    PROVE  SelectionsNameSoldUnits'
<1> SUFFICES ASSUME NEW a \in Sales, sale'[a].status = "deducted", NEW p \in Serialized
             PROVE  sale'[a].lines.serials[p] = SoldBy(unit', a, p)
  BY DEF SelectionsNameSoldUnits, SoldBy
<1>1. sale[a].lines.serials[p] = SoldBy(unit, a, p)
  BY DEF SelectionsNameSoldUnits, SoldBy
<1>2. SoldBy(unit', a, p) = SoldBy(unit, a, p)
  BY NullId DEF SoldBy
<1> QED
  BY <1>1, <1>2

\* Outside an edit nothing has been read, when requests do not overlap.
LEMMA NothingRead ==
    ASSUME Overlap = FALSE, Quiet
    PROVE  \A q \in Requests : edit[q].op = "idle"
  BY DEF Quiet, NoEdit

\* A received purchase is posted with what it lists.
LEMMA ArrivalCounts ==
    ASSUME TypeOK, PurchasesArriveOnce, NEW u \in Purchases, ConfirmPurchase(u)
    PROVE  PurchasesArriveOnce'
<1> DEFINE o == purchase[u].lines
           D == Ordered(o)
<1>1. /\ o \in OrderLines /\ o.qty \in [Products -> Nat] /\ D \in SUBSET Products
      /\ o.qty \in [Products -> Int]
  <2>1. o \in OrderLines
    BY DEF TypeOK, Purchase
  <2> QED BY <2>1, OrderTyped
<1>2. Move(D, o.qty, "purchase") /\ purchase[u].status = "draft"
  BY DEF ConfirmPurchase, Confirmable
<1>3. /\ purchase'[u].status = "confirmed" /\ purchase'[u].lines = o
      /\ \A v \in Purchases : v # u => purchase'[v] = purchase[v]
  BY DEF ConfirmPurchase, TypeOK, Purchase
<1>b. \A p \in Products : p \notin D => o.qty[p] = 0
  BY <1>1 DEF Ordered
<1> HIDE DEF o, D
<1> SUFFICES ASSUME NEW p \in Products
             PROVE  movement'[p]["purchase"] = SumOf(Confirmed(purchase'), Bought(purchase', p))
  BY DEF PurchasesArriveOnce, Confirmed, Bought
<1> DEFINE f == Bought(purchase, p)
           g == Bought(purchase', p)
           S == Confirmed(purchase)
<1>4. Confirmed(purchase') = S \cup {u} /\ u \notin S
  BY <1>2, <1>3 DEF Confirmed
<1>5. g[u] = o.qty[p] /\ \A v \in S : g[v] = f[v]
  BY <1>3, <1>4 DEF Bought, Confirmed
<1>6. \A v \in Purchases : f[v] \in Nat
  BY DEF TypeOK, Purchase, OrderLines, Bought
<1>7. movement[p]["purchase"] = SumOf(S, f)
  BY DEF PurchasesArriveOnce, Confirmed, Bought
<1>8. IsFiniteSet(S) /\ S \subseteq Purchases
  <2>1. S \subseteq Purchases
    BY DEF Confirmed
  <2> QED BY <2>1, Documents, FS_Subset
<1>9. g[u] \in Nat /\ \A v \in S : g[v] \in Nat
  BY <1>1, <1>5, <1>6, <1>8
<1>10. "purchase" \in Sources \ {"legacy"} /\ movement[p]["purchase"] \in Int
  BY DEF Sources, TypeOK
<1>11. movement'[p]["purchase"] = movement[p]["purchase"] + o.qty[p]
  <2>1. CASE p \in D
    BY <1>1, <1>2, <1>10, <2>1, SourceMoves
  <2>2. CASE p \notin D
    <3>1. movement'[p] = movement[p]
      BY <1>2, <2>2 DEF Move
    <3> QED BY <1>b, <1>10, <2>2, <3>1
  <2> QED BY <2>1, <2>2
<1> HIDE DEF f, g, S
<1>12. SumOf(S \cup {u}, g) = SumOf(S, g) + g[u]
  BY <1>4, <1>8, <1>9, SumAdd
<1>13. SumOf(S, g) = SumOf(S, f)
  BY <1>5, SumAgree
<1> QED
  BY <1>4, <1>5, <1>7, <1>11, <1>12, <1>13 DEF g

LEMMA CopyStep ==
    ASSUME Overlap = FALSE, CopyInv, [Next]_vars
    PROVE  CopyInv'
<1> DEFINE Goal == PurchasesArriveOnce' /\ CopiesAgree' /\ EditsAreFresh'
<1>0. /\ StockInv /\ StockInv' /\ TypeOK /\ PurchasesArriveOnce /\ ShelfShowsBalance
      /\ SelectionsNameSoldUnits /\ EditsAreFresh /\ SelectionsFit
  BY StockStep DEF CopyInv, CopiesAgree, StockInv
<1>a. /\ edit \in [Requests -> Edit] /\ sale \in [Sales -> Sale]
      /\ purchase \in [Purchases -> Purchase] /\ shelf \in [Products -> Quantity]
  BY <1>0 DEF TypeOK
<1>b. Quiet => \A q \in Requests : edit[q].op = "idle"
  BY NothingRead
<1>c. ASSUME UNCHANGED <<shelf, balance, movement, unit, purchase>>,
             \A a \in Sales : sale'[a].status = "deducted" =>
                 sale[a].status = "deducted" /\ sale'[a].lines = sale[a].lines
      PROVE  PurchasesArriveOnce' /\ CopiesAgree'
  <2>1. PurchasesArriveOnce'
    BY <1>0, <1>c, ArrivalsStay
  <2>2. ShelfShowsBalance'
    BY <1>0, <1>c DEF ShelfShowsBalance
  <2>3. SelectionsNameSoldUnits'
    BY <1>0, <1>c, SelectionsNamed
  <2> QED BY <2>1, <2>2, <2>3 DEF CopiesAgree
<1>d. ASSUME UNCHANGED <<shelf, balance, movement, unit, sale>>,
             \A u \in Purchases :
                \/ purchase[u].status # "confirmed" /\ purchase'[u].status # "confirmed"
                \/ purchase'[u] = purchase[u]
      PROVE  PurchasesArriveOnce' /\ CopiesAgree'
  <2>1. PurchasesArriveOnce'
    BY <1>0, <1>d, ArrivalsStay
  <2>2. ShelfShowsBalance'
    BY <1>0, <1>d DEF ShelfShowsBalance
  <2>3. SelectionsNameSoldUnits'
    BY <1>0, <1>d, SelectionsNamed
  <2> QED BY <2>1, <2>2, <2>3 DEF CopiesAgree
<1>e. ASSUME Quiet, edit' = edit PROVE EditsAreFresh'
  BY <1>b, <1>e DEF EditsAreFresh
<1>1. ASSUME NEW u \in Purchases, NEW o \in Orders, CreatePurchase(u, o) PROVE Goal
  <2>1. \A v \in Purchases :
           \/ purchase[v].status # "confirmed" /\ purchase'[v].status # "confirmed"
           \/ purchase'[v] = purchase[v]
    BY <1>1, <1>a DEF CreatePurchase, NoPurchase
  <2> QED BY <1>1, <1>d, <1>e, <2>1 DEF CreatePurchase
<1>2. ASSUME NEW q \in Requests, NEW u \in Purchases, ReadPurchase(q, u) PROVE Goal
  <2>1. PurchasesArriveOnce' /\ CopiesAgree'
    BY <1>2, <1>c DEF ReadPurchase
  <2>2. /\ edit'[q].op = "purchase" /\ edit'[q].id = u
        /\ \A r \in Requests : r # q => edit'[r] = edit[r]
    BY <1>2, <1>a DEF ReadPurchase, NoEdit
  <2>3. EditsAreFresh'
    BY <1>b, <1>2, <2>2 DEF ReadPurchase, EditsAreFresh
  <2> QED BY <2>1, <2>3
<1>3. ASSUME NEW q \in Requests, CheckPurchase(q) PROVE Goal
  <2>1. PurchasesArriveOnce' /\ CopiesAgree'
    BY <1>3, <1>c DEF CheckPurchase
  <2>2. /\ edit[q].op = "purchase" /\ edit'[q].op = "purchase checked" /\ edit'[q].id = edit[q].id
        /\ \A r \in Requests : r # q => edit'[r] = edit[r]
    BY <1>3, <1>a DEF CheckPurchase, Edit
  <2>3. EditsAreFresh'
    <3>1. /\ UNCHANGED <<shelf, sale>>
          /\ purchase' = purchase
      BY <1>3 DEF CheckPurchase
    <3> SUFFICES ASSUME NEW r \in Requests
                 PROVE  /\ edit'[r].op \in {"purchase", "purchase checked"} =>
                               edit'[r].id \in Purchases /\ purchase'[edit'[r].id].status = "draft"
                        /\ edit'[r].op = "serials" => sale'[edit'[r].id].status = "open"
                        /\ edit'[r].op = "product" =>
                               edit'[r].id \in Products /\ edit'[r].shelf = shelf'[edit'[r].id]
      BY DEF EditsAreFresh
    <3>2. CASE r = q
      BY <1>0, <2>2, <3>1, <3>2 DEF EditsAreFresh
    <3>3. CASE r # q
      <4>1. edit'[r] = edit[r]
        BY <2>2, <3>3
      <4>2. /\ edit[r].op \in {"purchase", "purchase checked"} =>
                    edit[r].id \in Purchases /\ purchase[edit[r].id].status = "draft"
            /\ edit[r].op = "serials" => sale[edit[r].id].status = "open"
            /\ edit[r].op = "product" =>
                    edit[r].id \in Products /\ edit[r].shelf = shelf[edit[r].id]
        BY <1>0 DEF EditsAreFresh
      <4> QED BY <3>1, <4>1, <4>2
    <3> QED BY <3>2, <3>3
  <2> QED BY <2>1, <2>3
<1>4. ASSUME NEW q \in Requests, NEW o \in Orders, WritePurchase(q, o) PROVE Goal
  <2> DEFINE u == edit[q].id
  <2>1. u \in Purchases /\ purchase[u].status = "draft"
    BY <1>0, <1>4 DEF WritePurchase, EditsAreFresh
  <2>2. purchase'[u].status = "draft" /\ \A v \in Purchases : v # u => purchase'[v] = purchase[v]
    BY <1>4, <1>a, <2>1 DEF WritePurchase, Purchase
  <2>3. edit'[q].op = "idle" /\ \A r \in Requests : r # q => edit'[r] = edit[r]
    BY <1>4, <1>a DEF WritePurchase, NoEdit
  <2> HIDE DEF u
  <2>4. PurchasesArriveOnce' /\ CopiesAgree'
    BY <1>4, <1>d, <2>1, <2>2 DEF WritePurchase
  <2>5. EditsAreFresh'
    <3>1. /\ UNCHANGED <<shelf, sale>>
          /\ \A v \in Purchases : purchase[v].status = "draft" => purchase'[v].status = "draft"
      BY <1>4, <2>2 DEF WritePurchase
    <3> SUFFICES ASSUME NEW r \in Requests
                 PROVE  /\ edit'[r].op \in {"purchase", "purchase checked"} =>
                               edit'[r].id \in Purchases /\ purchase'[edit'[r].id].status = "draft"
                        /\ edit'[r].op = "serials" => sale'[edit'[r].id].status = "open"
                        /\ edit'[r].op = "product" =>
                               edit'[r].id \in Products /\ edit'[r].shelf = shelf'[edit'[r].id]
      BY DEF EditsAreFresh
    <3>2. CASE r = q
      BY <1>0, <2>3, <3>1, <3>2 DEF EditsAreFresh
    <3>3. CASE r # q
      <4>1. edit'[r] = edit[r]
        BY <2>3, <3>3
      <4>2. /\ edit[r].op \in {"purchase", "purchase checked"} =>
                    edit[r].id \in Purchases /\ purchase[edit[r].id].status = "draft"
            /\ edit[r].op = "serials" => sale[edit[r].id].status = "open"
            /\ edit[r].op = "product" =>
                    edit[r].id \in Products /\ edit[r].shelf = shelf[edit[r].id]
        BY <1>0 DEF EditsAreFresh
      <4> QED BY <3>1, <4>1, <4>2
    <3> QED BY <3>2, <3>3
  <2> QED BY <2>4, <2>5
<1>5. ASSUME NEW u \in Purchases, ConfirmPurchase(u) PROVE Goal
  <2> DEFINE o == purchase[u].lines
  <2>1. PurchasesArriveOnce'
    BY <1>0, <1>5, ArrivalCounts
  <2>2. ShelfShowsBalance'
    <3>1. o \in OrderLines
      BY <1>a DEF Purchase
    <3>2. Ordered(o) \in SUBSET Products /\ o.qty \in [Products -> Int]
      BY <3>1, OrderTyped
    <3>3. Move(Ordered(o), o.qty, "purchase") /\ "purchase" \in Sources \ {"legacy"}
      BY <1>5 DEF ConfirmPurchase, Sources
    <3> HIDE DEF o
    <3> QED BY <1>0, <3>2, <3>3, ShelfMoves
  <2>3. SelectionsNameSoldUnits'
    <3>1. \A s \in Serials : unit'[s] = unit[s] \/ (unit[s].sale = Nothing /\ unit'[s].sale = Nothing)
      BY <1>0, <1>5, NewUnitsUnsold DEF ConfirmPurchase, NotReceived, NoUnit
    <3> QED BY <1>0, <1>5, <3>1, SelectionsNamed DEF ConfirmPurchase
  <2> QED BY <1>5, <1>e, <2>1, <2>2, <2>3 DEF ConfirmPurchase, CopiesAgree
<1>6. ASSUME NEW u \in Purchases, CancelPurchase(u) PROVE Goal
  <2>1. \A v \in Purchases :
           \/ purchase[v].status # "confirmed" /\ purchase'[v].status # "confirmed"
           \/ purchase'[v] = purchase[v]
    BY <1>6, <1>a DEF CancelPurchase, Purchase
  <2> QED BY <1>6, <1>d, <1>e, <2>1 DEF CancelPurchase
<1>7. ASSUME NEW p \in Products, NEW n \in 1..MaxAdjusted, NEW S \in SUBSET Serials,
             AdjustUp(p, n, S) \/ AdjustDown(p, n, S)
      PROVE  Goal
  <2>1. \E d \in Int : Move({p}, [r \in Products |-> d], "adjustment")
    <3>1. n \in Int /\ -n \in Int
      BY Bounds
    <3> QED BY <1>7, <3>1 DEF AdjustUp, AdjustDown
  <2>2. PICK d \in Int : Move({p}, [r \in Products |-> d], "adjustment")
    BY <2>1
  <2> DEFINE delta == [r \in Products |-> d]
  <2>3. /\ Move({p}, delta, "adjustment") /\ delta \in [Products -> Int] /\ {p} \in SUBSET Products
        /\ "adjustment" \in Sources \ {"legacy"}
    BY <2>2 DEF Sources
  <2> HIDE DEF delta
  <2>4. purchase' = purchase /\ sale' = sale /\ edit' = edit /\ Quiet
    BY <1>7 DEF AdjustUp, AdjustDown
  <2>5. PurchasesArriveOnce'
    <3>1. \A r \in Products : movement'[r]["purchase"] = movement[r]["purchase"]
      BY <1>0, <2>3, OtherSource
    <3> QED BY <1>0, <2>4, <3>1, ArrivalsStay
  <2>6. ShelfShowsBalance'
    BY <1>0, <2>3, ShelfMoves
  <2>7. SelectionsNameSoldUnits'
    <3>1. CASE AdjustUp(p, n, S)
      <4>1. \A s \in Serials : unit'[s] = unit[s] \/ (unit[s].sale = Nothing /\ unit'[s].sale = Nothing)
        BY <1>0, <3>1, NewUnitsUnsold DEF AdjustUp, NotReceived, NoUnit
      <4> QED BY <1>0, <2>4, <4>1, SelectionsNamed
    <3>2. CASE AdjustDown(p, n, S)
      <4>1. \A s \in Serials : unit[s] \in Unit
        BY <1>0 DEF TypeOK
      <4>2. \A s \in Serials : unit'[s] = unit[s] \/ unit'[s] = [unit[s] EXCEPT !.status = "removed"]
        BY <3>2 DEF AdjustDown
      <4>3. \A s \in Serials : unit'[s].sale = unit[s].sale /\ unit'[s].product = unit[s].product
        BY <4>1, <4>2 DEF Unit
      <4> QED BY <1>0, <2>4, <4>3, SelectionsNamed
    <3> QED BY <1>7, <3>1, <3>2
  <2> QED BY <1>e, <2>4, <2>5, <2>6, <2>7 DEF CopiesAgree
<1>8. ASSUME NEW a \in Sales, NEW o \in Orders, OpenSale(a, o) PROVE Goal
  <2>1. \A b \in Sales : sale'[b].status = "deducted" =>
            sale[b].status = "deducted" /\ sale'[b].lines = sale[b].lines
    BY <1>8, <1>a DEF OpenSale
  <2> QED BY <1>8, <1>c, <1>e, <2>1 DEF OpenSale
<1>9. ASSUME NEW q \in Requests, NEW a \in Sales, NEW o \in Orders, ReadSerials(q, a, o) PROVE Goal
  <2>1. PurchasesArriveOnce' /\ CopiesAgree'
    BY <1>9, <1>c DEF ReadSerials
  <2>2. /\ edit'[q].op = "serials" /\ edit'[q].id = a
        /\ \A r \in Requests : r # q => edit'[r] = edit[r]
    BY <1>9, <1>a DEF ReadSerials, NoEdit
  <2>3. EditsAreFresh'
    BY <1>b, <1>9, <2>2 DEF ReadSerials, Selectable, EditsAreFresh
  <2> QED BY <2>1, <2>3
<1>10. ASSUME NEW q \in Requests, WriteSerials(q) PROVE Goal
  <2>1. edit[q].id \in Sales /\ sale[edit[q].id].status = "open"
    BY <1>0, <1>10 DEF WriteSerials, SelectionsFit, EditsAreFresh
  <2>2. /\ \A b \in Sales : sale'[b].status = sale[b].status
        /\ \A b \in Sales : b # edit[q].id => sale'[b] = sale[b]
    BY <1>10, <1>a, <2>1 DEF WriteSerials, Sale
  <2>3. edit'[q].op = "idle" /\ \A r \in Requests : r # q => edit'[r] = edit[r]
    BY <1>10, <1>a DEF WriteSerials, NoEdit
  <2>4. PurchasesArriveOnce' /\ CopiesAgree'
    BY <1>10, <1>c, <2>1, <2>2 DEF WriteSerials
  <2>5. EditsAreFresh'
    <3>1. /\ UNCHANGED <<shelf, purchase>>
          /\ \A b \in Sales : sale'[b].status = sale[b].status
      BY <1>10, <2>2 DEF WriteSerials
    <3> SUFFICES ASSUME NEW r \in Requests
                 PROVE  /\ edit'[r].op \in {"purchase", "purchase checked"} =>
                               edit'[r].id \in Purchases /\ purchase'[edit'[r].id].status = "draft"
                        /\ edit'[r].op = "serials" => sale'[edit'[r].id].status = "open"
                        /\ edit'[r].op = "product" =>
                               edit'[r].id \in Products /\ edit'[r].shelf = shelf'[edit'[r].id]
      BY DEF EditsAreFresh
    <3>2. CASE r = q
      BY <1>0, <2>3, <3>1, <3>2 DEF EditsAreFresh
    <3>3. CASE r # q
      <4>1. edit'[r] = edit[r]
        BY <2>3, <3>3
      <4>2. /\ edit[r].op \in {"purchase", "purchase checked"} =>
                    edit[r].id \in Purchases /\ purchase[edit[r].id].status = "draft"
            /\ edit[r].op = "serials" => edit[r].id \in Sales /\ sale[edit[r].id].status = "open"
            /\ edit[r].op = "product" =>
                    edit[r].id \in Products /\ edit[r].shelf = shelf[edit[r].id]
        BY <1>0 DEF EditsAreFresh, SelectionsFit
      <4> QED BY <3>1, <4>1, <4>2
    <3> QED BY <3>2, <3>3
  <2> QED BY <2>4, <2>5
<1>11. ASSUME NEW a \in Sales, CompleteSale(a) PROVE Goal
  <2> DEFINE o == sale[a].lines
             delta == [p \in Products |-> -o.qty[p]]
  <2>1. /\ Ordered(o) \in SUBSET Products /\ delta \in [Products -> Int]
        /\ Move(Ordered(o), delta, "sale") /\ "sale" \in Sources \ {"legacy"}
    <3>1. o \in OrderLines
      BY <1>a DEF Sale
    <3>2. Ordered(o) \in SUBSET Products /\ delta \in [Products -> Int]
      BY <3>1, OrderTyped
    <3> QED BY <1>11, <3>2 DEF CompleteSale, Sources
  <2>2. purchase' = purchase /\ edit' = edit /\ Quiet
    BY <1>11 DEF CompleteSale
  <2>3. /\ sale'[a].lines = o /\ \A b \in Sales : b # a => sale'[b] = sale[b]
    BY <1>11, <1>a DEF CompleteSale, Sale
  <2>4. SelectionsNameSoldUnits'
    <3> SUFFICES ASSUME NEW b \in Sales, sale'[b].status = "deducted", NEW p \in Serialized
                 PROVE  sale'[b].lines.serials[p] = SoldBy(unit', b, p)
      BY DEF SelectionsNameSoldUnits, SoldBy
    <3>1. CASE b = a
      BY <1>0, <1>11, <2>3, <3>1, DeliveryUnits
    <3>2. CASE b # a
      <4>1. SoldBy(unit', b, p) = SoldBy(unit, b, p)
        BY <1>0, <1>11, <3>2, DeliveryUnits
      <4> QED BY <1>0, <2>3, <3>2, <4>1 DEF SelectionsNameSoldUnits, SoldBy
    <3> QED BY <3>1, <3>2
  <2> HIDE DEF o, delta
  <2>5. PurchasesArriveOnce'
    <3>1. \A r \in Products : movement'[r]["purchase"] = movement[r]["purchase"]
      BY <1>0, <2>1, OtherSource
    <3> QED BY <1>0, <2>2, <3>1, ArrivalsStay
  <2>6. ShelfShowsBalance'
    BY <1>0, <2>1, ShelfMoves
  <2> QED BY <1>e, <2>2, <2>4, <2>5, <2>6 DEF CopiesAgree
<1>12. ASSUME NEW q \in Requests, NEW p \in Products, ReadProduct(q, p) PROVE Goal
  <2>1. PurchasesArriveOnce' /\ CopiesAgree'
    BY <1>12, <1>c DEF ReadProduct
  <2>2. /\ edit'[q].op = "product" /\ edit'[q].id = p /\ edit'[q].shelf = shelf[p]
        /\ \A r \in Requests : r # q => edit'[r] = edit[r]
    BY <1>12, <1>a DEF ReadProduct, NoEdit
  <2>3. EditsAreFresh'
    BY <1>b, <1>12, <2>2 DEF ReadProduct, EditsAreFresh
  <2> QED BY <2>1, <2>3
<1>13. ASSUME NEW q \in Requests, WriteProduct(q) \/ AbandonEdit(q) PROVE Goal
  <2>1. UNCHANGED <<balance, movement, unit, purchase, sale>>
    BY <1>13 DEF WriteProduct, AbandonEdit
  <2>2. shelf' = shelf
    BY <1>0, <1>13, <1>a DEF WriteProduct, AbandonEdit, EditsAreFresh
  <2>3. edit'[q].op = "idle" /\ \A r \in Requests : r # q => edit'[r] = edit[r]
    BY <1>13, <1>a DEF WriteProduct, AbandonEdit, NoEdit
  <2>4. PurchasesArriveOnce' /\ CopiesAgree'
    BY <1>c, <2>1, <2>2
  <2>5. EditsAreFresh'
    BY <1>0, <2>1, <2>2, <2>3 DEF EditsAreFresh
  <2> QED BY <2>4, <2>5
<1>14. ASSUME UNCHANGED vars PROVE Goal
  <2>1. PurchasesArriveOnce' /\ CopiesAgree'
    BY <1>14, <1>c DEF vars
  <2>2. EditsAreFresh'
    BY <1>0, <1>14 DEF vars, EditsAreFresh
  <2> QED BY <2>1, <2>2
<1>15. Goal
  <2> HIDE DEF Goal
  <2> QED BY <1>1, <1>2, <1>3, <1>4, <1>5, <1>6, <1>7, <1>8, <1>9, <1>10, <1>11, <1>12, <1>13,
             <1>14 DEF Next
<1> QED
  BY <1>0, <1>15 DEF CopyInv

\* What purchases brought in is what the confirmed ones list, each line posted
\* exactly once, while requests do not overlap.
THEOREM PurchasesPostedOnce ==
    ASSUME Overlap = FALSE
    PROVE  Spec => []PurchasesArriveOnce
<1>1. CopyInv => PurchasesArriveOnce
  BY DEF CopyInv
<1>2. CopyInv /\ [Next]_vars => CopyInv'
  BY CopyStep
<1> QED
  BY <1>1, <1>2, CopyInit, PTL DEF Spec

\* The shelf shows the balance and the selections of a delivered sale name the
\* units it took, while requests do not overlap.
THEOREM CopiesStayEqual ==
    ASSUME Overlap = FALSE
    PROVE  Spec => []CopiesAgree
<1>1. CopyInv => CopiesAgree
  BY DEF CopyInv
<1>2. CopyInv /\ [Next]_vars => CopyInv'
  BY CopyStep
<1> QED
  BY <1>1, <1>2, CopyInit, PTL DEF Spec

-----------------------------------------------------------------------------
(* Arithmetic of rounding.                                                     *)

LEMMA TimesMore ==
    ASSUME NEW a \in Nat, NEW b \in Nat, NEW c \in Nat, a <= b
    PROVE  a * c <= b * c
<1>1. PICK d \in Nat : b = a + d
  <2>1. b - a \in Nat /\ b = a + (b - a)
    OBVIOUS
  <2> QED
    BY <2>1
<1>2. b * c = a * c + d * c
  BY <1>1
<1>3. d * c \in Nat /\ a * c \in Nat
  OBVIOUS
<1> QED
  BY <1>2, <1>3

LEMMA TimesAbove ==
    ASSUME NEW a \in Nat, NEW b \in Nat, NEW c \in Nat, c > 0, a < b
    PROVE  a * c < b * c
<1>1. (a + 1) * c <= b * c
  BY TimesMore
<1>2. (a + 1) * c = a * c + c
  OBVIOUS
<1> QED
  BY <1>1, <1>2

\* What is left of a product when a common factor is taken off.
LEMMA FactorOff ==
    ASSUME NEW a \in Nat, NEW b \in Nat, NEW c \in Nat, a * c < b * c
    PROVE  a < b
<1> SUFFICES ASSUME b <= a PROVE FALSE
  OBVIOUS
<1>1. b * c <= a * c
  BY TimesMore
<1> QED
  BY <1>1

LEMMA DivMod ==
    ASSUME NEW a \in Nat, NEW b \in Nat, b > 0
    PROVE  a = b * (a \div b) + (a % b) /\ a % b \in 0..(b - 1) /\ (a \div b) \in Nat
  OBVIOUS

LEMMA HalfUpBounds ==
    ASSUME NEW n \in Nat, NEW d \in Nat, d > 0
    PROVE  /\ HalfUp(n, d) \in Nat
           /\ HalfUp(n, d) * (2 * d) <= 2 * n + d
           /\ 2 * n + d < (HalfUp(n, d) + 1) * (2 * d)
<1> DEFINE a == 2 * n + d
           b == 2 * d
<1>1. a \in Nat /\ b \in Nat /\ b > 0
  OBVIOUS
<1> HIDE DEF a, b
<1>2. (a \div b) \in Nat /\ (a \div b) * b <= a /\ a < ((a \div b) + 1) * b
  <2>1. a = b * (a \div b) + (a % b) /\ a % b \in 0..(b - 1)
    BY <1>1
  <2>2. (a \div b) \in Nat
    BY <1>1
  <2>3. ((a \div b) + 1) * b = b * (a \div b) + b
    BY <1>1, <2>2
  <2>4. b * (a \div b) \in Nat /\ (a \div b) * b = b * (a \div b)
    BY <1>1, <2>2
  <2> QED
    BY <1>1, <2>1, <2>2, <2>3, <2>4
<1> QED
  BY <1>2 DEF HalfUp, a, b

\* Half to even is within half a unit.
LEMMA EvenNear ==
    ASSUME NEW n \in Nat, NEW d \in Nat, d > 0
    PROVE  /\ HalfEven(n, d) \in Nat
           /\ 2 * (HalfEven(n, d) * d) <= 2 * n + d
           /\ 2 * n <= 2 * (HalfEven(n, d) * d) + d
<1> DEFINE q == HalfUp(n, d)
<1>1. q \in Nat /\ q * (2 * d) <= 2 * n + d /\ 2 * n + d < (q + 1) * (2 * d)
  BY HalfUpBounds
<1>2. HalfEven(n, d) \in {q, q - 1}
  BY DEF HalfEven
<1>3. HalfEven(n, d) # q => (2 * n) % d = 0 /\ ((2 * n) \div d) % 2 = 1 /\ q % 2 = 1
  BY DEF HalfEven
<1> HIDE DEF q
<1>4. q * (2 * d) = 2 * (q * d) /\ (q + 1) * (2 * d) = 2 * (q * d) + 2 * d /\ q * d \in Nat
  BY <1>1
<1>5. CASE HalfEven(n, d) = q
  BY <1>1, <1>4, <1>5
<1>6. CASE HalfEven(n, d) # q
  <2> DEFINE m == (2 * n) \div d
  <2>1. m \in Nat /\ 2 * n = d * m /\ m % 2 = 1 /\ q % 2 = 1
    <3> DEFINE a == 2 * n
    <3>1. a \in Nat
      OBVIOUS
    <3> HIDE DEF a
    <3>2. a = d * (a \div d) + (a % d) /\ (a \div d) \in Nat
      BY <3>1, DivMod
    <3> QED
      BY <1>3, <1>6, <3>2 DEF a
  <2> HIDE DEF m
  <2>2. 2 * q = m + 1
    <3>1. (2 * q) * d < (m + 2) * d /\ (m + 1) * d < (2 * q + 2) * d
      <4>1. (2 * q) * d = 2 * (q * d) /\ (m + 2) * d = d * m + 2 * d
            /\ (m + 1) * d = d * m + d /\ (2 * q + 2) * d = 2 * (q * d) + 2 * d
        BY <1>1, <2>1
      <4> QED
        BY <1>1, <1>4, <2>1, <4>1
    <3>2. 2 * q < m + 2
      BY <1>1, <2>1, <3>1, FactorOff
    <3>3. m + 1 < 2 * q + 2
      BY <1>1, <2>1, <3>1, FactorOff
    <3> QED
      BY <1>1, <2>1, <3>2, <3>3
  <2>3. HalfEven(n, d) = q - 1 /\ q - 1 \in Nat
    BY <1>1, <1>2, <1>6, <2>1
  <2>4. 2 * ((q - 1) * d) = 2 * (q * d) - 2 * d
    BY <1>1
  <2>5. 2 * (q * d) = d * m + d
    <3>1. (2 * q) * d = 2 * (q * d) /\ (m + 1) * d = d * m + d
      BY <1>1, <2>1
    <3> QED
      BY <2>2, <3>1
  <2> QED
    BY <1>4, <2>1, <2>3, <2>4, <2>5
<1> QED
  BY <1>5, <1>6

LEMMA HalfUpCents ==
    ASSUME NEW n \in Nat
    PROVE  /\ HalfUp(n, 100) \in Nat
           /\ 200 * HalfUp(n, 100) <= 2 * n + 100 /\ 2 * n + 100 < 200 * (HalfUp(n, 100) + 1)
  BY HalfUpBounds

\* Rounding cents of a hundredth: half to even is the nearest or, on a half, one below.
LEMMA EvenBounds ==
    ASSUME NEW n \in Nat
    PROVE  /\ HalfEven(n, 100) \in Nat
           /\ 100 * HalfEven(n, 100) - n <= 50 /\ n - 100 * HalfEven(n, 100) <= 50
           /\ HalfUp(n, 100) - HalfEven(n, 100) \in {0, 1}
           /\ HalfUp(n, 100) # HalfEven(n, 100) =>
                  n = 100 * HalfEven(n, 100) + 50 /\ HalfEven(n, 100) % 2 = 0
<1> DEFINE q == HalfUp(n, 100)
<1>1. /\ q \in Nat /\ 200 * q <= 2 * n + 100 /\ 2 * n + 100 < 200 * (q + 1)
  BY HalfUpCents
<1>2. CASE (2 * n) % 100 = 0 /\ ((2 * n) \div 100) % 2 = 1 /\ q % 2 = 1
  <2>1. HalfEven(n, 100) = q - 1 /\ q >= 1
    BY <1>1, <1>2 DEF HalfEven
  <2>2. n = 100 * (q - 1) + 50
    BY <1>1, <1>2
  <2> HIDE DEF q
  <2>3. (q - 1) % 2 = 0
    BY <1>1, <1>2
  <2> QED
    BY <1>1, <2>1, <2>2, <2>3 DEF q
<1>3. CASE ~((2 * n) % 100 = 0 /\ ((2 * n) \div 100) % 2 = 1 /\ q % 2 = 1)
  <2>1. HalfEven(n, 100) = q
    BY <1>3 DEF HalfEven
  <2> HIDE DEF q
  <2> QED
    BY <1>1, <2>1 DEF q
<1> QED
  BY <1>2, <1>3

\* A half is rounded to an even number.
LEMMA HalvesAreEven ==
    ASSUME NEW n \in Nat, n % 100 = 50
    PROVE  HalfEven(n, 100) % 2 = 0
<1> DEFINE q == HalfUp(n, 100)
<1>1. /\ q \in Nat /\ 200 * q <= 2 * n + 100 /\ 2 * n + 100 < 200 * (q + 1)
  BY HalfUpCents
<1>2. (2 * n) % 100 = 0 /\ ((2 * n) \div 100) % 2 = 1
  OBVIOUS
<1>3. HalfEven(n, 100) = IF q % 2 = 1 THEN q - 1 ELSE q
  BY <1>2 DEF HalfEven
<1> HIDE DEF q
<1> QED
  BY <1>1, <1>3

\* Half a unit more, or less than that, rounds to the next number at most.
LEMMA EvenStep ==
    ASSUME NEW n \in Nat, NEW m \in Nat, n <= m
    PROVE  /\ HalfEven(n, 100) <= HalfEven(m, 100)
           /\ m - n <= 50 => HalfEven(m, 100) <= HalfEven(n, 100) + 1
           /\ 1 <= m - n /\ m - n <= 50 /\ n % 100 = 50 /\ HalfUp(n, 100) # HalfEven(n, 100)
                  => HalfEven(m, 100) = HalfEven(n, 100) + 1
<1> DEFINE x == HalfEven(n, 100)
           y == HalfEven(m, 100)
<1>1. /\ x \in Nat /\ 100 * x - n <= 50 /\ n - 100 * x <= 50
      /\ HalfUp(n, 100) # x => n = 100 * x + 50 /\ x % 2 = 0
  BY EvenBounds
<1>2. /\ y \in Nat /\ 100 * y - m <= 50 /\ m - 100 * y <= 50
  BY EvenBounds
<1>3. n % 100 = 50 => x % 2 = 0
  BY HalvesAreEven
<1>4. m % 100 = 50 => y % 2 = 0
  BY HalvesAreEven
<1> HIDE DEF x, y
<1>5. x <= y
  <2> SUFFICES ASSUME y < x PROVE FALSE
    BY <1>1, <1>2
  <2>1. 100 * x - n = 50 /\ m - 100 * y = 50 /\ n = m /\ x = y + 1
    BY <1>1, <1>2
  <2>2. n % 100 = 50 /\ m % 100 = 50
    BY <1>1, <1>2, <2>1
  <2> QED
    BY <1>1, <1>2, <1>3, <1>4, <2>1, <2>2
<1>6. m - n <= 50 => y <= x + 1
  BY <1>1, <1>2
<1>7. ASSUME 1 <= m - n, n % 100 = 50, HalfUp(n, 100) # x PROVE y # x
  BY <1>1, <1>2, <1>7
<1> QED
  BY <1>1, <1>2, <1>5, <1>6, <1>7 DEF x, y

-----------------------------------------------------------------------------
(* Credit notes: what _credit_note_subtotal_for_total finds by trial.           *)

\* The total a subtotal is tried with, and how far it is from the amount asked.
Trial(s) == s + HalfEven(s * VAT, 100)
Off(s, amount) == IF Trial(s) > amount THEN Trial(s) - amount ELSE amount - Trial(s)
Base(amount) == HalfEven(100 * amount, 100 + VAT)
Candidates(amount) == { s \in (Base(amount) - 5)..(Base(amount) + 5) : s > 0 }

LEMMA TrialTyped ==
    ASSUME NEW s \in Nat
    PROVE  s * VAT \in Nat /\ Trial(s) \in Nat
<1>1. s * VAT \in Nat
  BY PricingAssumption
<1> DEFINE n == s * VAT
<1>2. Trial(s) = s + HalfEven(n, 100)
  BY DEF Trial
<1> HIDE DEF n
<1>3. n \in Nat
  BY <1>1 DEF n
<1> QED
  <2>1. HalfEven(n, 100) \in Nat
    BY <1>3, EvenBounds
  <2> QED
    BY <1>1, <1>2, <2>1

\* A cent more on the subtotal is one or two on the total.
LEMMA TrialsRise ==
    ASSUME NEW s \in Nat, NEW t \in Nat, s <= t
    PROVE  /\ Trial(t) - Trial(s) >= t - s
           /\ t = s + 1 => Trial(t) - Trial(s) \in {1, 2}
<1>1. VAT \in Nat /\ VAT <= 50
  BY PricingAssumption, ModestVAT
<1>2. s * VAT \in Nat /\ t * VAT \in Nat /\ s * VAT <= t * VAT
  BY <1>1, TimesMore
<1>3. t = s + 1 => t * VAT = s * VAT + VAT
  BY <1>1
<1>4. /\ HalfEven(s * VAT, 100) \in Nat /\ HalfEven(t * VAT, 100) \in Nat
      /\ HalfEven(s * VAT, 100) <= HalfEven(t * VAT, 100)
      /\ t * VAT - s * VAT <= 50 => HalfEven(t * VAT, 100) <= HalfEven(s * VAT, 100) + 1
  BY <1>2, EvenStep, EvenBounds
<1>5. t = s + 1 => HalfEven(t * VAT, 100) <= HalfEven(s * VAT, 100) + 1
  BY <1>1, <1>2, <1>3, <1>4
<1> QED
  BY <1>4, <1>5 DEF Trial

\* The subtotal the trials start from is a cent off at most.
LEMMA BaseIsNear ==
    ASSUME NEW amount \in Nat, amount > 0
    PROVE  Base(amount) \in Nat /\ Base(amount) > 0 /\ Off(Base(amount), amount) \in {0, 1}
<1> DEFINE d == 100 + VAT
           b == Base(amount)
<1>1. VAT \in Nat /\ VAT <= 50 /\ d \in 100..150 /\ 100 * amount \in Nat
  BY PricingAssumption, ModestVAT
<1>2. b \in Nat /\ 2 * (b * d) <= 2 * (100 * amount) + d /\ 2 * (100 * amount) <= 2 * (b * d) + d
  <2> DEFINE n == 100 * amount
  <2>1. HalfEven(n, d) = b /\ n \in Nat
    BY DEF Base
  <2> HIDE DEF d, n, b
  <2>2. /\ HalfEven(n, d) \in Nat /\ 2 * (HalfEven(n, d) * d) <= 2 * n + d
        /\ 2 * n <= 2 * (HalfEven(n, d) * d) + d
    <3>1. n \in Nat /\ d \in Nat /\ d > 0
      BY <1>1, <2>1
    <3> QED
      BY <3>1, EvenNear
  <2> QED
    BY <2>1, <2>2 DEF n
<1> HIDE DEF b
<1>3. b * d = 100 * b + b * VAT /\ b * VAT \in Nat
  BY <1>1, <1>2
<1>4. b > 0
  <2> SUFFICES ASSUME b = 0 PROVE FALSE
    BY <1>2
  <2>1. b * d = 0
    BY <1>1
  <2> QED
    BY <1>1, <1>2, <2>1
<1>5. /\ HalfEven(b * VAT, 100) \in Nat
      /\ 100 * HalfEven(b * VAT, 100) - b * VAT <= 50 /\ b * VAT - 100 * HalfEven(b * VAT, 100) <= 50
  BY <1>3, EvenBounds
<1>6. Trial(b) - amount \in {-1, 0, 1} /\ Trial(b) \in Nat
  <2> DEFINE n == b * VAT
             x == HalfEven(n, 100)
  <2>1. Trial(b) = b + x /\ n \in Nat /\ x \in Nat /\ 100 * x - n <= 50 /\ n - 100 * x <= 50
    BY <1>3, <1>5 DEF Trial
  <2>2. b * d = 100 * b + n
    BY <1>3
  <2> HIDE DEF d, n, x
  <2>3. b * d \in Nat
    BY <1>1, <1>2
  <2> QED
    BY <1>1, <1>2, <2>1, <2>2, <2>3
<1> QED
  BY <1>2, <1>4, <1>6 DEF Off, b

\* What is found: the smallest of the candidates that come nearest.
LEMMA Found ==
    ASSUME NEW amount \in Nat, amount > 0, VAT > 0
    PROVE  LET c == CreditSubtotal(amount) IN
           /\ c \in Candidates(amount)
           /\ \A s \in Candidates(amount) : /\ Off(c, amount) <= Off(s, amount)
                                            /\ Off(s, amount) = Off(c, amount) => c <= s
<1> DEFINE T == Candidates(amount)
           misses == { Off(s, amount) : s \in T }
           nearest == { s \in T : Off(s, amount) = Min(misses) }
<1>1. Base(amount) \in Nat /\ Base(amount) > 0
  BY BaseIsNear
<1>2. T \in SUBSET Nat /\ T # {}
  BY <1>1 DEF Candidates
<1>3. misses \in SUBSET Nat /\ misses # {}
  <2>1. \A s \in T : Off(s, amount) \in Nat
    BY <1>2, TrialTyped DEF Off
  <2> QED
    BY <1>2, <2>1
<1> HIDE DEF misses
<1>4. Min(misses) \in misses /\ \A x \in misses : Min(misses) <= x
  BY <1>3, LeastOfSome DEF Min
<1>5. nearest \in SUBSET Nat /\ nearest # {}
  BY <1>2, <1>4 DEF misses
<1> HIDE DEF nearest
<1>6. Min(nearest) \in nearest /\ \A x \in nearest : Min(nearest) <= x
  BY <1>5, LeastOfSome DEF Min
<1>7. CreditSubtotal(amount) = Min(nearest)
  BY DEF CreditSubtotal, Candidates, Base, Off, Trial, nearest, misses
<1> QED
  BY <1>4, <1>6, <1>7 DEF nearest, misses

\* The total of a note, and how it compares with the total its subtotal was tried with.
NoteTotal(s) == s + HalfUp(s * VAT, 100)

LEMMA NoteOfTrial ==
    ASSUME NEW s \in Nat
    PROVE  /\ NoteTotal(s) \in Nat /\ NoteTotal(s) - Trial(s) \in {0, 1}
           /\ NoteTotal(s) # Trial(s) => (s * VAT) % 100 = 50
<1> DEFINE n == s * VAT
<1>1. n \in Nat
  BY TrialTyped
<1>2. NoteTotal(s) = s + HalfUp(n, 100) /\ Trial(s) = s + HalfEven(n, 100)
  BY DEF NoteTotal, Trial
<1> HIDE DEF n
<1>3. /\ HalfEven(n, 100) \in Nat /\ HalfUp(n, 100) - HalfEven(n, 100) \in {0, 1}
      /\ HalfUp(n, 100) # HalfEven(n, 100) => n = 100 * HalfEven(n, 100) + 50
  BY <1>1, EvenBounds
<1>4. HalfUp(n, 100) \in Nat
  BY <1>1, HalfUpCents
<1>5. HalfUp(n, 100) # HalfEven(n, 100) => n % 100 = 50
  BY <1>3
<1> QED
  BY <1>2, <1>3, <1>4, <1>5 DEF n

\* A subtotal that is tried as the amount, or a cent beside it, is among the candidates.
LEMMA NearIsCandidate ==
    ASSUME NEW amount \in Nat, amount > 0, NEW s \in Nat, s > 0, Off(s, amount) \in {0, 1}
    PROVE  s \in Candidates(amount)
<1>1. /\ Base(amount) \in Nat /\ Off(Base(amount), amount) \in {0, 1}
      /\ Trial(s) \in Nat /\ Trial(Base(amount)) \in Nat
  BY BaseIsNear, TrialTyped
<1>2. Trial(s) - Trial(Base(amount)) \in -2..2
  BY <1>1 DEF Off
<1>3. s <= Base(amount) => Trial(Base(amount)) - Trial(s) >= Base(amount) - s
  BY <1>1, TrialsRise
<1>4. Base(amount) <= s => Trial(s) - Trial(Base(amount)) >= s - Base(amount)
  BY <1>1, TrialsRise
<1> QED
  BY <1>1, <1>2, <1>3, <1>4 DEF Candidates

\* The subtotal found is tried as the amount or a cent less.
LEMMA FoundBelow ==
    ASSUME NEW amount \in Nat, amount > 0, VAT > 0
    PROVE  /\ CreditSubtotal(amount) \in Nat /\ CreditSubtotal(amount) > 0
           /\ Trial(CreditSubtotal(amount)) - amount \in {-1, 0}
<1> DEFINE c == CreditSubtotal(amount)
<1>1. /\ c \in Candidates(amount)
      /\ \A s \in Candidates(amount) : /\ Off(c, amount) <= Off(s, amount)
                                       /\ Off(s, amount) = Off(c, amount) => c <= s
  BY Found
<1> HIDE DEF c
<1>2. Base(amount) \in Nat /\ Base(amount) > 0 /\ Off(Base(amount), amount) \in {0, 1}
  BY BaseIsNear
<1>3. c \in Nat /\ c > 0 /\ Base(amount) \in Candidates(amount)
  BY <1>1, <1>2 DEF Candidates
<1>4. Trial(c) \in Nat
  BY <1>3, TrialTyped
<1>5. Off(c, amount) \in {0, 1}
  BY <1>1, <1>2, <1>3, <1>4 DEF Off
<1>6. Trial(c) # amount + 1
  <2> SUFFICES ASSUME Trial(c) = amount + 1 PROVE FALSE
    OBVIOUS
  <2>1. c # 1
    <3> SUFFICES ASSUME c = 1 PROVE FALSE
      OBVIOUS
    <3>1. VAT \in Nat /\ VAT <= 50
      BY PricingAssumption, ModestVAT
    <3>2. Trial(c) = 1 + HalfEven(VAT, 100)
      BY <3>1 DEF Trial
    <3>3. /\ HalfEven(VAT, 100) \in Nat /\ 100 * HalfEven(VAT, 100) - VAT <= 50
          /\ VAT % 100 = 50 => HalfEven(VAT, 100) % 2 = 0
      BY <3>1, EvenBounds, HalvesAreEven
    <3>4. HalfEven(VAT, 100) = 0
      BY <3>1, <3>3
    <3> QED
      BY <3>2, <3>4
  <2>2. c - 1 \in Nat /\ c - 1 > 0 /\ c = (c - 1) + 1
    BY <1>3, <2>1
  <2>3. Trial(c) - Trial(c - 1) \in {1, 2} /\ Trial(c - 1) \in Nat
    BY <1>3, <2>2, TrialsRise, TrialTyped
  <2>4. Off(c - 1, amount) \in {0, 1} /\ Off(c, amount) = 1
    BY <1>4, <2>3 DEF Off
  <2>5. c - 1 \in Candidates(amount)
    BY <2>2, <2>4, NearIsCandidate
  <2> QED
    BY <1>1, <1>3, <2>4, <2>5
<1> QED
  BY <1>3, <1>4, <1>5, <1>6 DEF Off, c

\* A credit note misses the amount asked by a cent at most, and exceeds it on a half only.
LEMMA NoteIsNear ==
    ASSUME NEW amount \in Nat, amount > 0
    PROVE  LET c == CreditSubtotal(amount) IN
           /\ c \in Nat /\ NoteTotal(c) - amount \in -1..1
           /\ NoteTotal(c) - amount = 1 => (c * VAT) % 100 = 50
<1> DEFINE c == CreditSubtotal(amount)
<1>1. CASE VAT = 0
  <2>1. c = amount
    BY <1>1 DEF CreditSubtotal
  <2>2. HalfUp(0, 100) = 0
    BY HalfUpCents
  <2>3. NoteTotal(c) = amount
    BY <1>1, <2>1, <2>2 DEF NoteTotal
  <2> QED
    BY <2>1, <2>3
<1>2. CASE VAT > 0
  <2>1. c \in Nat /\ Trial(c) - amount \in {-1, 0}
    BY <1>2, FoundBelow
  <2> HIDE DEF c
  <2>2. /\ NoteTotal(c) \in Nat /\ NoteTotal(c) - Trial(c) \in {0, 1} /\ Trial(c) \in Nat
        /\ NoteTotal(c) # Trial(c) => (c * VAT) % 100 = 50
    BY <2>1, NoteOfTrial, TrialTyped
  <2>3. NoteTotal(c) - amount \in -1..1
    BY <2>1, <2>2
  <2>4. NoteTotal(c) - amount = 1 => NoteTotal(c) # Trial(c)
    BY <2>1, <2>2
  <2> QED
    BY <2>1, <2>2, <2>3, <2>4 DEF c
<1> QED
  BY <1>1, <1>2, PricingAssumption

\* A fully taxed total is credited to the cent: the note finds the subtotal again.
LEMMA WholeIsFound ==
    ASSUME NEW n \in Nat, n > 0
    PROVE  NoteTotal(CreditSubtotal(NoteTotal(n))) = NoteTotal(n)
<1> DEFINE a == NoteTotal(n)
           c == CreditSubtotal(a)
<1>1. /\ a \in Nat /\ a - Trial(n) \in {0, 1} /\ Trial(n) \in Nat
      /\ a # Trial(n) => (n * VAT) % 100 = 50
  BY NoteOfTrial, TrialTyped
<1>2. a > 0
  <2>1. Trial(n) - Trial(0) >= n - 0 /\ Trial(0) \in Nat
    BY TrialsRise, TrialTyped
  <2> HIDE DEF a
  <2> QED
    BY <1>1, <2>1
<1>3. CASE VAT = 0
  <2>1. c = a
    BY <1>3 DEF CreditSubtotal
  <2>2. HalfUp(0, 100) = 0
    BY HalfUpCents
  <2>3. \A s \in Nat : NoteTotal(s) = s
    BY <1>3, <2>2 DEF NoteTotal
  <2> QED
    BY <1>1, <2>1, <2>3
<1>4. CASE VAT > 0
  <2>1. c \in Nat /\ c > 0 /\ Trial(c) - a \in {-1, 0}
    <3> HIDE DEF a
    <3> QED
      BY <1>1, <1>2, <1>4, FoundBelow
  <2>2. /\ c \in Candidates(a)
        /\ \A s \in Candidates(a) : /\ Off(c, a) <= Off(s, a)
                                    /\ Off(s, a) = Off(c, a) => c <= s
    <3> HIDE DEF a
    <3> QED
      BY <1>1, <1>2, <1>4, Found
  <2> HIDE DEF a, c
  <2>3. Trial(c) \in Nat
    BY <2>1, TrialTyped
  <2>4. n \in Candidates(a)
    BY <1>1, <1>2, NearIsCandidate DEF Off
  <2>5. c <= n => Trial(n) - Trial(c) >= n - c
    BY <2>1, TrialsRise
  <2>6. n <= c => Trial(c) - Trial(n) >= c - n
    BY <2>1, TrialsRise
  <2>7. Off(c, a) <= Off(n, a) /\ (Off(n, a) = Off(c, a) => c <= n)
    BY <2>2, <2>4
  <2>8. CASE Trial(n) = a
    <3>1. c = n
      BY <1>1, <2>1, <2>3, <2>5, <2>6, <2>7, <2>8 DEF Off
    <3> QED
      BY <3>1 DEF a, c
  <2>9. CASE Trial(n) = a - 1
    <3>1. CASE Trial(c) = a - 1
      <4>1. c = n
        BY <1>1, <2>1, <2>5, <2>6, <2>9, <3>1
      <4> QED
        BY <4>1 DEF a, c
    <3>2. CASE Trial(c) = a
      <4>1. c = n + 1
        BY <1>1, <2>1, <2>5, <2>6, <2>9, <3>2
      <4>2. Trial(n + 1) = Trial(n) + 2
        <5> DEFINE x == n * VAT
                   y == (n + 1) * VAT
        <5>1. x \in Nat /\ y \in Nat /\ y = x + VAT /\ VAT \in 1..50
          <6>1. VAT \in Nat /\ VAT \in 1..50
            BY <1>4, PricingAssumption, ModestVAT
          <6>2. n + 1 \in Nat
            BY <1>1
          <6>3. n * VAT \in Nat /\ (n + 1) * VAT \in Nat
            BY <1>1, <6>1, <6>2, TrialTyped
          <6>4. (n + 1) * VAT = n * VAT + VAT
            BY <1>1, <6>1
          <6> QED
            BY <6>1, <6>3, <6>4
        <5>2. Trial(n) = n + HalfEven(x, 100) /\ Trial(n + 1) = (n + 1) + HalfEven(y, 100)
          BY DEF Trial
        <5>3. x % 100 = 50 /\ HalfUp(x, 100) # HalfEven(x, 100)
          BY <1>1, <2>9 DEF a, NoteTotal, Trial
        <5> HIDE DEF x, y
        <5>4. HalfEven(y, 100) = HalfEven(x, 100) + 1 /\ HalfEven(x, 100) \in Nat
          <6>1. HalfEven(x, 100) \in Nat
            BY <5>1, EvenBounds
          <6>2. x <= y /\ y - x <= 50 /\ 1 <= y - x
            BY <5>1
          <6> QED
            BY <5>1, <5>3, <6>1, <6>2, EvenStep
        <5> QED
          BY <5>2, <5>4
      <4> QED
        BY <1>1, <2>9, <3>2, <4>1, <4>2
    <3> QED
      BY <2>1, <2>3, <1>1, <3>1, <3>2
  <2> QED
    BY <1>1, <2>8, <2>9
<1> QED
  BY <1>3, <1>4, PricingAssumption

-----------------------------------------------------------------------------
(* The lines of a sale and their sums.                                        *)

SaleLine == [qty : Nat, price : Nat, off : Nat]

LEMMA PriceTyped ==
    ASSUME NEW o \in Offer, NEW category, NEW n
    PROVE  PriceIn(o, category, n) \in Nat
<1>1. /\ o.standard \in Nat
      /\ o.technician # Unset => o.technician \in Nat
      /\ o.retail # Unset => o.retail \in Nat
      /\ o.wholesale # Unset => o.wholesale \in Nat
  BY DEF Offer, Unset
<1> QED
  BY <1>1 DEF PriceIn, Break

\* The invoice prices a line as the till does, but for an old draft of a
\* wholesale customer.
LEMMA SamePrice ==
    ASSUME NEW o, NEW tier, NEW category, NEW n, ~(category = "retail" /\ tier = "wholesale")
    PROVE  BillPrice(o, tier, category, n) = DraftPrice(o, tier, category, n)
<1>1. CASE category = "retail"
  <2>1. CASE Break(o, n)
    <3>1. DraftCategory(o, tier, category, n) = "wholesale"
      BY <1>1, <2>1 DEF DraftCategory
    <3>2. DraftPrice(o, tier, category, n) = o.wholesale
      BY <2>1, <3>1 DEF DraftPrice, PriceIn
    <3>3. DraftMode(o, tier, category, n) = "wholesale"
      BY <3>1, <3>2 DEF DraftMode
    <3>4. BillCategory(o, tier, category, n) = "wholesale"
      BY <1>1, <3>3 DEF BillCategory
    <3> QED
      BY <3>1, <3>4 DEF BillPrice, DraftPrice
  <2>2. CASE ~Break(o, n)
    <3>1. DraftCategory(o, tier, category, n) = "retail"
      BY <1>1, <2>2 DEF DraftCategory
    <3>2. DraftMode(o, tier, category, n) = "retail"
      BY <3>1 DEF DraftMode
    <3>3. BillCategory(o, tier, category, n) = "retail"
      BY <1>1, <3>2 DEF BillCategory
    <3> QED
      BY <3>1, <3>3 DEF BillPrice, DraftPrice
  <2> QED
    BY <2>1, <2>2
<1>2. CASE category = "standard"
  <2>1. DraftCategory(o, tier, category, n) = "standard"
    BY <1>2 DEF DraftCategory
  <2>2. DraftMode(o, tier, category, n) = "standard"
    BY <2>1 DEF DraftMode
  <2>3. BillCategory(o, tier, category, n) = "standard"
    BY <1>2, <2>2 DEF BillCategory
  <2> QED
    BY <2>1, <2>3 DEF BillPrice, DraftPrice
<1>3. CASE category \notin {"retail", "standard"}
  <2>1. BillCategory(o, tier, category, n) = DraftCategory(o, tier, category, n)
    BY <1>3 DEF BillCategory, DraftCategory
  <2> QED
    BY <2>1 DEF BillPrice, DraftPrice
<1> QED
  BY <1>1, <1>2, <1>3

LEMMA LineTyped ==
    ASSUME NEW l \in SaleLine
    PROVE  /\ l.qty * l.price \in Nat /\ Net(l) \in Int /\ Shown(l) \in Nat
           /\ Net(l) >= 0 => Shown(l) = Net(l)
<1>1. l.qty \in Nat /\ l.price \in Nat /\ l.off \in Nat
  BY DEF SaleLine
<1>2. l.qty * l.price \in Nat
  BY <1>1
<1> QED
  BY <1>1, <1>2 DEF Net, Shown

LEMMA RowsFinite ==
    ASSUME NEW lines
    PROVE  /\ IsFiniteSet(Rows(lines)) /\ IsFiniteSet({p \in Rows(lines) : offer[p].taxable})
           /\ Rows(lines) \subseteq Goods
  BY FS_Subset, PricingAssumption DEF Rows

LEMMA TotalsTyped ==
    ASSUME NEW lines \in [Goods -> SaleLine]
    PROVE  /\ Gross(lines) \in Nat /\ LinesOff(lines) \in Nat
           /\ Subtotal(lines) \in Nat /\ Taxed(lines) \in Nat
           /\ \A p \in Goods : Proceeds(lines)[p] = Shown(lines[p]) /\ Shown(lines[p]) \in Nat
<1>1. /\ IsFiniteSet(Rows(lines)) /\ IsFiniteSet({p \in Rows(lines) : offer[p].taxable})
      /\ Rows(lines) \subseteq Goods
  BY RowsFinite
<1>2. \A p \in Goods : lines[p] \in SaleLine /\ lines[p].off \in Nat
  BY DEF SaleLine
<1>3. \A p \in Goods : lines[p].qty * lines[p].price \in Nat /\ Shown(lines[p]) \in Nat
  BY <1>2, LineTyped
<1>4. \A p \in Goods : Proceeds(lines)[p] = Shown(lines[p])
  BY DEF Proceeds
<1>5. Gross(lines) \in Nat
  BY <1>1, <1>3, SumType DEF Gross
<1>6. LinesOff(lines) \in Nat
  BY <1>1, <1>2, SumType DEF LinesOff
<1>7. Subtotal(lines) \in Nat
  BY <1>1, <1>3, <1>4, SumType DEF Subtotal
<1>8. Taxed(lines) \in Nat
  BY <1>1, <1>3, <1>4, SumType DEF Taxed
<1> QED
  BY <1>3, <1>4, <1>5, <1>6, <1>7, <1>8

\* Lines that each earn their cost with their share of the discount taken off
\* earn it together with the discount taken off once.
LEMMA Earns ==
    ASSUME NEW lines \in [Goods -> SaleLine], NEW off \in Nat,
           offer \in [Goods -> Offer], average \in [Goods -> Nat \cup {Unset}],
           Rows(lines) # {}, off <= Subtotal(lines), AllAboveCost(lines, off),
           \A p \in Rows(lines) : Net(lines[p]) >= 0
    PROVE  SumOf(Rows(lines), [p \in Goods |-> lines[p].qty * Floor(p)]) < Subtotal(lines) - off
<1> DEFINE R == Rows(lines)
           S == Subtotal(lines)
           cost == [p \in Goods |-> lines[p].qty * Floor(p)]
           C == SumOf(R, cost)
<1>1. IsFiniteSet(R) /\ R \subseteq Goods /\ R # {}
  BY RowsFinite
<1>2. /\ S \in Nat /\ S - off \in Nat
      /\ \A p \in Goods : Proceeds(lines)[p] = Shown(lines[p]) /\ Shown(lines[p]) \in Nat
  BY TotalsTyped
<1>3. \A p \in Goods : /\ Floor(p) \in Nat /\ cost[p] \in Nat
                       /\ Floor(p) * lines[p].qty = cost[p]
  <2>1. \A p \in Goods : Floor(p) \in Nat /\ lines[p].qty \in Nat
    BY DEF Floor, Offer, SaleLine, Unset
  <2> QED
    BY <2>1
<1>4. \A p \in R : Net(lines[p]) = Shown(lines[p])
  BY <1>1, LineTyped
<1>5. C \in Nat
  BY <1>1, <1>3, SumType
<1>6. CASE S = 0
  <2>1. PICK p \in R : TRUE
    BY <1>1
  <2>2. Shown(lines[p]) > cost[p]
    BY <1>1, <1>3, <1>4, <1>6, <2>1 DEF AllAboveCost, AboveCost
  <2>3. Shown(lines[p]) <= S
    <3>1. \A q \in R : Proceeds(lines)[q] \in Nat
      BY <1>1, <1>2
    <3>2. Proceeds(lines)[p] <= SumOf(R, Proceeds(lines))
      BY <1>1, <2>1, <3>1, SumAtLeast
    <3> QED
      BY <1>1, <1>2, <2>1, <3>2 DEF Subtotal
  <2>4. Shown(lines[p]) \in Nat /\ cost[p] \in Nat
    BY <1>1, <1>2, <1>3, <2>1
  <2> HIDE DEF cost, S
  <2> QED
    BY <1>6, <2>2, <2>3, <2>4
<1>7. CASE S # 0
  <2> DEFINE f == [p \in R |-> cost[p] * S]
             g == [p \in R |-> Proceeds(lines)[p] * (S - off)]
  <2>1. \A p \in R : f[p] \in Nat /\ g[p] \in Nat /\ f[p] < g[p]
    <3> SUFFICES ASSUME NEW p \in R PROVE f[p] \in Nat /\ g[p] \in Nat /\ f[p] < g[p]
      OBVIOUS
    <3> DEFINE e == Shown(lines[p])
               k == cost[p]
    <3>1. e \in Nat /\ k \in Nat /\ Net(lines[p]) = e /\ Floor(p) * lines[p].qty = k
      BY <1>1, <1>2, <1>3, <1>4
    <3>2. Net(lines[p]) * S - off * Shown(lines[p]) > Floor(p) * lines[p].qty * S
      <4> HIDE DEF k, cost
      <4> QED
        BY <1>7 DEF AllAboveCost, AboveCost
    <3>3. f[p] = k * S /\ g[p] = e * (S - off)
      BY <1>1, <1>2
    <3> HIDE DEF e, k, f, g, cost, S
    <3>4. e * S - off * e > k * S
      BY <3>1, <3>2 DEF e
    <3>5. k * S \in Nat /\ e * (S - off) \in Nat /\ e * (S - off) = e * S - off * e
      BY <1>2, <3>1
    <3> QED
      BY <3>3, <3>4, <3>5
  <2>2. SumOf(R, f) < SumOf(R, g)
    <3> HIDE DEF f, g, R
    <3> QED
      BY <1>1, <2>1, SumLess
  <2>3. SumOf(R, f) = C * S
    <3> HIDE DEF R, cost, S
    <3> QED
      BY <1>1, <1>2, <1>3, SumTimes
  <2>4. SumOf(R, g) = S * (S - off)
    <3>1. SumOf(R, Proceeds(lines)) = S
      BY DEF Subtotal
    <3>2. \A p \in R : Proceeds(lines)[p] \in Nat
      BY <1>1, <1>2
    <3> DEFINE k == S - off
    <3>3. k \in Nat
      BY <1>2
    <3> HIDE DEF R, S, k
    <3>4. SumOf(R, [p \in R |-> Proceeds(lines)[p] * k]) = SumOf(R, Proceeds(lines)) * k
      BY <1>1, <3>2, <3>3, SumTimes
    <3> QED
      BY <3>1, <3>4 DEF k
  <2> DEFINE k == S - off
  <2>5. k \in Nat
    BY <1>2
  <2> HIDE DEF f, g, S, C, k
  <2>6. C * S < k * S
    BY <1>2, <2>2, <2>3, <2>4, <2>5 DEF k
  <2>7. C < k
    BY <1>2, <1>5, <2>5, <2>6, FactorOff
  <2> QED
    BY <2>7 DEF k, S, C
<1> QED
  BY <1>6, <1>7

\* Rounding does not see a common factor of both numbers.
LEMMA CommonFactor ==
    ASSUME NEW m \in Nat, NEW s \in Nat, s > 0
    PROVE  HalfUp(m * s, 100 * s) = HalfUp(m, 100)
<1> DEFINE n == m * s
           d == 100 * s
           q == HalfUp(n, d)
           r == HalfUp(m, 100)
<1>1. n \in Nat /\ d \in Nat /\ d > 0
  OBVIOUS
<1>2. q \in Nat /\ q * (2 * d) <= 2 * n + d /\ 2 * n + d < (q + 1) * (2 * d)
  <2> HIDE DEF n, d
  <2> QED
    BY <1>1, HalfUpBounds
<1>3. r \in Nat /\ 200 * r <= 2 * m + 100 /\ 2 * m + 100 < 200 * (r + 1)
  BY HalfUpCents
<1> HIDE DEF q, r
<1>4. /\ q * (2 * d) = (200 * q) * s /\ (q + 1) * (2 * d) = (200 * (q + 1)) * s
      /\ 2 * n + d = (2 * m + 100) * s
  BY <1>2, <1>3
<1>5. 2 * m + 100 < 200 * (q + 1)
  <2>1. 2 * m + 100 \in Nat /\ 200 * (q + 1) \in Nat
    BY <1>2
  <2> QED
    BY <1>2, <1>4, <2>1, FactorOff
<1>6. 200 * q < 2 * m + 101
  <2>1. (2 * m + 100) * s < (2 * m + 101) * s
    <3>1. 2 * m + 100 \in Nat /\ 2 * m + 101 \in Nat
      OBVIOUS
    <3> QED
      BY <3>1, TimesAbove
  <2>2. (200 * q) * s < (2 * m + 101) * s
    <3>1. (200 * q) * s \in Nat /\ (2 * m + 100) * s \in Nat /\ (2 * m + 101) * s \in Nat
      BY <1>2
    <3> QED
      BY <1>2, <1>4, <2>1, <3>1
  <2>3. 200 * q \in Nat /\ 2 * m + 101 \in Nat
    BY <1>2
  <2> QED
    BY <2>2, <2>3, FactorOff
<1>7. q = r
  BY <1>2, <1>3, <1>5, <1>6
<1> QED
  BY <1>7 DEF q, r

\* A share taken off before VAT does not raise the tax.
LEMMA SharedTax ==
    ASSUME NEW t \in Nat, NEW s \in Nat, s > 0, NEW k \in Nat, k <= s
    PROVE  /\ HalfUp(t * k * VAT, 100 * s) \in Nat
           /\ HalfUp(t * k * VAT, 100 * s) <= HalfUp(t * VAT, 100)
<1> DEFINE n == t * k * VAT
           d == 100 * s
           m == t * VAT
           q == HalfUp(n, d)
           r == HalfUp(m, 100)
<1>1. VAT \in Nat
  BY PricingAssumption
<1>2. m \in Nat /\ n = k * m /\ n \in Nat /\ d \in Nat /\ d > 0
  <2>1. t * k \in Nat /\ t * VAT \in Nat
    BY <1>1
  <2> QED
    BY <1>1, <2>1
<1>3. q \in Nat /\ q * (2 * d) <= 2 * n + d
  <2> HIDE DEF n, d
  <2> QED
    BY <1>2, HalfUpBounds
<1>4. r \in Nat /\ 2 * m + 100 < 200 * (r + 1)
  <2> HIDE DEF m
  <2> QED
    BY <1>2, HalfUpCents
<1>5. n <= m * s
  <2> HIDE DEF m
  <2>1. k * m <= s * m
    BY <1>2, TimesMore
  <2> QED
    BY <1>2, <2>1
<1> HIDE DEF q, r, n, m
<1>6. (200 * q) * s <= (2 * m + 100) * s
  <2>1. q * (2 * d) = (200 * q) * s /\ 2 * (m * s) + d = (2 * m + 100) * s
    BY <1>2, <1>3
  <2>2. m * s \in Nat /\ (200 * q) * s \in Nat
    BY <1>2, <1>3
  <2> QED
    BY <1>2, <1>3, <1>5, <2>1, <2>2
<1>7. 200 * q < 200 * (r + 1)
  <2>1. 2 * m + 100 \in Nat /\ 200 * (r + 1) \in Nat /\ 200 * q \in Nat
    BY <1>2, <1>3, <1>4
  <2>2. (2 * m + 100) * s < (200 * (r + 1)) * s
    BY <1>4, <2>1, TimesAbove
  <2>3. (200 * q) * s < (200 * (r + 1)) * s
    <3>1. (200 * q) * s \in Nat /\ (2 * m + 100) * s \in Nat /\ (200 * (r + 1)) * s \in Nat
      BY <2>1
    <3> QED
      BY <1>6, <2>2, <3>1
  <2> QED
    BY <2>1, <2>3, FactorOff
<1>8. q <= r
  BY <1>3, <1>4, <1>7
<1> QED
  BY <1>3, <1>8 DEF q, r, n, m

LEMMA TaxBound ==
    ASSUME NEW lines \in [Goods -> SaleLine], NEW off \in Nat, off <= Subtotal(lines)
    PROVE  /\ TaxOf(lines, off) \in Nat
           /\ TaxOf(lines, off) <= HalfUp(Taxed(lines) * VAT, 100)
<1> DEFINE t == Taxed(lines)
           s == Subtotal(lines)
           k == s - off
<1>1. t \in Nat /\ s \in Nat /\ k \in Nat /\ k <= s
  BY TotalsTyped
<1>2. CASE s = 0
  <2>1. t * VAT \in Nat
    BY <1>1, PricingAssumption
  <2>2. HalfUp(t * VAT, 100) \in Nat
    BY <2>1, HalfUpCents
  <2> QED
    BY <1>2, <2>2 DEF TaxOf
<1>3. CASE s # 0
  <2>1. TaxOf(lines, off) = HalfUp(t * k * VAT, 100 * s)
    BY <1>3 DEF TaxOf
  <2> HIDE DEF t, s, k
  <2>2. HalfUp(t * k * VAT, 100 * s) \in Nat /\ HalfUp(t * k * VAT, 100 * s) <= HalfUp(t * VAT, 100)
    BY <1>1, <1>3, SharedTax
  <2> QED
    BY <2>1, <2>2 DEF t
<1> QED
  BY <1>2, <1>3

\* A sale of taxable goods only is taxed as a credit note of its subtotal is.
LEMMA WholeTax ==
    ASSUME NEW lines \in [Goods -> SaleLine], NEW off \in Nat, off <= Subtotal(lines),
           \A p \in Rows(lines) : offer[p].taxable, Subtotal(lines) # 0
    PROVE  TotalOf(lines, off) = NoteTotal(Subtotal(lines) - off)
<1> DEFINE s == Subtotal(lines)
           k == s - off
           m == k * VAT
<1>1. s \in Nat /\ s > 0 /\ k \in Nat /\ m \in Nat
  <2>1. s \in Nat /\ s > 0 /\ k \in Nat
    BY TotalsTyped
  <2> HIDE DEF s, k
  <2> QED
    BY <2>1, PricingAssumption
<1>2. Taxed(lines) = s
  <2>1. {p \in Rows(lines) : offer[p].taxable} = Rows(lines)
    OBVIOUS
  <2> QED
    BY <2>1 DEF Taxed, Subtotal
<1>3. TaxOf(lines, off) = HalfUp(s * k * VAT, 100 * s)
  BY <1>2 DEF TaxOf
<1> HIDE DEF s
<1>4. s * k * VAT = m * s
  <2> HIDE DEF k
  <2> QED
    BY <1>1, PricingAssumption
<1>5. HalfUp(m * s, 100 * s) = HalfUp(m, 100)
  <2> HIDE DEF m
  <2> QED
    BY <1>1, CommonFactor
<1> QED
  BY <1>3, <1>4, <1>5 DEF TotalOf, NoteTotal, s

-----------------------------------------------------------------------------
(* The inductive invariant: what the till, the invoice and the notes hold.      *)

TillTyped ==
    /\ offer \in [Goods -> Offer] /\ average \in [Goods -> Nat \cup {Unset}] /\ limit \in Limit
    /\ till \in [tier : Tiers \cup {"retail"}, category : Categories \cup {"customer_tier", "retail"},
                 lines : [Goods -> SaleLine], off : Nat]

\* An invoice keeps the totals that its lines and discount give.
BillKept ==
    ~Draft => /\ bill.lines \in [Goods -> SaleLine] /\ bill.off \in Nat
              /\ bill.off <= Subtotal(bill.lines)
              /\ bill.total = TotalOf(bill.lines, bill.off)

Note == { c \in [asked : Nat, subtotal : Nat, total : Nat] :
            /\ c.asked > 0 /\ c.subtotal = CreditSubtotal(c.asked)
            /\ c.total = NoteTotal(c.subtotal) }

NotesKept == credited \in Seq(Note) /\ (Draft => credited = <<>>)

PricingInv == TillTyped /\ BillKept /\ NotesKept

LEMMA PricesTyped ==
    ASSUME TillTyped, NEW p \in Goods, NEW tier, NEW category, NEW n
    PROVE  /\ DraftPrice(offer[p], tier, category, n) \in Nat
           /\ BillPrice(offer[p], tier, category, n) \in Nat
<1>1. offer[p] \in Offer
  BY DEF TillTyped
<1> QED
  BY <1>1, PriceTyped DEF DraftPrice, BillPrice

\* Both ways of pricing a sale give lines again, the same ones but for an old draft.
LEMMA PricedLines ==
    ASSUME TillTyped, NEW lines \in [Goods -> SaleLine], NEW tier, NEW category
    PROVE  /\ Refreshed(lines, tier, category) \in [Goods -> SaleLine]
           /\ Billed(lines, tier, category) \in [Goods -> SaleLine]
           /\ ~(category = "retail" /\ tier = "wholesale") =>
                  Billed(Refreshed(lines, tier, category), tier, category) = Refreshed(lines, tier, category)
<1>1. NoLine \in SaleLine
  BY DEF NoLine, SaleLine
<1>2. Refreshed(lines, tier, category) \in [Goods -> SaleLine]
  <2>1. \A p \in Goods : DraftPrice(offer[p], tier, category, lines[p].qty) \in Nat
    BY PricesTyped
  <2>2. \A p \in Goods : [lines[p] EXCEPT !.price = DraftPrice(offer[p], tier, category, lines[p].qty)] \in SaleLine
    BY <2>1 DEF SaleLine
  <2> QED
    BY <1>1, <2>2 DEF Refreshed
<1>3. Billed(lines, tier, category) \in [Goods -> SaleLine]
  <2>1. \A p \in Goods : BillPrice(offer[p], tier, category, lines[p].qty) \in Nat
    BY PricesTyped
  <2>2. \A p \in Goods : [lines[p] EXCEPT !.price = BillPrice(offer[p], tier, category, lines[p].qty)] \in SaleLine
    BY <2>1 DEF SaleLine
  <2> QED
    BY <1>1, <2>2 DEF Billed
<1>4. ASSUME ~(category = "retail" /\ tier = "wholesale")
      PROVE  Billed(Refreshed(lines, tier, category), tier, category) = Refreshed(lines, tier, category)
  <2> DEFINE fresh == Refreshed(lines, tier, category)
  <2>1. \A p \in Goods : BillPrice(offer[p], tier, category, lines[p].qty)
                             = DraftPrice(offer[p], tier, category, lines[p].qty)
    BY <1>4, SamePrice
  <2>2. \A p \in Goods : lines[p].qty = 0 => fresh[p] = NoLine /\ fresh[p].qty = 0
    BY DEF Refreshed, NoLine
  <2>3. \A p \in Goods : lines[p].qty # 0 =>
           /\ fresh[p] = [lines[p] EXCEPT !.price = DraftPrice(offer[p], tier, category, lines[p].qty)]
           /\ fresh[p].qty = lines[p].qty
           /\ fresh[p].price = DraftPrice(offer[p], tier, category, lines[p].qty)
    BY DEF Refreshed, SaleLine
  <2>4. fresh \in [Goods -> SaleLine]
    BY <1>2
  <2> HIDE DEF fresh
  <2>5. \A p \in Goods : lines[p].qty # 0 =>
           [fresh[p] EXCEPT !.price = BillPrice(offer[p], tier, category, fresh[p].qty)] = fresh[p]
    <3> SUFFICES ASSUME NEW p \in Goods, lines[p].qty # 0
                 PROVE  [fresh[p] EXCEPT !.price = BillPrice(offer[p], tier, category, fresh[p].qty)] = fresh[p]
      OBVIOUS
    <3>1. BillPrice(offer[p], tier, category, fresh[p].qty) = fresh[p].price
      BY <2>1, <2>3
    <3>2. fresh[p] \in SaleLine
      BY <2>4
    <3> HIDE <2>1, <2>3
    <3> QED
      BY <3>1, <3>2 DEF SaleLine
  <2>6. Billed(fresh, tier, category)
           = [p \in Goods |-> IF fresh[p].qty = 0 THEN NoLine
                ELSE [fresh[p] EXCEPT !.price = BillPrice(offer[p], tier, category, fresh[p].qty)]]
    BY DEF Billed
  <2>7. \A p \in Goods : (IF fresh[p].qty = 0 THEN NoLine
                ELSE [fresh[p] EXCEPT !.price = BillPrice(offer[p], tier, category, fresh[p].qty)]) = fresh[p]
    BY <2>2, <2>3, <2>5
  <2> QED
    BY <2>4, <2>6, <2>7 DEF fresh
<1> QED
  BY <1>2, <1>3, <1>4

\* What create_document stores keeps its totals and earns its cost.
LEMMA StoreKeeps ==
    ASSUME TillTyped, NEW lines \in [Goods -> SaleLine], NEW off \in Nat, NEW by,
           Store(lines, off, by), UNCHANGED <<offer, average, limit>>
    PROVE  /\ bill'.lines = lines /\ bill'.off = off /\ bill'.by = by
           /\ bill'.total = TotalOf(lines, off) /\ BillKept'
           /\ bill'.subtotal - bill'.off
                 > SumOf(Rows(bill'.lines), [p \in Goods |-> bill'.lines[p].qty * Floor(p)])
           /\ bill'.tax <= HalfUp(Taxed(bill'.lines) * VAT, 100)
<1>1. bill' = Stored(lines, off, by) /\ Rows(lines) # {} /\ AllAboveCost(lines, off)
      /\ off <= Subtotal(lines) /\ \A p \in Rows(lines) : Net(lines[p]) >= 0
  BY DEF Store, TotalsExist
<1>2. /\ bill'.lines = lines /\ bill'.off = off /\ bill'.by = by /\ bill'.subtotal = Subtotal(lines)
      /\ bill'.tax = TaxOf(lines, off) /\ bill'.total = TotalOf(lines, off)
  BY <1>1 DEF Stored
<1>3. SumOf(Rows(lines), [p \in Goods |-> lines[p].qty * Floor(p)]) < Subtotal(lines) - off
  BY <1>1, Earns DEF TillTyped
<1>4. TaxOf(lines, off) <= HalfUp(Taxed(lines) * VAT, 100)
  BY <1>1, TaxBound
<1>5. BillKept'
  <2>1. TotalOf(lines, off)' = TotalOf(lines, off)
    BY DEF TotalOf, TaxOf, Taxed
  <2> QED
    BY <1>1, <1>2, <2>1 DEF BillKept, TotalOf, TaxOf, Taxed
<1>6. SumOf(Rows(lines), [p \in Goods |-> lines[p].qty * Floor(p)]) \in Nat
      /\ Subtotal(lines) \in Nat
  <2>1. \A p \in Goods : lines[p].qty * Floor(p) \in Nat
    <3>1. \A p \in Goods : lines[p].qty \in Nat /\ Floor(p) \in Nat
      BY DEF Floor, SaleLine, TillTyped, Offer, Unset
    <3> QED
      BY <3>1
  <2> DEFINE f == [p \in Goods |-> lines[p].qty * Floor(p)]
  <2>2. \A p \in Rows(lines) : f[p] \in Nat
    BY <2>1, RowsFinite
  <2> HIDE DEF f
  <2>3. SumOf(Rows(lines), f) \in Nat
    BY <2>2, RowsFinite, SumType
  <2> QED
    BY <2>3, TotalsTyped DEF f
<1> QED
  BY <1>2, <1>3, <1>4, <1>5, <1>6

LEMMA ConvertIssues ==
    ASSUME PricingInv, Convert
    PROVE  PricingInv' /\ IssuedWell
<1> DEFINE fresh == Refreshed(till.lines, till.tier, till.category)
           lines == Billed(fresh, till.tier, till.category)
<1>1. TillTyped /\ Draft /\ credited = <<>>
  BY DEF PricingInv, NotesKept, Convert
<1>2. till.lines \in [Goods -> SaleLine] /\ till.off \in Nat
  BY <1>1 DEF TillTyped
<1>3. fresh \in [Goods -> SaleLine] /\ lines \in [Goods -> SaleLine] /\ (~OldWholesale => lines = fresh)
  <2>1. fresh \in [Goods -> SaleLine] /\ (~OldWholesale => lines = fresh)
    BY <1>1, <1>2, PricedLines DEF OldWholesale
  <2> HIDE DEF fresh
  <2> QED
    BY <1>1, <2>1, PricedLines
<1>4. /\ Authorized(fresh, till.off) /\ Store(lines, till.off, "till")
      /\ till' = [till EXCEPT !.lines = fresh]
      /\ UNCHANGED <<offer, average, limit, credited>>
  BY DEF Convert
<1> HIDE DEF lines, fresh
<1>5. till'.lines = fresh /\ till'.off = till.off /\ TillTyped'
  BY <1>1, <1>3, <1>4 DEF TillTyped
<1>6. /\ bill'.lines = lines /\ bill'.off = till.off /\ bill'.by = "till"
      /\ bill'.total = TotalOf(lines, till.off) /\ BillKept'
      /\ bill'.subtotal - bill'.off
            > SumOf(Rows(bill'.lines), [p \in Goods |-> bill'.lines[p].qty * Floor(p)])
      /\ bill'.tax <= HalfUp(Taxed(bill'.lines) * VAT, 100)
  BY <1>1, <1>2, <1>3, <1>4, StoreKeeps
<1>7. limit.manager \/ bill'.off + LinesOff(bill'.lines) = 0
      \/ bill'.off + LinesOff(bill'.lines) <= Capped(Gross(bill'.lines)) \/ OldWholesale
  <2>1. LinesOff(fresh) \in Nat
    BY <1>3, TotalsTyped
  <2> QED
    BY <1>2, <1>3, <1>4, <1>6, <2>1 DEF Authorized
<1>8. NotesKept'
  BY <1>1, <1>4 DEF NotesKept
<1>9. IssuedWell
  BY <1>3, <1>5, <1>6, <1>7 DEF IssuedWell
<1> QED
  BY <1>5, <1>6, <1>8, <1>9 DEF PricingInv

LEMMA SendIssues ==
    ASSUME PricingInv, NEW sent \in Sent, NEW category \in Categories \ {"retail"},
           NEW off \in Reductions, NEW fit \in BOOLEAN, SendInvoice(sent, category, off, fit)
    PROVE  PricingInv' /\ IssuedWell
<1> DEFINE lines == Billed(sent, till.tier, category)
           by == IF fit THEN "api" ELSE "refused"
<1>1. TillTyped /\ Draft /\ credited = <<>>
  BY DEF PricingInv, NotesKept, SendInvoice
<1>2. sent \in [Goods -> SaleLine] /\ off \in Nat
  BY PricingAssumption DEF SaleLine
<1>3. lines \in [Goods -> SaleLine]
  BY <1>1, <1>2, PricedLines
<1>4. /\ Authorized(lines, off) /\ Store(lines, off, by)
      /\ till' = [till EXCEPT !.category = category]
      /\ UNCHANGED <<offer, average, limit, credited>>
  BY DEF SendInvoice
<1>5. by # "till"
  OBVIOUS
<1> HIDE DEF lines, by
<1>6. TillTyped'
  BY <1>1, <1>4 DEF TillTyped
<1>7. /\ bill'.lines = lines /\ bill'.off = off /\ bill'.by = by /\ BillKept'
      /\ bill'.subtotal - bill'.off
            > SumOf(Rows(bill'.lines), [p \in Goods |-> bill'.lines[p].qty * Floor(p)])
      /\ bill'.tax <= HalfUp(Taxed(bill'.lines) * VAT, 100)
  BY <1>1, <1>2, <1>3, <1>4, StoreKeeps
<1>8. limit.manager \/ bill'.off + LinesOff(bill'.lines) = 0
      \/ bill'.off + LinesOff(bill'.lines) <= Capped(Gross(bill'.lines))
  <2>1. LinesOff(lines) \in Nat
    BY <1>3, TotalsTyped
  <2> QED
    BY <1>2, <1>4, <1>7, <2>1 DEF Authorized
<1>9. NotesKept'
  BY <1>1, <1>4 DEF NotesKept
<1>10. IssuedWell
  BY <1>5, <1>7, <1>8 DEF IssuedWell
<1> QED
  BY <1>6, <1>7, <1>9, <1>10 DEF PricingInv

\* The trials of a note, also where there is no tax to try.
LEMMA NoteTyped ==
    ASSUME NEW amount \in Nat, amount > 0
    PROVE  /\ CreditSubtotal(amount) \in Nat
           /\ NoteTotal(CreditSubtotal(amount)) \in Nat
           /\ NoteTotal(CreditSubtotal(amount)) - amount \in -1..1
           /\ NoteTotal(CreditSubtotal(amount)) - amount = 1 => (CreditSubtotal(amount) * VAT) % 100 = 50
<1>1. CASE VAT = 0
  <2>1. CreditSubtotal(amount) = amount
    BY <1>1 DEF CreditSubtotal
  <2>2. amount * VAT = 0
    BY <1>1
  <2>3. HalfUp(0, 100) = 0
    BY HalfUpCents
  <2>4. NoteTotal(amount) = amount
    BY <2>2, <2>3 DEF NoteTotal
  <2> QED
    BY <2>1, <2>4
<1>2. CASE VAT > 0
  <2> DEFINE c == CreditSubtotal(amount)
  <2>1. c \in Nat /\ Trial(c) - amount \in {-1, 0}
    BY <1>2, FoundBelow
  <2> HIDE DEF c
  <2>2. /\ NoteTotal(c) \in Nat /\ NoteTotal(c) - Trial(c) \in {0, 1} /\ Trial(c) \in Nat
        /\ NoteTotal(c) # Trial(c) => (c * VAT) % 100 = 50
    BY <2>1, NoteOfTrial, TrialTyped
  <2>3. NoteTotal(c) - amount \in -1..1 /\ (NoteTotal(c) - amount = 1 => NoteTotal(c) # Trial(c))
    BY <2>1, <2>2
  <2> QED
    BY <2>1, <2>2, <2>3 DEF c
<1> QED
  BY <1>1, <1>2, PricingAssumption

LEMMA NoteKeeps ==
    ASSUME PricingInv, NEW amount \in Refunds \cup {bill.total - Repaid}, CreateNote(amount)
    PROVE  PricingInv'
<1>1. TillTyped /\ BillKept /\ ~Draft /\ credited \in Seq(Note) /\ amount > 0
      /\ UNCHANGED <<offer, average, till, limit, bill>>
  BY DEF PricingInv, NotesKept, CreateNote
<1>2. amount \in Nat
  <2>1. bill.total \in Nat
    <3>1. /\ bill.lines \in [Goods -> SaleLine] /\ bill.off \in Nat
          /\ bill.off <= Subtotal(bill.lines) /\ bill.total = TotalOf(bill.lines, bill.off)
      BY <1>1 DEF BillKept
    <3>2. Subtotal(bill.lines) \in Nat /\ TaxOf(bill.lines, bill.off) \in Nat
      BY <3>1, TotalsTyped, TaxBound
    <3> QED
      BY <3>1, <3>2 DEF TotalOf
  <2>2. Repaid \in Nat
    <3>1. DOMAIN credited = 1..Len(credited) /\ Len(credited) \in Nat
      BY <1>1
    <3>2. IsFiniteSet(DOMAIN credited)
      BY <3>1, FS_Interval
    <3>3. \A k \in DOMAIN credited : credited[k] \in Note
      BY <1>1
    <3> DEFINE f == [k \in DOMAIN credited |-> credited[k].total]
    <3>4. \A k \in DOMAIN credited : f[k] \in Nat
      BY <3>3 DEF Note
    <3> HIDE DEF f
    <3>5. SumOf(DOMAIN credited, f) \in Nat
      BY <3>2, <3>4, SumType
    <3> QED
      BY <3>5 DEF Repaid, f
  <2> QED
    BY <1>1, <2>1, <2>2, PricingAssumption
<1> DEFINE s == CreditSubtotal(amount)
           c == [asked |-> amount, subtotal |-> s, total |-> NoteTotal(s)]
<1>3. c \in Note
  <2>1. s \in Nat /\ NoteTotal(s) \in Nat
    BY <1>1, <1>2, NoteTyped
  <2> HIDE DEF s
  <2>2. c \in [asked : Nat, subtotal : Nat, total : Nat]
    BY <1>2, <2>1
  <2> QED
    BY <1>1, <2>2 DEF Note, s
<1>4. credited' = Append(credited, c)
  BY DEF CreateNote, NoteTotal
<1> HIDE DEF c
<1>5. credited' \in Seq(Note)
  BY <1>1, <1>3, <1>4
<1>6. TillTyped' /\ ~Draft'
  BY <1>1 DEF TillTyped, Draft
<1>7. BillKept'
  <2>1. (TotalOf(bill.lines, bill.off))' = TotalOf(bill.lines, bill.off)
    BY <1>1 DEF TotalOf, TaxOf, Taxed
  <2>2. (Subtotal(bill.lines))' = Subtotal(bill.lines)
    BY <1>1
  <2> QED
    BY <1>1, <2>1, <2>2 DEF BillKept
<1> QED
  BY <1>5, <1>6, <1>7 DEF PricingInv, NotesKept

\* A step at the till leaves the invoice and its notes alone.
LEMMA DraftKeeps ==
    ASSUME PricingInv, Draft, TillTyped', UNCHANGED <<bill, credited>>
    PROVE  PricingInv'
  BY DEF PricingInv, BillKept, NotesKept, Draft

LEMMA LineKeeps ==
    ASSUME TillTyped, NEW p \in Goods, NEW n \in Nat, NEW off \in Nat, WriteLine(p, n, off),
           UNCHANGED <<offer, average, limit>>
    PROVE  TillTyped'
<1>1. DraftPrice(offer[p], till.tier, till.category, n) \in Nat
  BY PricesTyped
<1> DEFINE l == [qty |-> n, price |-> DraftPrice(offer[p], till.tier, till.category, n), off |-> off]
<1>2. l \in SaleLine
  BY <1>1 DEF SaleLine
<1>3. till' = [till EXCEPT !.lines = [till.lines EXCEPT ![p] = l]]
  BY DEF WriteLine
<1> HIDE DEF l
<1> QED
  BY <1>2, <1>3 DEF TillTyped

\* The lines of a till are typed, so are what changes them.
LEMMA TillActions ==
    ASSUME PricingInv, NEW p \in Goods
    PROVE  /\ EditProduct(p) \/ ReceiveAtCost(p) \/ TakeOne(p) \/ RemoveLine(p) => PricingInv'
           /\ \A off \in Reductions : AddLine(p, off) \/ SetLineDiscount(p, off) => PricingInv'
           /\ \A off \in Reductions, n \in 1..MostOf[p] : EditLine(p, n, off) => PricingInv'
<1>1. TillTyped /\ till.lines[p].qty \in Nat /\ till.lines[p].off \in Nat
      /\ till.lines \in [Goods -> SaleLine]
  BY DEF PricingInv, TillTyped, SaleLine
<1>2. Reductions \subseteq Nat /\ Offers \subseteq Offer /\ Costs \subseteq Nat
  BY PricingAssumption
<1>3. ASSUME EditProduct(p) PROVE PricingInv'
  BY <1>1, <1>2, <1>3, DraftKeeps DEF EditProduct, TillTyped
<1>4. ASSUME ReceiveAtCost(p) PROVE PricingInv'
  BY <1>1, <1>2, <1>4, DraftKeeps DEF ReceiveAtCost, TillTyped
<1>5. ASSUME TakeOne(p) PROVE PricingInv'
  <2>1. till.lines[p].qty - 1 \in Nat
    BY <1>1, <1>5 DEF TakeOne
  <2>2. TillTyped'
    BY <1>1, <1>5, <2>1, LineKeeps DEF TakeOne, AtTill
  <2> QED
    BY <1>5, <2>2, DraftKeeps DEF TakeOne, AtTill
<1>6. ASSUME RemoveLine(p) PROVE PricingInv'
  <2>1. NoLine \in SaleLine
    BY DEF NoLine, SaleLine
  <2>2. till' = [till EXCEPT !.lines[p] = NoLine] /\ UNCHANGED <<offer, average, limit>>
    BY <1>6 DEF RemoveLine, AtTill
  <2>3. TillTyped'
    BY <1>1, <2>1, <2>2 DEF TillTyped
  <2> QED
    BY <1>6, <2>3, DraftKeeps DEF RemoveLine, AtTill
<1>7. ASSUME NEW off \in Reductions, AddLine(p, off) PROVE PricingInv'
  <2>1. till.lines[p].qty + 1 \in Nat /\ till.lines[p].off + off \in Nat
    BY <1>1, <1>2
  <2>2. TillTyped'
    BY <1>1, <1>7, <2>1, LineKeeps DEF AddLine, AtTill
  <2> QED
    BY <1>7, <2>2, DraftKeeps DEF AddLine, AtTill
<1>8. ASSUME NEW off \in Reductions, SetLineDiscount(p, off) PROVE PricingInv'
  <2> DEFINE fresh == Refreshed(till.lines, till.tier, till.category)
  <2>1. fresh \in [Goods -> SaleLine]
    BY <1>1, PricedLines
  <2>2. till' = [till EXCEPT !.lines = [fresh EXCEPT ![p].off = off]]
        /\ UNCHANGED <<offer, average, limit>>
    BY <1>8 DEF SetLineDiscount, AtTill
  <2> HIDE DEF fresh
  <2>3. [fresh EXCEPT ![p].off = off] \in [Goods -> SaleLine]
    BY <1>2, <2>1 DEF SaleLine
  <2>4. TillTyped'
    BY <1>1, <2>2, <2>3 DEF TillTyped
  <2> QED
    BY <1>8, <2>4, DraftKeeps DEF SetLineDiscount, AtTill
<1>9. ASSUME NEW off \in Reductions, NEW n \in 1..MostOf[p], EditLine(p, n, off) PROVE PricingInv'
  <2>1. n \in Nat /\ off \in Nat
    BY <1>2, PricingAssumption
  <2>2. TillTyped'
    BY <1>1, <1>9, <2>1, LineKeeps DEF EditLine, AtTill
  <2> QED
    BY <1>9, <2>2, DraftKeeps DEF EditLine, AtTill
<1> QED
  BY <1>3, <1>4, <1>5, <1>6, <1>7, <1>8, <1>9

LEMMA DetailsKeep ==
    ASSUME PricingInv, NEW tier \in Tiers, NEW category \in Categories, NEW off \in Reductions,
           SaveDetails(tier, category, off)
    PROVE  PricingInv'
<1> DEFINE fresh == Refreshed(till.lines, tier, category)
<1>1. TillTyped /\ till.lines \in [Goods -> SaleLine] /\ off \in Nat
  BY PricingAssumption DEF PricingInv, TillTyped
<1>2. fresh \in [Goods -> SaleLine]
  BY <1>1, PricedLines
<1>3. till' = [tier |-> tier, category |-> category, lines |-> fresh, off |-> off]
      /\ UNCHANGED <<offer, average, limit>>
  BY DEF SaveDetails, AtTill
<1> HIDE DEF fresh
<1>4. TillTyped'
  BY <1>1, <1>2, <1>3 DEF TillTyped
<1> QED
  BY <1>4, DraftKeeps DEF SaveDetails, AtTill

LEMMA PricingStarts == PricingInit => PricingInv
<1> SUFFICES ASSUME PricingInit PROVE PricingInv
  OBVIOUS
<1>1. TillTyped
  <2>1. NoLine \in SaleLine
    BY DEF NoLine, SaleLine
  <2>2. offer \in [Goods -> Offer] /\ average \in [Goods -> Nat \cup {Unset}] /\ limit \in Limit
    BY PricingAssumption DEF PricingInit
  <2>3. till \in [tier : {"retail"}, category : {"customer_tier", "retail"},
                  lines : {[p \in Goods |-> NoLine]}, off : {0}]
    BY DEF PricingInit
  <2> QED
    BY <2>1, <2>2, <2>3 DEF TillTyped
<1>2. Draft /\ credited = <<>>
  BY DEF PricingInit, Draft
<1> QED
  BY <1>1, <1>2 DEF PricingInv, BillKept, NotesKept

\* Only the two ways to issue an invoice change the invoice.
LEMMA PricingSteps ==
    ASSUME PricingInv, [PricingNext]_pricingVars
    PROVE  PricingInv' /\ (bill' = bill \/ IssuedWell)
<1>1. CASE UNCHANGED pricingVars
  BY <1>1 DEF pricingVars, PricingInv, TillTyped, BillKept, NotesKept, Draft, TotalOf, TaxOf, Taxed
<1>2. ASSUME NEW p \in Goods,
             \/ EditProduct(p) \/ ReceiveAtCost(p) \/ TakeOne(p) \/ RemoveLine(p)
             \/ \E off \in Reductions :
                   \/ AddLine(p, off) \/ SetLineDiscount(p, off)
                   \/ \E n \in 1..MostOf[p] : EditLine(p, n, off)
      PROVE  PricingInv' /\ bill' = bill
  <2>1. PricingInv'
    BY <1>2, TillActions
  <2> QED
    BY <1>2, <2>1 DEF EditProduct, ReceiveAtCost, TakeOne, RemoveLine, AddLine, SetLineDiscount,
                      EditLine, AtTill
<1>3. ASSUME ChangeLimit PROVE PricingInv' /\ bill' = bill
  <2>1. TillTyped'
    BY <1>3, PricingAssumption DEF ChangeLimit, PricingInv, TillTyped
  <2> QED
    BY <1>3, <2>1, DraftKeeps DEF ChangeLimit
<1>4. ASSUME NEW tier \in Tiers, NEW category \in Categories, NEW off \in Reductions,
             SaveDetails(tier, category, off)
      PROVE  PricingInv' /\ bill' = bill
  BY <1>4, DetailsKeep DEF SaveDetails, AtTill
<1>5. ASSUME Convert PROVE PricingInv' /\ IssuedWell
  BY <1>5, ConvertIssues
<1>6. ASSUME NEW lines \in Sent, NEW category \in Categories \ {"retail"}, NEW off \in Reductions,
             NEW fit \in BOOLEAN, SendInvoice(lines, category, off, fit)
      PROVE  PricingInv' /\ IssuedWell
  BY <1>6, SendIssues
<1>7. ASSUME NEW amount \in Refunds \cup {bill.total - Repaid}, CreateNote(amount)
      PROVE  PricingInv' /\ bill' = bill
  BY <1>7, NoteKeeps DEF CreateNote
<1> QED
  BY <1>1, <1>2, <1>3, <1>4, <1>5, <1>6, <1>7 DEF PricingNext

\* Notes kept as they are asked add up.
LEMMA NotesAddUp == PricingInv => CreditsAddUp
<1> SUFFICES ASSUME PricingInv PROVE CreditsAddUp
  OBVIOUS
<1>1. credited \in Seq(Note) /\ BillKept /\ (Draft => credited = <<>>) /\ TillTyped
  BY DEF PricingInv, NotesKept
<1>2. ASSUME NEW k \in DOMAIN credited
      PROVE  /\ Miss(k) \in -1..1
             /\ Miss(k) = 1 => (credited[k].subtotal * VAT) % 100 = 50
             /\ k = 1 /\ credited[1].asked = bill.total
                  /\ (\A p \in Rows(bill.lines) : offer[p].taxable) => Miss(1) = 0
  <2> DEFINE a == credited[k].asked
  <2>1. /\ a \in Nat /\ a > 0 /\ credited[k].subtotal = CreditSubtotal(a)
        /\ credited[k].total = NoteTotal(CreditSubtotal(a))
    <3>1. credited[k] \in Note
      BY <1>1
    <3> QED
      BY <3>1 DEF Note
  <2>2. Miss(k) = NoteTotal(CreditSubtotal(a)) - a
    BY <2>1 DEF Miss
  <2> HIDE DEF a
  <2>3. Miss(k) \in -1..1 /\ (Miss(k) = 1 => (credited[k].subtotal * VAT) % 100 = 50)
    BY <2>1, <2>2, NoteTyped
  <2>4. ASSUME k = 1, credited[1].asked = bill.total, \A p \in Rows(bill.lines) : offer[p].taxable
        PROVE  Miss(1) = 0
    <3> DEFINE s == Subtotal(bill.lines)
               n == s - bill.off
    <3>1. ~Draft
      BY <1>1
    <3>2. /\ bill.lines \in [Goods -> SaleLine] /\ bill.off \in Nat
          /\ bill.off <= s /\ bill.total = TotalOf(bill.lines, bill.off) /\ s \in Nat
      BY <1>1, <3>1, TotalsTyped DEF BillKept
    <3>3. a = bill.total
      BY <2>4 DEF a
    <3>4. s # 0
      <4> SUFFICES ASSUME s = 0 PROVE FALSE
        OBVIOUS
      <4>1. TotalOf(bill.lines, bill.off) = 0
        BY <3>2 DEF TotalOf, TaxOf
      <4> QED
        BY <2>1, <3>2, <3>3, <4>1
    <3>5. a = NoteTotal(n) /\ n \in Nat
      BY <2>4, <3>2, <3>3, <3>4, WholeTax
    <3> HIDE DEF n
    <3>6. n > 0
      <4> SUFFICES ASSUME n = 0 PROVE FALSE
        BY <3>5
      <4>1. n * VAT = 0
        BY PricingAssumption
      <4>2. HalfUp(0, 100) = 0
        BY HalfUpCents
      <4> QED
        BY <2>1, <3>5, <4>1, <4>2 DEF NoteTotal
    <3>7. NoteTotal(CreditSubtotal(a)) = a
      BY <3>5, <3>6, WholeIsFound
    <3> QED
      BY <2>1, <2>2, <2>4, <3>7
  <2> QED
    BY <2>3, <2>4
<1> QED
  BY <1>2 DEF CreditsAddUp

\* For any catalogue, costs, grants and quantities, and any tax of at most half
\* the price (ModestVAT, which only the credit notes need): an invoice issued at the till or by an integration earns more
\* than its goods cost, within the grant of the member, at the prices the till
\* shows, and its credit notes take off what was asked to the cent.
THEOREM SalesSound == PricingSpec => SalesAreSound
<1>1. PricingInv /\ [PricingNext]_pricingVars => [Draft /\ bill' # NoBill => IssuedWell]_pricingVars
  BY PricingSteps DEF Draft
<1> QED
  BY <1>1, PricingStarts, PricingSteps, NotesAddUp, PTL DEF PricingSpec, SalesAreSound

--------------------------------------------------------------------------------
(* The import dialog.  The properties themselves are the invariant, with          *)
(* WaitsAlone: whoever waits for a serial check is alone, so neither the rows nor    *)
(* the columns change between what was asked and its answer.                     *)
ScreenInv ==
    /\ ScreenTypeOK /\ ReadyRowsAgree /\ AnswersAreCurrent /\ RowsFollowSource
    /\ SubmitChecksAreCurrent /\ WaitsAlone

LEMMA TableParts ==
    ASSUME NEW S, NEW t \in Tables(S)
    PROVE  /\ \E n \in 0..MaxRows : DOMAIN t = 1..n
           /\ t = [i \in DOMAIN t |-> t[i]] /\ \A i \in DOMAIN t : t[i] \in S
BY DEF Tables

LEMMA TableFits ==
    ASSUME NEW S, NEW t, t = [i \in DOMAIN t |-> t[i]], \A i \in DOMAIN t : t[i] \in S,
           \E n \in 0..MaxRows : DOMAIN t = 1..n
    PROVE  t \in Tables(S)
BY DEF Tables

LEMMA NoRowsFit == ASSUME NEW S PROVE NoRows \in Tables(S) /\ DOMAIN NoRows = {}
<1>1. 0 \in 0..MaxRows /\ 1..0 = {} /\ DOMAIN NoRows = 1..0
  BY ScreenBounds DEF NoRows
<1>2. NoRows \in Tables(S)
  BY <1>1, TableFits DEF NoRows
<1> QED BY <1>1, <1>2

LEMMA EmptyTable ==
    ASSUME NEW S, NEW t \in Tables(S), DOMAIN t = {}
    PROVE  t = NoRows
<1>1. t = [i \in {} |-> t[i]] /\ NoRows = [i \in {} |-> NoRows[i]]
  BY TableParts, NoRowsFit DEF NoRows
<1> QED BY <1>1

LEMMA CompactFits ==
    ASSUME rows \in Tables(Row)
    PROVE  Compact \in Tables(SentRow) /\ DOMAIN Compact = DOMAIN rows
<1>1. DOMAIN Compact = DOMAIN rows
  BY DEF Compact
<1>2. \A i \in DOMAIN rows : Compact[i] \in SentRow
  <2>1. \A i \in DOMAIN rows : rows[i] \in Row
    BY TableParts
  <2> QED BY <2>1 DEF Compact, Row, SentRow
<1>3. Compact \in Tables(SentRow)
  BY <1>1, <1>2, TableParts, TableFits DEF Compact
<1> QED BY <1>1, <1>3

LEMMA ReadFits ==
    ASSUME NEW texts \in Tables(Texts)
    PROVE  Read(texts) \in Tables(SentRow)
<1>1. DOMAIN Read(texts) = DOMAIN texts
  BY DEF Read
<1>2. \A i \in DOMAIN texts : Read(texts)[i] \in SentRow
  BY TableParts DEF Read, SentRow
<1> QED BY <1>1, <1>2, TableParts, TableFits DEF Read

LEMMA CheckedFits ==
    ASSUME NEW table \in Tables(SentRow), NEW refused
    PROVE  /\ Checked(table, refused) \in Tables(Row)
           /\ DOMAIN Checked(table, refused) = DOMAIN table
           /\ \A i \in DOMAIN table :
                 /\ Checked(table, refused)[i].text = table[i].text
                 /\ Checked(table, refused)[i].excluded = table[i].excluded
                 /\ Checked(table, refused)[i].valid = Passes(table, refused, i)
<1>1. DOMAIN Checked(table, refused) = DOMAIN table
  BY DEF Checked
<1>2. \A i \in DOMAIN table : Passes(table, refused, i) \in BOOLEAN
  BY TableParts DEF Passes, SentRow
<1>3. \A i \in DOMAIN table :
         Checked(table, refused)[i] = [text |-> table[i].text, excluded |-> table[i].excluded,
                                       valid |-> Passes(table, refused, i)]
  BY DEF Checked
<1>4. \A i \in DOMAIN table : Checked(table, refused)[i] \in Row
  <2>1. \A i \in DOMAIN table : table[i] \in SentRow
    BY TableParts
  <2> SUFFICES ASSUME NEW i \in DOMAIN table PROVE Checked(table, refused)[i] \in Row
    OBVIOUS
  <2> DEFINE v == Passes(table, refused, i)
  <2>2. v \in BOOLEAN /\ table[i].text \in Texts /\ table[i].excluded \in BOOLEAN
    BY <1>2, <2>1 DEF SentRow
  <2>3. Checked(table, refused)[i]
           = [text |-> table[i].text, excluded |-> table[i].excluded, valid |-> v]
    BY <1>3
  <2> HIDE DEF v
  <2> QED BY <2>2, <2>3 DEF Row
<1>5. Checked(table, refused) \in Tables(Row)
  BY <1>1, <1>4, TableParts, TableFits DEF Checked
<1> QED BY <1>1, <1>3, <1>5

(* Of the rows a server calls valid no two that are included have a serial number  *)
(* in common (validate_rows).                                                  *)
LEMMA CheckedAgree ==
    ASSUME NEW table \in Tables(SentRow), NEW refused,
           rows' = Checked(table, refused)
    PROVE  ReadyRowsAgree'
<1> DEFINE N(i) == Numbers(table, i)
<1>1. PICK n \in 0..MaxRows : DOMAIN table = 1..n
  BY TableParts
<1>2. \A i \in DOMAIN table : Numbers(rows', i) = N(i)
  BY CheckedFits DEF Numbers
<1>3. ASSUME NEW i \in 1..n, NEW j \in 1..n, j < i, ~table[i].excluded, Passes(table, refused, i)
      PROVE  N(j) \cap N(i) = {}
  BY <1>3, ScreenBounds DEF Passes
<1>4. ASSUME NEW i \in 1..n, NEW j \in 1..n, i # j, ~table[i].excluded, ~table[j].excluded,
             Passes(table, refused, i), Passes(table, refused, j)
      PROVE  N(i) \cap N(j) = {}
  <2>1. i < j \/ j < i
    BY <1>4, ScreenBounds
  <2> QED BY <1>3, <1>4, <2>1
<1> HIDE DEF N
<1>5. /\ DOMAIN rows' = 1..n
      /\ \A i \in 1..n : rows'[i].excluded = table[i].excluded
                         /\ rows'[i].valid = Passes(table, refused, i)
  BY <1>1, CheckedFits
<1>6. \A i, j \in 1..n :
        ~rows'[i].excluded /\ ~rows'[j].excluded /\ i # j /\ rows'[i].valid /\ rows'[j].valid
          => Numbers(rows', i) \cap Numbers(rows', j) = {}
  BY <1>1, <1>2, <1>4, <1>5
<1> QED BY <1>5, <1>6 DEF ReadyRowsAgree, Included

LEMMA SmallestOf ==
    ASSUME NEW S \in SUBSET Nat, S # {}
    PROVE  \E a \in S : \A b \in S : a <= b
<1> DEFINE R == OpToRel(<, Nat)
<1>1. \E a \in S : \A b \in S : ~(<<b, a>> \in R)
  BY NatLessThanWellFounded, WFMin
<1>2. PICK a \in S : \A b \in S : ~(<<b, a>> \in R)
  BY <1>1
<1>3. \A b \in S : ~(b < a)
  BY <1>2 DEF OpToRel
<1> QED BY <1>3

LEMMA RequestFits ==
    ASSUME NEW kind \in {"source", "columns", "review"}, NEW table \in Tables(SentRow),
           NEW flag \in BOOLEAN
    PROVE  /\ NoPost \in Post /\ Request(kind, table, flag) \in Post
           /\ Request(kind, table, flag) # NoPost
BY NoRowsFit DEF Request, Post, NoPost

LEMMA DetachedFits == Detached \in {0, OldRow}
BY DEF Detached

LEMMA NextRowFits ==
    ASSUME rows' \in Tables(Row), NEW D, D = DOMAIN rows'
    PROVE  NextRow \in {0, OldRow} \cup D
<1> DEFINE all == { i \in D : ~rows'[i].excluded /\ ~rows'[i].valid }
           later == { i \in all : i > editing \/ editing \in {0, OldRow} }
           from == IF later = {} THEN all ELSE later
<1>1. PICK n \in 0..MaxRows : D = 1..n
  BY TableParts
<1>2. CASE all = {}
  <2>1. NextRow = IF editing \in D THEN editing ELSE Detached
    BY <1>2 DEF NextRow
  <2> QED BY <2>1, DetachedFits
<1>3. CASE all # {}
  <2>1. from \in SUBSET Nat /\ from # {} /\ from \subseteq D
    BY <1>1, <1>3
  <2>2. NextRow = CHOOSE i \in from : \A j \in from : i <= j
    BY <1>3 DEF NextRow
  <2>3. \E i \in from : \A j \in from : i <= j
    BY <2>1, SmallestOf
  <2> HIDE DEF from
  <2>4. (CHOOSE i \in from : \A j \in from : i <= j) \in from
    BY <2>3
  <2> QED BY <2>1, <2>2, <2>4
<1> QED BY <1>2, <1>3

(* Rows that are included and valid were so before, each as it is.              *)
LEMMA RowsStayAgreed ==
    ASSUME ReadyRowsAgree,
           \A i \in DOMAIN rows' : ~rows'[i].excluded /\ rows'[i].valid
               => i \in DOMAIN rows /\ rows'[i] = rows[i]
    PROVE  ReadyRowsAgree'
<1> SUFFICES ASSUME NEW i \in Included', NEW j \in Included', i # j, rows'[i].valid, rows'[j].valid
             PROVE  Numbers(rows', i) \cap Numbers(rows', j) = {}
  BY DEF ReadyRowsAgree
<1>1. /\ i \in Included /\ rows'[i] = rows[i] /\ rows[i].valid
      /\ j \in Included /\ rows'[j] = rows[j] /\ rows[j].valid
  BY DEF Included
<1>2. Numbers(rows', i) = Numbers(rows, i) /\ Numbers(rows', j) = Numbers(rows, j)
  BY <1>1 DEF Numbers
<1> QED BY <1>1, <1>2 DEF ReadyRowsAgree

--------------------------------------------------------------------------------
LEMMA NumbersFit ==
    ASSUME NEW table \in Tables(SentRow), NEW i \in DOMAIN table
    PROVE  Numbers(table, i) \subseteq SerialNumbers
<1>1. table[i] \in SentRow
  BY TableParts
<1> QED BY <1>1, ScreenNames DEF Numbers, SentRow

(* A table with the domain of the rows and a row for each of them.              *)
LEMMA RowsFit ==
    ASSUME rows \in Tables(Row), NEW t, t = [i \in DOMAIN rows |-> t[i]],
           \A i \in DOMAIN rows : t[i] \in Row
    PROVE  t \in Tables(Row) /\ DOMAIN t = DOMAIN rows
<1>1. DOMAIN t = DOMAIN rows
  OBVIOUS
<1> QED BY <1>1, TableParts, TableFits

LEMMA ReopenedFits ==
    ASSUME hidden' \in Tables(SentRow), hidden' = hidden \/ hidden' = NoRows,
           rows' = [i \in DOMAIN hidden' |-> [text |-> hidden'[i].text,
                                              excluded |-> hidden'[i].excluded, valid |-> FALSE]]
    PROVE  rows' \in Tables(Row) /\ \A i \in DOMAIN rows' : ~rows'[i].valid
<1> DEFINE t == hidden'
<1>1. DOMAIN rows' = DOMAIN t /\ \A i \in DOMAIN t : rows'[i] =
         [text |-> t[i].text, excluded |-> t[i].excluded, valid |-> FALSE]
  OBVIOUS
<1>2. \A i \in DOMAIN t : t[i] \in SentRow
  BY TableParts
<1>3. \A i \in DOMAIN t : rows'[i] \in Row
  BY <1>1, <1>2 DEF Row, SentRow
<1>4. rows' = [i \in DOMAIN rows' |-> rows'[i]]
  BY <1>1
<1>5. \E n \in 0..MaxRows : DOMAIN rows' = 1..n
  BY <1>1, TableParts
<1> HIDE DEF t
<1>6. rows' \in Tables(Row)
  BY <1>1, <1>3, <1>4, <1>5, TableFits
<1> QED BY <1>1, <1>6

LEMMA StartFits ==
    ASSUME posts \in [Slots -> Post], NEW r \in Post, Start(r) \/ StartAlone(r)
    PROVE  posts' \in [Slots -> Post]
<1>1. NoPost \in Post
  BY NoRowsFit DEF NoPost, Post
<1> QED BY <1>1 DEF Start, StartAlone, Awaited

LEMMA SilenceFits == Silence => posts' \in [Slots -> Post]
<1>1. NoPost \in Post
  BY NoRowsFit DEF NoPost, Post
<1> QED BY <1>1 DEF Silence

LEMMA AnsweredFits ==
    ASSUME posts \in [Slots -> Post], NEW s \in Slots, Answered(s)
    PROVE  posts' \in [Slots -> Post] /\ busy' \in BOOLEAN
<1>1. NoPost \in Post
  BY NoRowsFit DEF NoPost, Post
<1> QED BY <1>1 DEF Answered

LEMMA ScreenTypeStep ==
    ASSUME ScreenTypeOK, [ScreenNext]_screenVars
    PROVE  ScreenTypeOK'
<1> USE DEF ScreenTypeOK, sourceVars, rowVars, viewVars, requestVars, formVars, checkVars
<1>1. CASE UNCHANGED screenVars
  BY <1>1 DEF screenVars
<1>a. NoRows \in Tables(Row) /\ NoRows \in Tables(SentRow) /\ DOMAIN NoRows = {}
  BY NoRowsFit
<1>2. ASSUME NEW f \in Files \cup {NoFile}, ChooseSource(f) PROVE ScreenTypeOK'
  BY <1>2, <1>a, SilenceFits DEF ChooseSource, Restart, Redraw, NoCheck, Drawn
<1>3. CASE ReviewSource
  <2>1. PICK r \in Post : Start(r)
    BY <1>3, <1>a, RequestFits DEF ReviewSource
  <2> QED BY <1>3, <2>1, StartFits DEF ReviewSource
<1>4. CASE AskColumns
  <2>1. PICK r \in Post : StartAlone(r)
    BY <1>4, <1>a, RequestFits DEF AskColumns
  <2> QED BY <1>4, <1>a, <2>1, StartFits, DetachedFits DEF AskColumns, Restart, NoCheck
<1>5. ASSUME NEW reset \in BOOLEAN, ChooseColumns(reset) PROVE ScreenTypeOK'
  BY <1>5, <1>a, SilenceFits, DetachedFits DEF ChooseColumns, Restart, NoCheck, Drawn
<1>6. ASSUME NEW s \in Slots, AnswerSource(s) PROVE ScreenTypeOK'
  <2>1. posts' \in [Slots -> Post] /\ busy' \in BOOLEAN /\ locked' \in BOOLEAN
    BY <1>6, AnsweredFits DEF AnswerSource, Drawn
  <2>2. /\ rows' \in Tables(Row) /\ origin' \in Files \cup {NoFile} /\ step' \in 1..3
        /\ editing' \in {0, OldRow} /\ mapping' \in {"none", "open", "ready", "stale"}
        /\ UNCHANGED checkVars
    BY <1>6, <1>a, ReadFits, CheckedFits, DetachedFits DEF AnswerSource, ShowColumns
  <2> QED BY <1>6, <2>1, <2>2 DEF AnswerSource
<1>7. ASSUME NEW s \in Slots, AnswerColumns(s) PROVE ScreenTypeOK'
  BY <1>7, <1>a, AnsweredFits, DetachedFits DEF AnswerColumns, ShowColumns, Drawn
<1>8. ASSUME NEW s \in Slots, AnswerReview(s) PROVE ScreenTypeOK'
  <2>1. posts[s].rows \in Tables(SentRow)
    BY DEF Post
  <2>2. posts' \in [Slots -> Post] /\ busy' \in BOOLEAN /\ locked' \in BOOLEAN
    BY <1>8, AnsweredFits DEF AnswerReview, Drawn
  <2>3. rows' \in Tables(Row) /\ DOMAIN rows' = DOMAIN posts[s].rows
    BY <1>8, <2>1, CheckedFits DEF AnswerReview
  <2>4. editing' \in {0, OldRow} \cup DOMAIN rows'
    BY <1>8, <2>3, NextRowFits, DetachedFits DEF AnswerReview
  <2> QED BY <1>8, <2>2, <2>3, <2>4 DEF AnswerReview, Redraw, NoCheck
<1>9. ASSUME NEW s \in Slots, FailPost(s) PROVE ScreenTypeOK'
  BY <1>9, AnsweredFits DEF FailPost
<1>10. ASSUME NEW i \in 0..OldRow, OpenRow(i) PROVE ScreenTypeOK'
  BY <1>10 DEF OpenRow, Redraw, NoCheck
<1>11. ASSUME NEW i \in 1..OldRow, NEW text \in Texts, NEW save \in BOOLEAN, Change(i, text, save)
       PROVE  ScreenTypeOK'
  <2>1. rows' \in Tables(Row) /\ DOMAIN rows' = DOMAIN rows
    <3>1. CASE rows' = rows
      BY <3>1
    <3>2. CASE rows' = [rows EXCEPT ![i] = [text |-> text, excluded |-> FALSE, valid |-> FALSE]]
      <4>1. rows' = [j \in DOMAIN rows |-> rows'[j]]
        BY <3>2
      <4>2. \A j \in DOMAIN rows : rows[j] \in Row
        BY TableParts
      <4>3. \A j \in DOMAIN rows : rows'[j] \in Row
        BY <3>2, <4>2 DEF Row
      <4> QED BY <4>1, <4>3, RowsFit
    <3> QED BY <1>11, <3>1, <3>2 DEF Change
  <2> QED BY <1>11, <2>1, SilenceFits DEF Change, Drawn, Hold, Restart, NoCheck
<1>12. ASSUME NEW selected \in SUBSET (1..MaxRows), Exclude(selected) PROVE ScreenTypeOK'
  <2>1. rows' \in Tables(Row) /\ DOMAIN rows' = DOMAIN rows
    <3>1. rows' = [j \in DOMAIN rows |-> rows'[j]]
      BY <1>12 DEF Exclude
    <3>2. \A j \in DOMAIN rows : rows[j] \in Row
      BY TableParts
    <3>3. \A j \in DOMAIN rows : rows'[j] \in Row
      BY <1>12, <3>2 DEF Row, Exclude
    <3> QED BY <3>1, <3>3, RowsFit
  <2> QED BY <1>12, <2>1, SilenceFits DEF Exclude, Redraw, NoCheck
<1>13. ASSUME NEW selected \in SUBSET (1..MaxRows), NEW text \in Texts, BulkApply(selected, text)
       PROVE  ScreenTypeOK'
  <2>1. rows' \in Tables(Row) /\ DOMAIN rows' = DOMAIN rows
    <3>1. rows' = [j \in DOMAIN rows |-> rows'[j]]
      BY <1>13 DEF BulkApply
    <3>2. \A j \in DOMAIN rows : rows[j] \in Row
      BY TableParts
    <3>3. \A j \in DOMAIN rows : rows'[j] \in Row
      BY <1>13, <3>2 DEF Row, BulkApply
    <3> QED BY <3>1, <3>3, RowsFit
  <2> QED BY <1>13, <2>1, SilenceFits DEF BulkApply, Hold
<1>14. ASSUME NEW what \in {"save", "next", "summary", "apply"}, AskCheck(what) PROVE ScreenTypeOK'
  BY <1>14 DEF AskCheck, Hold
<1>15. CASE Turn
  <2>1. step' \in 1..3
    <3>1. step \in 1..3
      OBVIOUS
    <3> QED BY <1>15, <3>1 DEF Turn
  <2>2. open' \in BOOLEAN
    BY <1>15 DEF Turn
  <2> QED BY <1>15, <2>1, <2>2 DEF Turn
<1>16. ASSUME NEW numbers \in SUBSET SerialNumbers, NEW table \in Tables(SentRow),
              ChangeForm(numbers, table)
       PROVE  ScreenTypeOK'
  BY <1>16 DEF ChangeForm
<1>17. CASE SubmitForm
  <2>1. FormNumbers \subseteq SerialNumbers
    BY NumbersFit DEF FormNumbers
  <2> QED BY <1>17, <2>1 DEF SubmitForm
<1>18. CASE RefuseSubmit
  BY <1>18 DEF RefuseSubmit
<1>19. CASE SendForm
  <2>1. hidden' \in Tables(SentRow) /\ (hidden' = hidden \/ hidden' = NoRows)
        /\ typed' \subseteq SerialNumbers
    BY <1>19, <1>a DEF SendForm
  <2>2. rows' \in Tables(Row)
    BY <1>19, <2>1, ReopenedFits DEF SendForm
  <2>3. step' \in 1..3 /\ editing' \in {0, OldRow} \cup DOMAIN rows'
    BY <1>19 DEF SendForm
  <2>4. posts' \in [Slots -> Post]
    BY <1>19, SilenceFits DEF SendForm
  <2>5. /\ content' \in Files \cup {NoFile} /\ origin' \in Files \cup {NoFile}
        /\ mapping' \in {"none", "open", "ready", "stale"}
        /\ {open, busy, locked, overlapped, waiting}' \subseteq BOOLEAN
        /\ check' \in {"none", "save", "next", "summary", "apply"}
        /\ submitCheck' \in SUBSET SUBSET SerialNumbers
    BY <1>19 DEF SendForm, NoCheck
  <2> QED BY <2>1, <2>2, <2>3, <2>4, <2>5
<1>20. CASE RefuseCheck
  BY <1>20 DEF RefuseCheck, NoCheck
<1>21. CASE SendReview
  <2>1. PICK r \in Post : Start(r)
    BY <1>21, CompactFits, RequestFits DEF SendReview
  <2> QED BY <1>21, <2>1, StartFits DEF SendReview, NoCheck
<1>22. CASE ShowSummary
  <2>1. step' \in 1..3
    BY <1>22 DEF ShowSummary
  <2> QED BY <1>22, <2>1 DEF ShowSummary, NoCheck
<1>23. CASE AddItems
  BY <1>23, CompactFits DEF AddItems, NoCheck
<1>b. hidden \in Tables(SentRow) /\ typed \in SUBSET SerialNumbers
  OBVIOUS
<1>c. \A numbers \in SUBSET SerialNumbers : ChangeForm(numbers, hidden) => ScreenTypeOK'
  BY <1>16, <1>b
<1>d. ChangeForm(typed, NoRows) => ScreenTypeOK'
  BY <1>16, <1>a, <1>b
<1> HIDE DEF ScreenTypeOK
<1>24. CASE PageStep
  BY <1>24, <1>2, <1>3, <1>4, <1>5, <1>6, <1>7, <1>8, <1>9, <1>10, <1>11, <1>12, <1>13, <1>14,
     <1>15, <1>17, <1>18, <1>19, <1>c, <1>d DEF PageStep
<1> QED BY <1>1, <1>20, <1>21, <1>22, <1>23, <1>24 DEF ScreenNext

--------------------------------------------------------------------------------
LEMMA NothingIncluded == rows' = NoRows => Included' = {} /\ Attention' = {} /\ DOMAIN rows' = {}
<1>1. DOMAIN NoRows = {}
  BY NoRowsFit
<1> QED BY <1>1 DEF Included, Attention

LEMMA AgreeStep ==
    ASSUME ScreenTypeOK, ReadyRowsAgree, [ScreenNext]_screenVars
    PROVE  ReadyRowsAgree'
<1> USE DEF rowVars, viewVars, sourceVars, requestVars
<1>1. CASE rows' = rows
  BY <1>1, RowsStayAgreed
<1>2. CASE rows' = NoRows
  BY <1>2, NothingIncluded DEF ReadyRowsAgree
<1>3. ASSUME NEW s \in Slots, AnswerSource(s), rows' # NoRows PROVE ReadyRowsAgree'
  <2>1. PICK texts \in Tables(Texts), refused \in SUBSET (1..MaxRows) : rows' = Checked(Read(texts), refused)
    BY <1>3 DEF AnswerSource, ShowColumns
  <2>2. Read(texts) \in Tables(SentRow)
    BY ReadFits
  <2> QED BY <2>1, <2>2, CheckedAgree
<1>4. ASSUME NEW s \in Slots, AnswerReview(s) PROVE ReadyRowsAgree'
  <2>1. posts[s].rows \in Tables(SentRow)
    BY DEF ScreenTypeOK, Post
  <2> QED BY <1>4, <2>1, CheckedAgree DEF AnswerReview
<1>5. ASSUME NEW i \in 1..OldRow, NEW text \in Texts, NEW save \in BOOLEAN, Change(i, text, save)
      PROVE  ReadyRowsAgree'
  <2>1. \A j \in DOMAIN rows' : rows'[j].valid => j \in DOMAIN rows /\ rows'[j] = rows[j]
    BY <1>5 DEF Change
  <2> QED BY <2>1, RowsStayAgreed
<1>6. ASSUME NEW selected, Exclude(selected) PROVE ReadyRowsAgree'
  <2>1. \A j \in DOMAIN rows : rows[j] \in Row
    BY TableParts DEF ScreenTypeOK
  <2>2. \A j \in DOMAIN rows' : ~rows'[j].excluded => j \in DOMAIN rows /\ rows'[j] = rows[j]
    BY <1>6, <2>1 DEF Exclude, Row
  <2> QED BY <2>2, RowsStayAgreed
<1>7. ASSUME NEW selected, NEW text, BulkApply(selected, text) PROVE ReadyRowsAgree'
  <2>1. \A j \in DOMAIN rows' : rows'[j].valid => j \in DOMAIN rows /\ rows'[j] = rows[j]
    BY <1>7 DEF BulkApply
  <2> QED BY <2>1, RowsStayAgreed
<1>8. CASE SendForm
  <2>1. \A j \in DOMAIN rows' : ~rows'[j].valid
    BY <1>8 DEF SendForm
  <2> QED BY <2>1, RowsStayAgreed
<1>9. UNCHANGED screenVars => rows' = rows
  BY DEF screenVars
<1>10. RefuseCheck \/ SendReview \/ ShowSummary \/ AddItems \/ Turn \/ SubmitForm \/ RefuseSubmit
          \/ ReviewSource => rows' = rows
  BY DEF RefuseCheck, SendReview, ShowSummary, AddItems, Turn, SubmitForm, RefuseSubmit,
     ReviewSource
<1>11. AskColumns => rows' = rows \/ rows' = NoRows
  BY DEF AskColumns
<1>12. \A f : ChooseSource(f) \/ ChooseColumns(f) => rows' = NoRows
  BY DEF ChooseSource, ChooseColumns
<1>13. \A s : AnswerColumns(s) => rows' = NoRows
  BY DEF AnswerColumns, ShowColumns
<1>14. \A s : FailPost(s) \/ OpenRow(s) \/ AskCheck(s) => rows' = rows
  BY DEF FailPost, OpenRow, AskCheck
<1>15. \A numbers, table : ChangeForm(numbers, table) => rows' = rows
  BY DEF ChangeForm
<1>16. CASE PageStep
  BY <1>1, <1>2, <1>3, <1>4, <1>5, <1>6, <1>7, <1>8, <1>10, <1>11, <1>12, <1>13, <1>14, <1>15,
     <1>16 DEF PageStep
<1> QED BY <1>1, <1>9, <1>10, <1>16 DEF ScreenNext

LEMMA SubmitStep ==
    ASSUME ScreenTypeOK, SubmitChecksAreCurrent, [ScreenNext]_screenVars
    PROVE  SubmitChecksAreCurrent'
<1> USE DEF checkVars, formVars, screenVars
<1>1. UNCHANGED formVars => FormNumbers' = FormNumbers
  BY DEF FormNumbers, Numbers
<1>2. CASE UNCHANGED formVars /\ submitCheck' \in {submitCheck, {}, {FormNumbers}}
  BY <1>1, <1>2 DEF SubmitChecksAreCurrent
<1>3. CASE submitCheck' = {}
  BY <1>3 DEF SubmitChecksAreCurrent
<1> DEFINE Kept == \/ UNCHANGED formVars /\ submitCheck' \in {submitCheck, {}, {FormNumbers}}
                   \/ submitCheck' = {}
<1>4. \A f : ChooseSource(f) => Kept
  BY DEF ChooseSource, Restart, Redraw
<1>5. ReviewSource \/ AskColumns \/ Turn \/ SubmitForm \/ RefuseSubmit \/ SendForm => Kept
  BY DEF ReviewSource, AskColumns, Turn, SubmitForm, RefuseSubmit, SendForm, Restart
<1>6. \A reset \in BOOLEAN : ChooseColumns(reset) => Kept
  BY DEF ChooseColumns, Restart
<1>7. \A s : AnswerSource(s) \/ AnswerColumns(s) \/ AnswerReview(s) \/ FailPost(s) => Kept
  BY DEF AnswerSource, AnswerColumns, AnswerReview, FailPost, ShowColumns, Redraw
<1>8. \A i : OpenRow(i) \/ Exclude(i) \/ AskCheck(i) => Kept
  BY DEF OpenRow, Exclude, AskCheck, Redraw
<1>9. \A i, text, save : Change(i, text, save) => Kept
  BY DEF Change, Restart
<1>10. \A i, text : BulkApply(i, text) \/ ChangeForm(i, text) => Kept
  BY DEF BulkApply, ChangeForm
<1>11. RefuseCheck \/ SendReview \/ ShowSummary \/ AddItems \/ UNCHANGED screenVars => Kept
  BY DEF RefuseCheck, SendReview, ShowSummary, AddItems
<1>12. Kept => SubmitChecksAreCurrent'
  BY <1>2, <1>3
<1> HIDE DEF Kept
<1>13. PageStep => Kept
  BY <1>4, <1>5, <1>6, <1>7, <1>8, <1>9, <1>10 DEF PageStep
<1> QED BY <1>11, <1>12, <1>13 DEF ScreenNext

--------------------------------------------------------------------------------
LEMMA SilenceQuiet == Silence => Awaited' = {}
BY DEF Silence, Awaited

LEMMA AnsweredQuiet ==
    ASSUME posts \in [Slots -> Post], NEW s \in Slots, Answered(s), Awaited \subseteq {s}
    PROVE  Awaited' = {}
BY DEF Answered, Awaited

LEMMA StartHeard ==
    ASSUME posts \in [Slots -> Post], NEW r, r # NoPost,
           StartAlone(r) \/ (Start(r) /\ Awaited = {})
    PROVE  \E t \in Slots : Awaited' = {t} /\ posts'[t] = r
<1>1. CASE StartAlone(r)
  <2>1. PICK t \in Slots : posts' = [u \in Slots |-> IF u = t THEN r ELSE NoPost]
    BY <1>1 DEF StartAlone
  <2> QED BY <2>1 DEF Awaited
<1>2. CASE Start(r) /\ Awaited = {}
  <2>1. PICK t \in Slots : posts' = [posts EXCEPT ![t] = r]
    BY <1>2 DEF Start
  <2>2. \A u \in Slots : posts[u] = NoPost
    BY <1>2 DEF Awaited
  <2> QED BY <2>1, <2>2 DEF Awaited
<1> QED BY <1>1, <1>2

(* Nothing about the requests and the rows changes.                             *)
LEMMA NothingSent ==
    ASSUME AnswersAreCurrent, UNCHANGED <<posts, busy, rows, overlapped>>
    PROVE  AnswersAreCurrent' /\ Awaited' = Awaited /\ Attention' = Attention
<1>1. Awaited' = Awaited /\ Compact' = Compact
  BY DEF Awaited, Compact
<1>2. Attention' = Attention
  BY DEF Attention, Included
<1> QED BY <1>1, <1>2 DEF AnswersAreCurrent

CurrentInv == AnswersAreCurrent /\ RowsFollowSource /\ WaitsAlone

(* When no answer is listened to, only the rows and the serial check matter.      *)
LEMMA QuietFits ==
    ASSUME Awaited' = {}, RowsFollowSource',
           ~overlapped' => /\ check' # "none" => ~busy'
                           /\ check' = "apply" => Attention' = {}
    PROVE  CurrentInv'
BY DEF CurrentInv, AnswersAreCurrent, WaitsAlone

LEMMA FollowStays ==
    ASSUME RowsFollowSource, UNCHANGED <<content, mapping, origin>>, overlapped => overlapped',
           rows' # NoRows => rows # NoRows
    PROVE  RowsFollowSource'
BY DEF RowsFollowSource

LEMMA SameDomain ==
    ASSUME ScreenTypeOK, ScreenTypeOK', DOMAIN rows' = DOMAIN rows
    PROVE  rows' # NoRows => rows # NoRows
<1>1. rows' \in Tables(Row)
  BY DEF ScreenTypeOK
<1>2. DOMAIN NoRows = {}
  BY NoRowsFit
<1> DEFINE t == rows'
<1>3. DOMAIN t = {} => t = NoRows
  <2> HIDE DEF t
  <2>1. t \in Tables(Row)
    BY <1>1 DEF t
  <2> QED BY <2>1, EmptyTable
<1> QED BY <1>2, <1>3

LEMMA OverlappedFits == overlapped' => CurrentInv'
BY DEF CurrentInv, AnswersAreCurrent, RowsFollowSource, WaitsAlone

LEMMA HeardFits ==
    ASSUME NEW t \in Slots, Awaited' = {t}, busy', check' = "none", RowsFollowSource',
           posts'[t].kind = "review" => posts'[t].rows = Compact',
           posts'[t].kind = "source" => mapping' \in {"none", "ready"}
    PROVE  CurrentInv'
BY DEF CurrentInv, AnswersAreCurrent, WaitsAlone

LEMMA UnsentFits ==
    ASSUME CurrentInv,
           UNCHANGED <<posts, busy, rows, overlapped, content, mapping, origin>>,
           check' # "none" => check' = check \/ ~busy,
           check' = "apply" => check = "apply" \/ Attention = {}
    PROVE  CurrentInv'
<1>1. AnswersAreCurrent' /\ Awaited' = Awaited /\ Attention' = Attention
  BY NothingSent DEF CurrentInv
<1>2. RowsFollowSource'
  BY FollowStays DEF CurrentInv
<1>3. WaitsAlone'
  BY <1>1 DEF CurrentInv, WaitsAlone
<1> QED BY <1>1, <1>2, <1>3 DEF CurrentInv

(* An answer comes to the only request, which no serial check waits beside.       *)
LEMMA AnswerFits ==
    ASSUME ScreenTypeOK, CurrentInv, NEW s \in Slots, posts[s] # NoPost, Answered(s),
           overlapped' = overlapped, check' \in {check, "none"}, RowsFollowSource'
    PROVE  CurrentInv'
<1>1. CASE overlapped
  BY <1>1, OverlappedFits
<1>2. CASE ~overlapped
  <2>1. s \in Awaited
    BY DEF Awaited
  <2>2. Awaited = {s} /\ busy
    BY <1>2, <2>1 DEF CurrentInv, AnswersAreCurrent
  <2>3. check' = "none"
    BY <1>2, <2>2 DEF CurrentInv, WaitsAlone
  <2>4. Awaited' = {}
    BY <2>2, AnsweredQuiet DEF ScreenTypeOK
  <2> QED BY <2>3, <2>4, QuietFits
<1> QED BY <1>1, <1>2

LEMMA CurrentStep ==
    ASSUME ScreenTypeOK, ScreenTypeOK', CurrentInv, [ScreenNext]_screenVars
    PROVE  CurrentInv'
<1> USE DEF sourceVars, rowVars, viewVars, requestVars, formVars, checkVars
<1>p. posts \in [Slots -> Post] /\ AnswersAreCurrent /\ RowsFollowSource /\ WaitsAlone
  BY DEF ScreenTypeOK, CurrentInv
<1>q. ~overlapped /\ ~busy => Awaited = {}
  BY <1>p DEF AnswersAreCurrent
<1>h. ~overlapped /\ busy => check = "none"
  BY <1>p DEF WaitsAlone
<1>w. check = "apply" /\ ~overlapped => Attention = {}
  BY <1>p DEF WaitsAlone
<1>n. rows' = NoRows => RowsFollowSource' /\ Attention' = {}
  BY NothingIncluded DEF RowsFollowSource
<1>r. \A kind, table, flag : Request(kind, table, flag).kind = kind
                             /\ Request(kind, table, flag).rows = table
  BY DEF Request
<1>k. \A kind, table, flag : kind # "none" => Request(kind, table, flag) # NoPost
  BY DEF Request, NoPost
<1>1. CASE UNCHANGED screenVars
  BY <1>1, UnsentFits DEF screenVars
<1>2. ASSUME NEW f, ChooseSource(f) PROVE CurrentInv'
  BY <1>2, <1>n, SilenceQuiet, QuietFits DEF ChooseSource
<1>3. CASE ReviewSource
  <2>1. CASE overlapped'
    BY <2>1, OverlappedFits
  <2>2. CASE ~overlapped'
    <3>1. ~overlapped /\ Awaited = {} /\ check = "none" /\ check' = "none" /\ busy'
          /\ mapping' \in {"none", "ready"}
      BY <1>3, <2>2 DEF ReviewSource
    <3> DEFINE r == Request("source", NoRows, mapping = "ready")
    <3>2. Start(r) /\ r # NoPost /\ r.kind = "source"
      BY <1>3, <1>r, <1>k DEF ReviewSource
    <3> HIDE DEF r
    <3>3. PICK t \in Slots : Awaited' = {t} /\ posts'[t] = r
      BY <1>p, <3>1, <3>2, StartHeard
    <3>4. RowsFollowSource'
      BY <1>3, <1>p, <3>1, FollowStays DEF ReviewSource
    <3> QED BY <3>1, <3>2, <3>3, <3>4, HeardFits
  <2> QED BY <2>1, <2>2
<1>4. CASE AskColumns
  <2>1. CASE overlapped'
    BY <2>1, OverlappedFits
  <2>2. CASE ~overlapped'
    <3> DEFINE r == Request("columns", NoRows, FALSE)
    <3>1. ~overlapped /\ check' = "none" /\ busy'
      BY <1>4, <2>2 DEF AskColumns
    <3>2. StartAlone(r) /\ r # NoPost /\ r.kind = "columns"
      BY <1>4, <1>r, <1>k DEF AskColumns
    <3> HIDE DEF r
    <3>3. PICK t \in Slots : Awaited' = {t} /\ posts'[t] = r
      BY <1>p, <3>2, StartHeard
    <3>4. RowsFollowSource'
      <4>1. CASE rows' = NoRows
        BY <1>n, <4>1
      <4>2. CASE UNCHANGED <<mapping, rows, origin, content>>
        BY <1>p, <3>1, <4>2, FollowStays
      <4> QED BY <1>4, <4>1, <4>2 DEF AskColumns
    <3> QED BY <3>1, <3>2, <3>3, <3>4, HeardFits
  <2> QED BY <2>1, <2>2
<1>5. ASSUME NEW reset, ChooseColumns(reset) PROVE CurrentInv'
  BY <1>5, <1>n, SilenceQuiet, QuietFits DEF ChooseColumns
<1>6. ASSUME NEW s \in Slots, AnswerSource(s) PROVE CurrentInv'
  <2>1. posts[s] # NoPost /\ Answered(s) /\ overlapped' = overlapped /\ check' = check
    BY <1>6 DEF AnswerSource, NoPost, ShowColumns
  <2>2. RowsFollowSource'
    <3>1. CASE rows' = NoRows
      BY <1>n, <3>1
    <3>2. CASE overlapped
      BY <2>1, <3>2 DEF RowsFollowSource
    <3>3. CASE rows' # NoRows /\ ~overlapped
      <4>1. origin' = content /\ content' = content /\ mapping' = mapping
        BY <1>6, <3>3 DEF AnswerSource, ShowColumns
      <4>2. mapping \in {"none", "ready"}
        BY <1>6, <1>p, <2>1, <3>3 DEF AnswerSource, WaitsAlone, Awaited
      <4> QED BY <4>1, <4>2 DEF RowsFollowSource
    <3> QED BY <3>1, <3>2, <3>3
  <2> QED BY <2>1, <2>2, AnswerFits
<1>7. ASSUME NEW s \in Slots, AnswerColumns(s) PROVE CurrentInv'
  <2>1. posts[s] # NoPost /\ Answered(s) /\ overlapped' = overlapped /\ check' = check
        /\ rows' = NoRows
    BY <1>7 DEF AnswerColumns, NoPost, ShowColumns
  <2> QED BY <1>n, <2>1, AnswerFits
<1>8. ASSUME NEW s \in Slots, AnswerReview(s) PROVE CurrentInv'
  <2>1. /\ posts[s] # NoPost /\ posts[s].rows # NoRows /\ Answered(s)
        /\ UNCHANGED <<overlapped, content, mapping, origin>> /\ check' \in {check, "none"}
    BY <1>8 DEF AnswerReview, NoPost, Redraw, NoCheck
  <2>2. RowsFollowSource'
    <3>1. CASE overlapped
      BY <2>1, <3>1 DEF RowsFollowSource
    <3>2. CASE ~overlapped
      <4>1. posts[s].rows = Compact
        BY <1>8, <1>p, <2>1, <3>2 DEF AnswersAreCurrent, Awaited, AnswerReview
      <4>2. rows # NoRows
        <5>1. rows = NoRows => DOMAIN Compact = {} /\ Compact \in Tables(SentRow)
          BY NoRowsFit, CompactFits DEF ScreenTypeOK
        <5>2. rows = NoRows => Compact = NoRows
          BY <5>1, EmptyTable
        <5> QED BY <2>1, <4>1, <5>2
      <4> QED BY <1>p, <2>1, <4>2, FollowStays
    <3> QED BY <3>1, <3>2
  <2> QED BY <2>1, <2>2, AnswerFits
<1>9. ASSUME NEW s \in Slots, FailPost(s) PROVE CurrentInv'
  <2>1. RowsFollowSource'
    BY <1>9, <1>p, FollowStays DEF FailPost
  <2> QED BY <1>9, <2>1, AnswerFits DEF FailPost
<1>10. ASSUME NEW i, OpenRow(i) PROVE CurrentInv'
  BY <1>10, UnsentFits DEF OpenRow, Redraw, NoCheck
<1>11. ASSUME NEW i \in 1..OldRow, NEW text \in Texts, NEW save \in BOOLEAN, Change(i, text, save)
       PROVE  CurrentInv'
  <2>1. DOMAIN rows' = DOMAIN rows
    BY <1>11 DEF Change
  <2>2. RowsFollowSource'
    BY <1>11, <1>p, <2>1, SameDomain, FollowStays DEF Change
  <2>3. check' # "apply"
    BY <1>11 DEF Change, Hold, Restart, NoCheck
  <2> QED BY <1>11, <2>2, <2>3, SilenceQuiet, QuietFits DEF Change
<1>12. ASSUME NEW selected, Exclude(selected) PROVE CurrentInv'
  <2>1. DOMAIN rows' = DOMAIN rows
    BY <1>12 DEF Exclude
  <2>2. RowsFollowSource'
    BY <1>12, <1>p, <2>1, SameDomain, FollowStays DEF Exclude
  <2>3. Attention' \subseteq Attention
    <3>1. \A i \in DOMAIN rows : rows[i] \in Row
      BY TableParts DEF ScreenTypeOK
    <3>2. \A i \in DOMAIN rows : ~rows'[i].excluded => rows'[i] = rows[i]
      BY <1>12, <3>1 DEF Exclude, Row
    <3> QED BY <2>1, <3>2 DEF Attention, Included
  <2>4. check' \in {check, "none"} /\ busy' = busy /\ overlapped' = overlapped
    BY <1>12 DEF Exclude, Redraw, NoCheck
  <2>5. Awaited' = {}
    BY <1>12, SilenceQuiet DEF Exclude
  <2>6. ~overlapped' /\ check' # "none" => ~busy'
    BY <1>h, <2>4
  <2>7. ~overlapped' /\ check' = "apply" => Attention' = {}
    BY <1>w, <2>3, <2>4
  <2> QED BY <2>2, <2>5, <2>6, <2>7, QuietFits
<1>13. ASSUME NEW selected, NEW text, BulkApply(selected, text) PROVE CurrentInv'
  <2>1. DOMAIN rows' = DOMAIN rows
    BY <1>13 DEF BulkApply
  <2>2. RowsFollowSource'
    BY <1>13, <1>p, <2>1, SameDomain, FollowStays DEF BulkApply
  <2>3. busy' = busy /\ overlapped' = overlapped /\ (busy => check' = check)
        /\ (~busy => check' = "save")
    BY <1>13 DEF BulkApply, Hold
  <2> QED BY <1>13, <1>h, <2>2, <2>3, SilenceQuiet, QuietFits DEF BulkApply
<1>14. ASSUME NEW what, AskCheck(what) PROVE CurrentInv'
  <2>1. what = "apply" => Attention = {}
    BY <1>14 DEF AskCheck, Ready
  <2> QED BY <1>14, <2>1, UnsentFits DEF AskCheck, Hold
<1>15. Turn \/ SubmitForm \/ RefuseSubmit => CurrentInv'
  BY UnsentFits DEF Turn, SubmitForm, RefuseSubmit
<1>16. \A numbers, table : ChangeForm(numbers, table) => CurrentInv'
  BY UnsentFits DEF ChangeForm
<1>17. CASE SendForm
  <2>1. RowsFollowSource'
    BY <1>17 DEF SendForm, RowsFollowSource
  <2> QED BY <1>17, <2>1, SilenceQuiet, QuietFits DEF SendForm, NoCheck
<1>18. RefuseCheck \/ ShowSummary \/ AddItems => CurrentInv'
  BY UnsentFits DEF RefuseCheck, ShowSummary, AddItems, NoCheck
<1>19. CASE SendReview
  <2>1. CASE overlapped'
    BY <2>1, OverlappedFits
  <2>2. CASE ~overlapped'
    <3>1. ~overlapped /\ Awaited = {} /\ check' = "none" /\ busy' /\ rows' = rows
      BY <1>19, <2>2 DEF SendReview, NoCheck
    <3> DEFINE r == Request("review", Compact, check = "next")
    <3>2. Start(r) /\ r # NoPost /\ r.kind = "review" /\ r.rows = Compact
      BY <1>19, <1>r, <1>k DEF SendReview
    <3>3. Compact' = Compact
      BY <3>1 DEF Compact
    <3> HIDE DEF r
    <3>4. PICK t \in Slots : Awaited' = {t} /\ posts'[t] = r
      BY <1>p, <3>1, <3>2, StartHeard
    <3>5. RowsFollowSource'
      BY <1>19, <1>p, <3>1, FollowStays DEF SendReview
    <3> QED BY <3>1, <3>2, <3>3, <3>4, <3>5, HeardFits
  <2> QED BY <2>1, <2>2
<1> HIDE DEF CurrentInv
<1>20. CASE PageStep
  BY <1>2, <1>3, <1>4, <1>5, <1>6, <1>7, <1>8, <1>9, <1>10, <1>11, <1>12, <1>13, <1>14, <1>15,
     <1>16, <1>17, <1>20 DEF PageStep
<1> QED BY <1>1, <1>18, <1>19, <1>20 DEF ScreenNext

LEMMA AddedStep ==
    ASSUME CurrentInv, [ScreenNext]_screenVars
    PROVE  hidden' # hidden /\ hidden' # NoRows /\ ~overlapped => Attention = {}
<1> USE DEF sourceVars, rowVars, viewVars, requestVars, formVars, checkVars
<1>1. AddItems /\ ~overlapped => Attention = {}
  BY DEF AddItems, CurrentInv, WaitsAlone
<1>2. UNCHANGED screenVars \/ ReviewSource \/ AskColumns \/ Turn \/ SubmitForm \/ RefuseSubmit
         \/ RefuseCheck \/ SendReview \/ ShowSummary => hidden' = hidden
  BY DEF screenVars, ReviewSource, AskColumns, Turn, SubmitForm, RefuseSubmit, RefuseCheck,
     SendReview, ShowSummary
<1>3. \A f : ChooseSource(f) \/ ChooseColumns(f) \/ OpenRow(f) \/ Exclude(f) \/ AskCheck(f)
         => hidden' = hidden
  BY DEF ChooseSource, ChooseColumns, OpenRow, Exclude, AskCheck
<1>4. \A s : AnswerSource(s) \/ AnswerColumns(s) \/ AnswerReview(s) \/ FailPost(s)
         => hidden' = hidden
  BY DEF AnswerSource, AnswerColumns, AnswerReview, FailPost
<1>5. \A i, text, save : Change(i, text, save) \/ BulkApply(i, text) => hidden' = hidden
  BY DEF Change, BulkApply
<1>6. \A numbers, table : ChangeForm(numbers, table) => hidden' = table
  BY DEF ChangeForm
<1>7. SendForm => hidden' = hidden \/ hidden' = NoRows
  BY DEF SendForm
<1>8. PageStep => hidden' = hidden \/ hidden' = NoRows
  BY <1>2, <1>3, <1>4, <1>5, <1>6, <1>7 DEF PageStep
<1> QED BY <1>1, <1>2, <1>8 DEF ScreenNext

LEMMA ScreenInitially == ScreenInit => ScreenInv
<1> SUFFICES ASSUME ScreenInit PROVE ScreenInv
  OBVIOUS
<1>1. /\ NoRows \in Tables(Row) /\ NoRows \in Tables(SentRow) /\ DOMAIN NoRows = {}
      /\ NoPost \in Post
  BY NoRowsFit DEF NoPost, Post
<1>2. Awaited = {} /\ Included = {}
  BY <1>1 DEF ScreenInit, Awaited, Included
<1>3. ScreenTypeOK
  <2>1. step \in 1..3
    BY DEF ScreenInit
  <2>2. posts \in [Slots -> Post]
    BY <1>1 DEF ScreenInit
  <2> QED BY <1>1, <2>1, <2>2 DEF ScreenInit, ScreenTypeOK
<1>4. ReadyRowsAgree /\ AnswersAreCurrent /\ RowsFollowSource /\ SubmitChecksAreCurrent
      /\ WaitsAlone
  BY <1>2 DEF ScreenInit, ReadyRowsAgree, AnswersAreCurrent, RowsFollowSource,
     SubmitChecksAreCurrent, WaitsAlone
<1> QED BY <1>3, <1>4 DEF ScreenInv

LEMMA ScreenStep == ScreenInv /\ [ScreenNext]_screenVars => ScreenInv'
<1> SUFFICES ASSUME ScreenInv, [ScreenNext]_screenVars PROVE ScreenInv'
  OBVIOUS
<1>1. ScreenTypeOK /\ ScreenTypeOK'
  BY ScreenTypeStep DEF ScreenInv
<1>2. ReadyRowsAgree'
  BY <1>1, AgreeStep DEF ScreenInv
<1>3. SubmitChecksAreCurrent'
  BY <1>1, SubmitStep DEF ScreenInv
<1>4. CurrentInv'
  BY <1>1, CurrentStep DEF ScreenInv, CurrentInv
<1> QED BY <1>1, <1>2, <1>3, <1>4 DEF ScreenInv, CurrentInv

(* The import dialog: rows shown as ready agree, an answer that is listened to is    *)
(* about the rows and the source that are there, and what is added to the purchase   *)
(* is resolved, for any rows, requests and serial numbers (purchase-import.js).   *)
THEOREM PurchaseScreenSound == ScreenSpec => PurchaseScreenIsSound
<1>1. ScreenInit => ScreenInv
  BY ScreenInitially
<1>2. ScreenInv /\ [ScreenNext]_screenVars => ScreenInv'
  BY ScreenStep
<1>3. ScreenInv => ScreenTypeOK /\ ReadyRowsAgree /\ AnswersAreCurrent /\ RowsFollowSource
                   /\ SubmitChecksAreCurrent
  BY DEF ScreenInv
<1>4. ScreenInv /\ [ScreenNext]_screenVars
         => [hidden' # hidden /\ hidden' # NoRows /\ ~overlapped => Attention = {}]_screenVars
  BY AddedStep DEF ScreenInv, CurrentInv
<1> QED BY <1>1, <1>2, <1>3, <1>4, PTL DEF ScreenSpec, PurchaseScreenIsSound, ResolvedWhenAdded
================================================================================
