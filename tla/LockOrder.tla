-------------------------------- MODULE LockOrder --------------------------------
(***************************************************************************)
(* The row locks a transaction takes one after another, handler by handler,   *)
(* over one row of each kind, two purchases and two products.                 *)
(*                                                                          *)
(* The tenant of an inserted row is a deferred foreign key: the key of the    *)
(* organization is locked at the commit, whatever the handler locks itself.    *)
(* PostgreSQL aborts one transaction of a cycle; no handler tries again.      *)
(***************************************************************************)
EXTENDS Naturals, Sequences

CONSTANT Requests

VARIABLE work  \* handler of each request, its locks in order, how many it has

lockVars == <<work>>

--------------------------------------------------------------------------------
\* Modes of row locks: FOR UPDATE (or a written row), FOR NO KEY UPDATE and the
\* FOR KEY SHARE of a foreign key.
Update(row) == [row |-> row, mode |-> "update"]
NoKey(row) == [row |-> row, mode |-> "nokey"]
TenantKey == [row |-> "organization", mode |-> "share"]

Conflict(l, m) ==
    /\ l.row = m.row
    /\ "update" \in {l.mode, m.mode} \/ {l.mode, m.mode} = {"nokey"}

\* save_purchase_product: the organization before the counter of the codes.
DirectCreation == <<NoKey("organization"), Update("codes"), TenantKey>>

\* Product rows locked in order of their ids, and by one query in any order.
LinesAnyOrder == {<<Update("product1"), Update("product2")>>, <<Update("product2"), Update("product1")>>}
LinesInOrder == {<<Update("product1"), Update("product2")>>}
RowsOfQuery == {<<Update("product1"), Update("product2")>>, <<Update("product2"), Update("product1")>>}

Around(before, middles, after) == { before \o middle \o after : middle \in middles }

CreateBatch == {<<Update("organization"), Update("codes"), TenantKey>>}
CreateSuccessor == {<<NoKey("organization"), Update("product1"), Update("codes"), TenantKey>>}

EditImport ==
    Around(<<Update("organization"), Update("purchase")>>, RowsOfQuery, <<TenantKey>>)
ReceiveProposals ==
    Around(<<Update("purchase"), Update("organization")>>, RowsOfQuery, <<Update("codes"), TenantKey>>)
ReceivePurchase ==
    UNION { Around(<<Update(row)>>, LinesInOrder, <<TenantKey>>) : row \in {"purchase", "purchase2"} }

Checkout ==
    Around(<<Update("cart"), Update("invoiceNumbers"), Update("receiptNumbers")>>,
           LinesInOrder, <<TenantKey>>)
AdjustLine == {<<Update("cart"), Update("product1"), TenantKey>>,
               <<Update("cart"), Update("product2"), TenantKey>>}

\* create_receipt_from_invoice of a sale of goods and of a subscription.
ReceiptOfGoods ==
    Around(<<Update("invoice"), Update("receiptNumbers"), Update("sale")>>, LinesInOrder, <<TenantKey>>)
ReceiptOfPeriod ==
    {<<Update("invoice"), Update("receiptNumbers"), Update("period"), Update("subscription"), TenantKey>>}
VoidSubscriptionInvoice == {<<Update("period"), Update("invoice"), TenantKey>>}
Renew == {<<Update("subscription"), Update("period"), Update("invoiceNumbers"), TenantKey>>}

AcceptInvitation == {<<Update("invitation"), Update("membership"), TenantKey>>}
ResendActivation == {<<Update("membership"), Update("invitation"), TenantKey>>}

LockPlans == [create |-> {DirectCreation}, createBatch |-> CreateBatch, successor |-> CreateSuccessor,
          editImport |-> EditImport, receiveProposals |-> ReceiveProposals,
          receivePurchase |-> ReceivePurchase, checkout |-> Checkout, adjustLine |-> AdjustLine,
          receiptOfGoods |-> ReceiptOfGoods, receiptOfPeriod |-> ReceiptOfPeriod,
          voidPeriod |-> VoidSubscriptionInvoice, renew |-> Renew,
          accept |-> AcceptInvitation, resend |-> ResendActivation]

NoWork == [handler |-> "none", locks |-> <<>>, held |-> 0]

LockTypeOK ==
    \A r \in Requests :
        /\ work[r].held \in 0..Len(work[r].locks)
        /\ work[r] = NoWork \/ work[r].locks \in LockPlans[work[r].handler]

LockInit == work = [r \in Requests |-> NoWork]

Wanted(r) == work[r].locks[work[r].held + 1]

\* q holds a lock that r has to wait for.
Blocks(q, r) ==
    /\ q # r /\ work[r].held < Len(work[r].locks)
    /\ \E n \in 1..work[q].held : Conflict(work[q].locks[n], Wanted(r))

\* Requests that wait in a circle: each for another of them.
Stuck(S) == S # {} /\ \A r \in S : \E q \in S : Blocks(q, r)

StartWork(r) ==
    /\ work[r] = NoWork
    /\ \E h \in DOMAIN LockPlans : \E locks \in LockPlans[h] :
          work' = [work EXCEPT ![r] = [handler |-> h, locks |-> locks, held |-> 0]]

Lock(r) ==
    /\ work[r].held < Len(work[r].locks)
    /\ \A q \in Requests : ~Blocks(q, r)
    /\ work' = [work EXCEPT ![r].held = @ + 1]

Commit(r) ==
    /\ work[r] # NoWork /\ work[r].held = Len(work[r].locks)
    /\ work' = [work EXCEPT ![r] = NoWork]

\* The victim of a deadlock, rolled back.
Abort(r) ==
    /\ \E S \in SUBSET Requests : r \in S /\ Stuck(S)
    /\ work' = [work EXCEPT ![r] = NoWork]

LockNext == \E r \in Requests : StartWork(r) \/ Lock(r) \/ Commit(r) \/ Abort(r)

LockSpec == LockInit /\ [][LockNext]_lockVars

--------------------------------------------------------------------------------
Handlers(S) == { work[r].handler : r \in S }

(* Requests that only create products, directly, from the grid or as another      *)
(* unit of one, never wait for each other in a circle (products/creation.py:58).   *)
CreatorsNeverDeadlock ==
    \A S \in SUBSET Requests :
        Handlers(S) \subseteq {"create", "createBatch", "successor"} => ~Stuck(S)

(* Pairs of handlers that take two rows in opposite orders.                     *)
Inversions ==
    {{"receiptOfPeriod", "voidPeriod"}, {"receiptOfPeriod", "renew"}, {"accept", "resend"},
     {"editImport", "receiveProposals"}}
    \cup { {import, goods} : import \in {"editImport", "receiveProposals"},
            goods \in {"receivePurchase", "checkout", "adjustLine", "receiptOfGoods"} }

(* Whatever runs together, a circle of waits has one of the known pairs in it:     *)
(* the other handlers agree on an order of the rows.                           *)
DeadlocksAreKnown ==
    \A S \in SUBSET Requests :
        Stuck(S) => \E pair \in Inversions : pair \subseteq Handlers(S)

(* Who waits on whom is known, and creating products is free of it.             *)
LockWaitsAreKnown == LockTypeOK /\ CreatorsNeverDeadlock /\ DeadlocksAreKnown
================================================================================
