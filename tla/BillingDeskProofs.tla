--------------------------- MODULE BillingDeskProofs ---------------------------
(*****************************************************************************)
(* Proofs about the billing desk, for any number of transactions and requests:*)
(* DocumentNumbers, whose numbers are unique and without gaps; LockOrder, whose*)
(* circles of waits all come from known pairs of handlers; and the documents *)
(* edited without a lock, Quotations and BillingSheets, whether requests overlap*)
(* or not.                                                                   *)
(*****************************************************************************)
EXTENDS DocumentNumbers, LockOrder, Quotations, BillingSheets,
        FiniteSetTheorems, TLAPS

-----------------------------------------------------------------------------
(* The inductive invariant of the numbers.  A number that is held is protected *)
(* by the lock of its counter row; it follows the last one, and whatever it     *)
(* steps over was typed by hand.                                               *)

TxOK == [at : {"idle", "get", "insert", "retry", "end"}, todo : Seq(Scopes)]

Held(p, s) ==
    taken[p][s] > 0 =>
        /\ holder[s] = p
        /\ taken[p][s] > Before(counter[s])
        /\ \A m \in (Before(counter[s]) + 1)..(taken[p][s] - 1) : <<s, m>> \in docs
        /\ <<s, taken[p][s]>> \in docs => s \in Typed

NumberInv ==
    /\ NumberTypeOK
    /\ \A p \in Transactions : tx[p].at \in {"get", "insert", "retry"} => tx[p].todo # <<>>
    /\ \A p \in Transactions, s \in Scopes : Held(p, s)

-----------------------------------------------------------------------------
LEMMA NumberInvInit == NumberInit => NumberInv
<1> SUFFICES ASSUME NumberInit PROVE NumberInv
  OBVIOUS
<1>1. Idle \in TxOK /\ Idle.at = "idle"
  BY DEF Idle, TxOK
<1>2. NumberTypeOK
  BY <1>1, NumberBound DEF NumberInit, NumberTypeOK, TxOK
<1> QED BY <1>1, <1>2 DEF NumberInit, NumberInv, Held

LEMMA BeforeTyped ==
    ASSUME NumberTypeOK, NEW s \in Scopes
    PROVE  counter[s] \in -1..MaxNumber /\ Before(counter[s]) \in 0..MaxNumber
  BY NumberBound DEF NumberTypeOK, Before

LEMMA TakeStep ==
    ASSUME NumberInv, NEW p \in Transactions, tx[p].todo # <<>>,
           NEW s, s = Head(tx[p].todo), Unlocked(s), TakeNumber(p, s)
    PROVE  NumberInv'
<1>1. s \in Scopes /\ tx[p].todo \in Seq(Scopes) /\ Tail(tx[p].todo) \in Seq(Scopes)
  BY DEF NumberInv, NumberTypeOK
<1> DEFINE rest == Tail(tx[p].todo)
           next == [at |-> IF rest = <<>> THEN "end" ELSE "get", todo |-> rest]
<1>2. PICK n \in Candidates(s) : taken' = [taken EXCEPT ![p][s] = n]
  BY DEF TakeNumber
<1>3. /\ n \in 1..MaxNumber /\ n > Before(counter[s]) /\ <<s, n>> \notin docs
      /\ \A m \in (Before(counter[s]) + 1)..(n - 1) : <<s, m>> \in docs
  <2>1. Before(counter[s]) \in 0..MaxNumber
    BY <1>1, BeforeTyped DEF NumberInv
  <2>2. n \in Candidates(s)
    BY <1>2
  <2> HIDE DEF next, rest
  <2> QED BY <2>1, <2>2, NumberBound DEF Candidates
<1>4. /\ holder' = [holder EXCEPT ![s] = p] /\ tx' = [tx EXCEPT ![p] = next]
      /\ UNCHANGED <<counter, docs>>
  BY DEF TakeNumber
<1>5. next \in TxOK /\ (next.at \in {"get", "insert", "retry"} => next.todo # <<>>)
  BY <1>1 DEF TxOK
<1> HIDE DEF next
<1>6. /\ taken \in [Transactions -> [Scopes -> 0..MaxNumber]]
      /\ holder \in [Scopes -> Transactions \cup {None}]
      /\ tx \in [Transactions -> TxOK]
  BY DEF NumberInv, NumberTypeOK, TxOK
<1>7. taken' \in [Transactions -> [Scopes -> 0..MaxNumber]]
  <2>1. n \in 0..MaxNumber
    BY <1>3, NumberBound
  <2>2. [taken[p] EXCEPT ![s] = n] \in [Scopes -> 0..MaxNumber]
    BY <1>6, <2>1
  <2> QED BY <1>2, <1>6, <2>2
<1>8. \A q \in Transactions, t \in Scopes :
          taken'[q][t] = IF q = p /\ t = s THEN n ELSE taken[q][t]
  BY <1>1, <1>2, <1>6
<1>9. NumberTypeOK'
  BY <1>1, <1>4, <1>5, <1>6, <1>7 DEF NumberInv, NumberTypeOK, TxOK
<1>10. \A q \in Transactions : tx'[q].at \in {"get", "insert", "retry"} => tx'[q].todo # <<>>
  BY <1>4, <1>5, <1>6 DEF NumberInv
<1>11. ASSUME NEW q \in Transactions, NEW t \in Scopes PROVE Held(q, t)'
  <2>1. CASE q = p /\ t = s
    BY <1>1, <1>3, <1>4, <1>6, <1>8, <2>1 DEF Held, Before
  <2>2. CASE t # s
    <3>1. taken'[q][t] = taken[q][t] /\ holder'[t] = holder[t]
      BY <1>4, <1>6, <1>8, <2>2
    <3> QED BY <1>4, <3>1 DEF Held, NumberInv, Before
  <2>3. CASE t = s /\ q # p
    <3>1. taken'[q][t] = taken[q][t] /\ taken[q][t] \in 0..MaxNumber
      BY <1>6, <1>8, <2>3
    <3>2. ~(taken[q][t] > 0)
      BY <2>3, NullTransaction DEF Unlocked, Held, NumberInv
    <3> QED BY <3>1, <3>2 DEF Held
  <2> QED BY <2>1, <2>2, <2>3
<1> QED BY <1>9, <1>10, <1>11 DEF NumberInv

\* A step that only moves a transaction on.
LEMMA MoveOnStep ==
    ASSUME NumberInv, NEW p \in Transactions, NEW next \in TxOK,
           next.at \in {"get", "insert", "retry"} => next.todo # <<>>,
           tx' = [tx EXCEPT ![p] = next], UNCHANGED <<counter, holder, taken, docs>>
    PROVE  NumberInv'
<1>1. tx \in [Transactions -> TxOK]
  BY DEF NumberInv, NumberTypeOK, TxOK
<1>2. NumberTypeOK'
  BY <1>1 DEF NumberInv, NumberTypeOK, TxOK
<1>3. \A q \in Transactions : tx'[q].at \in {"get", "insert", "retry"} => tx'[q].todo # <<>>
  BY <1>1 DEF NumberInv
<1> QED BY <1>2, <1>3 DEF NumberInv, Held, Before

LEMMA GoOnStep ==
    ASSUME NumberInv, NEW p \in Transactions, tx[p].at \in {"get", "insert"},
           NEW at \in {"insert", "retry"}, GoOn(p, at)
    PROVE  NumberInv'
<1> DEFINE next == [at |-> at, todo |-> tx[p].todo]
<1>1. tx[p] \in TxOK /\ tx[p].todo # <<>>
  BY DEF NumberInv, NumberTypeOK, TxOK
<1>2. [tx[p] EXCEPT !.at = at] = next
  BY <1>1 DEF TxOK
<1>3. next \in TxOK
  BY <1>1 DEF TxOK
<1>4. tx' = [tx EXCEPT ![p] = next] /\ UNCHANGED <<counter, holder, taken, docs>>
  BY <1>2 DEF GoOn
<1>5. next.todo # <<>>
  BY <1>1
<1> HIDE DEF next
<1> QED BY <1>3, <1>4, <1>5, MoveOnStep

\* What the end of a transaction leaves of it.
LEMMA Released ==
    ASSUME NumberInv, NEW p \in Transactions, Release(p)
    PROVE  /\ holder' \in [Scopes -> Transactions \cup {None}]
           /\ taken' \in [Transactions -> [Scopes -> 0..MaxNumber]]
           /\ tx' \in [Transactions -> TxOK]
           /\ \A q \in Transactions : tx'[q].at \in {"get", "insert", "retry"} => tx'[q].todo # <<>>
           /\ \A s \in Scopes : taken'[p][s] = 0
           /\ \A q \in Transactions \ {p} : taken'[q] = taken[q]
           /\ \A q \in Transactions \ {p}, s \in Scopes : holder[s] = q => holder'[s] = q
<1>1. /\ taken \in [Transactions -> [Scopes -> 0..MaxNumber]]
      /\ holder \in [Scopes -> Transactions \cup {None}]
      /\ tx \in [Transactions -> TxOK]
  BY DEF NumberInv, NumberTypeOK, TxOK
<1>2. Idle \in TxOK /\ Idle.at = "idle"
  BY DEF Idle, TxOK
<1>3. [s \in Scopes |-> 0] \in [Scopes -> 0..MaxNumber]
  BY NumberBound
<1>4. holder' \in [Scopes -> Transactions \cup {None}]
      /\ \A q \in Transactions \ {p}, s \in Scopes : holder[s] = q => holder'[s] = q
  BY <1>1 DEF Release
<1>5. /\ taken' \in [Transactions -> [Scopes -> 0..MaxNumber]]
      /\ \A s \in Scopes : taken'[p][s] = 0
      /\ \A q \in Transactions \ {p} : taken'[q] = taken[q]
  BY <1>1, <1>3 DEF Release
<1>6. /\ tx' \in [Transactions -> TxOK]
      /\ \A q \in Transactions : tx'[q].at \in {"get", "insert", "retry"} => tx'[q].todo # <<>>
  BY <1>1, <1>2 DEF Release, NumberInv
<1> QED BY <1>4, <1>5, <1>6

LEMMA RollBackStep ==
    ASSUME NumberInv, NEW p \in Transactions, RollBack(p)
    PROVE  NumberInv'
<1>1. UNCHANGED <<counter, docs>> /\ Release(p)
  BY DEF RollBack, Restored
<1>2. NumberTypeOK'
  BY <1>1, Released DEF NumberInv, NumberTypeOK, TxOK
<1>3. ASSUME NEW q \in Transactions, NEW s \in Scopes PROVE Held(q, s)'
  <2>1. CASE q = p
    BY <1>1, <2>1, Released DEF Held
  <2>2. CASE q # p
    BY <1>1, <2>2, Released DEF Held, NumberInv, Before
  <2> QED BY <2>1, <2>2
<1> QED BY <1>1, <1>2, <1>3, Released DEF NumberInv

LEMMA CommitStep ==
    ASSUME NumberInv, NEW p \in Transactions, CommitNumbers(p)
    PROVE  NumberInv'
<1>1. /\ Release(p) /\ counter' = Counted(p) /\ docs' = docs \cup Numbers(p)
      /\ Numbers(p) \cap docs = {}
  BY DEF CommitNumbers
<1>2. /\ taken \in [Transactions -> [Scopes -> 0..MaxNumber]]
      /\ counter \in [Scopes -> -1..MaxNumber] /\ docs \subseteq Scopes \X (1..MaxNumber)
  BY DEF NumberInv, NumberTypeOK
<1>3. counter' \in [Scopes -> -1..MaxNumber]
  <2>1. \A s \in Scopes : taken[p][s] \in -1..MaxNumber /\ counter[s] \in -1..MaxNumber
    BY <1>2, NumberBound
  <2> QED BY <1>1, <2>1 DEF Counted
<1>4. docs' \subseteq Scopes \X (1..MaxNumber)
  BY <1>1, <1>2, NumberBound DEF Numbers
<1>5. NumberTypeOK'
  BY <1>1, <1>3, <1>4, Released DEF NumberTypeOK, TxOK
<1>6. ASSUME NEW q \in Transactions, NEW s \in Scopes, q # p, taken[q][s] > 0
      PROVE  /\ holder[s] = q /\ counter'[s] = counter[s]
             /\ \A n : <<s, n>> \in Numbers(p) => FALSE
  <2>1. holder[s] = q
    BY <1>6 DEF NumberInv, Held
  <2>a. Held(p, s) /\ taken[p][s] \in 0..MaxNumber
    BY <1>2 DEF NumberInv
  <2>2. taken[p][s] = 0
    BY <1>6, <2>1, <2>a DEF Held
  <2> QED BY <1>1, <2>1, <2>2 DEF Counted, Numbers
<1>7. ASSUME NEW q \in Transactions, NEW s \in Scopes PROVE Held(q, s)'
  <2>1. CASE q = p
    BY <1>1, <2>1, Released DEF Held
  <2>2. CASE q # p
    <3> SUFFICES ASSUME taken[q][s] > 0 PROVE Held(q, s)'
      BY <1>1, <2>2, Released DEF Held
    <3>1. taken'[q][s] = taken[q][s] /\ holder'[s] = q /\ counter'[s] = counter[s]
      BY <1>1, <1>6, <2>2, Released
    <3>2. Held(q, s)
      BY DEF NumberInv
    <3> QED BY <1>1, <1>6, <2>2, <3>1, <3>2 DEF Held, Before
  <2> QED BY <2>1, <2>2
<1> QED BY <1>1, <1>5, <1>7, Released DEF NumberInv

LEMMA TypeReferenceStep ==
    ASSUME NumberInv, NEW s \in Scopes, NEW n \in 1..MaxNumber, TypeReference(s, n)
    PROVE  NumberInv'
<1>1. /\ s \in Typed /\ docs' = docs \cup {<<s, n>>}
      /\ UNCHANGED <<counter, holder, tx, taken>>
  BY DEF TypeReference
<1>2. NumberTypeOK'
  BY <1>1 DEF NumberInv, NumberTypeOK
<1> QED BY <1>1, <1>2 DEF NumberInv, Held, Before

LEMMA BeginStep ==
    ASSUME NumberInv, NEW p \in Transactions, NEW plan \in Plans, Begin(p, plan)
    PROVE  NumberInv'
<1>1. plan \in Seq(Scopes) /\ plan # <<>>
  BY PlansTakeOneEach
<1> QED BY <1>1, MoveOnStep DEF Begin, TxOK

-----------------------------------------------------------------------------
LEMMA NumberStepCases ==
    ASSUME NumberInv, NEW p \in Transactions, NumberStep(p) \/ RollBack(p)
    PROVE  NumberInv'
<1>1. CASE GetCounter(p)
  <2>1. tx[p].todo # <<>> /\ tx[p].at \in {"get", "insert"}
    BY <1>1 DEF GetCounter, NumberInv
  <2> QED BY <1>1, <2>1, TakeStep, GoOnStep DEF GetCounter
<1>2. CASE InsertCounter(p)
  <2>1. tx[p].todo # <<>> /\ tx[p].at \in {"get", "insert"}
    BY <1>2 DEF InsertCounter, NumberInv
  <2> QED BY <1>2, <2>1, TakeStep, GoOnStep DEF InsertCounter, AfterConflict
<1>3. CASE RetryCounter(p)
  <2>1. tx[p].todo # <<>>
    BY <1>3 DEF RetryCounter, NumberInv
  <2> QED BY <1>3, <2>1, TakeStep DEF RetryCounter
<1>4. CASE CommitNumbers(p)
  BY <1>4, CommitStep
<1>5. CASE RollBack(p)
  BY <1>5, RollBackStep
<1> QED BY <1>1, <1>2, <1>3, <1>4, <1>5 DEF NumberStep

LEMMA NumberInvStep == NumberInv /\ [NumberNext]_numberVars => NumberInv'
<1> SUFFICES ASSUME NumberInv, [NumberNext]_numberVars PROVE NumberInv'
  OBVIOUS
<1>1. CASE UNCHANGED numberVars
  BY <1>1 DEF numberVars, NumberInv, NumberTypeOK, Held, Before
<1>2. CASE \E p \in Transactions : NumberStep(p) \/ RollBack(p)
  BY <1>2, NumberStepCases
<1>3. CASE \E p \in Transactions, plan \in Plans : Begin(p, plan)
  BY <1>3, BeginStep
<1>4. CASE \E s \in Scopes, n \in 1..MaxNumber : TypeReference(s, n)
  BY <1>4, TypeReferenceStep
<1> QED BY <1>1, <1>2, <1>3, <1>4 DEF NumberNext

LEMMA NumberInvSuffices == NumberInv => NumbersAreSound
<1> SUFFICES ASSUME NumberInv PROVE NumbersAreSound
  OBVIOUS
<1>1. ASSUME NEW p \in Transactions, NEW q \in Transactions, NEW s \in Scopes, p # q
      PROVE  taken[p][s] = 0 \/ taken[q][s] = 0
  <2>1. taken[p][s] \in 0..MaxNumber /\ taken[q][s] \in 0..MaxNumber
    BY DEF NumberInv, NumberTypeOK
  <2>2. Held(p, s) /\ Held(q, s)
    BY DEF NumberInv
  <2>3. ~(taken[p][s] > 0 /\ taken[q][s] > 0)
    BY <1>1, <2>2 DEF Held
  <2> QED BY <2>1, <2>3
<1>2. \A p \in Transactions : \A d \in Numbers(p) \cap docs : d[1] \in Typed
  BY DEF NumberInv, Held, Numbers
<1> QED BY <1>1, <1>2 DEF NumberInv, NumbersAreSound, NumbersUnique

(* However many transactions take numbers of however many counters, commit and   *)
(* roll back, no two of them hold one number (numbering.py).                     *)
THEOREM NumbersSound == NumberSpec => []NumbersAreSound
<1>1. NumberSpec => []NumberInv
  BY NumberInvInit, NumberInvStep, PTL DEF NumberSpec
<1> QED BY <1>1, NumberInvSuffices, PTL

-----------------------------------------------------------------------------
(* Numbering without gaps.                                                      *)

Last == [s \in Scopes |-> Before(counter[s])]

LEMMA GaplessInit == NumberInit => Gapless!Init
  BY DEF NumberInit, Gapless!Init, Before

LEMMA GiveStep ==
    ASSUME NumberInv, NEW p \in Transactions, CommitNumbers(p)
    PROVE  Gapless!Give
<1> DEFINE S == { s \in Scopes : taken[p][s] > 0 }
<1>1. /\ counter' = Counted(p) /\ docs' = docs \cup Numbers(p) /\ Numbers(p) \cap docs = {}
  BY DEF CommitNumbers
<1>2. ASSUME NEW s \in S
      PROVE  /\ Before(counter'[s]) = taken[p][s] /\ taken[p][s] > Before(counter[s])
             /\ <<s, taken[p][s]>> \notin docs
             /\ \A n \in (Before(counter[s]) + 1)..(taken[p][s] - 1) : <<s, n>> \in docs
  <2>1. taken[p][s] \in 0..MaxNumber /\ taken[p][s] > 0
    BY DEF NumberInv, NumberTypeOK
  <2>2. counter'[s] = taken[p][s]
    BY <1>1, <2>1 DEF Counted
  <2>3. Before(counter'[s]) = taken[p][s]
    BY <2>1, <2>2, NumberBound DEF Before
  <2>4. <<s, taken[p][s]>> \in Numbers(p)
    BY DEF Numbers
  <2> QED BY <1>1, <2>1, <2>3, <2>4 DEF NumberInv, Held
<1>3. \A s \in Scopes \ S : Before(counter'[s]) = Before(counter[s])
  BY <1>1 DEF Counted
<1>4. Numbers(p) = { <<s, Before(counter'[s])>> : s \in S }
  BY <1>2 DEF Numbers
<1>5. docs' = docs \cup { <<s, Before(counter'[s])>> : s \in S }
  BY <1>1, <1>4
<1> HIDE DEF S
<1>6. S \in SUBSET Scopes
  BY DEF S
<1> QED BY <1>2, <1>3, <1>5, <1>6 DEF Gapless!Give

LEMMA GaplessStep ==
    ASSUME NumberInv, [NumberNext]_numberVars
    PROVE  [Gapless!Next]_<<Last, docs>>
<1>1. CASE \E p \in Transactions : CommitNumbers(p)
  BY <1>1, GiveStep DEF Gapless!Next
<1>2. CASE \E s \in Scopes, n \in 1..MaxNumber : TypeReference(s, n)
  BY <1>2 DEF TypeReference, Gapless!Next, Gapless!Type
<1>3. CASE UNCHANGED <<counter, docs>>
  BY <1>3 DEF Last, Before
<1>4. \/ \E p \in Transactions : CommitNumbers(p)
      \/ \E s \in Scopes, n \in 1..MaxNumber : TypeReference(s, n)
      \/ UNCHANGED <<counter, docs>>
  BY DEF NumberNext, NumberStep, GetCounter, InsertCounter, RetryCounter, TakeNumber, GoOn,
         RollBack, Restored, Begin, numberVars
<1> QED BY <1>1, <1>2, <1>3, <1>4

(* Commits, conflicts and rollbacks of any number of transactions give the       *)
(* numbers of each scope one by one.                                             *)
THEOREM NumbersAreGapless == NumberSpec => ImplementsGapless
<1>1. NumberSpec => []NumberInv
  BY NumberInvInit, NumberInvStep, PTL DEF NumberSpec
<1>2. NumberInv /\ [NumberNext]_numberVars => [Gapless!Next]_<<Last, docs>>
  BY GaplessStep
<1> QED BY <1>1, <1>2, GaplessInit, PTL DEF NumberSpec, ImplementsGapless, Gapless!Spec, Last

-----------------------------------------------------------------------------
(* The plans of locks, spelled handler by handler, so that the proofs below read  *)
(* the rows of a plan off its handler.                                          *)

\* The rows of a plan of n locks before the last, which is the key of the tenant.
Ends(p, n) == Len(p) = n + 1 /\ p[n + 1] = TenantKey

ProductsAt(l, m) == {l, m} = {Update("product1"), Update("product2")}

ProductsInOrder(p, n) == p[n] = Update("product1") /\ p[n + 1] = Update("product2")

\* The plans of a handler, spelled.
PlanOf(h, p) ==
    /\ h = "create" => Ends(p, 2) /\ p[1] = NoKey("organization") /\ p[2] = Update("codes")
    /\ h = "createBatch" => Ends(p, 2) /\ p[1] = Update("organization") /\ p[2] = Update("codes")
    /\ h = "successor" => Ends(p, 3) /\ p[1] = NoKey("organization")
                          /\ p[2] = Update("product1") /\ p[3] = Update("codes")
    /\ h = "editImport" => Ends(p, 4) /\ p[1] = Update("organization")
                           /\ p[2] = Update("purchase") /\ ProductsAt(p[3], p[4])
    /\ h = "receiveProposals" => Ends(p, 5) /\ p[1] = Update("purchase")
                                 /\ p[2] = Update("organization") /\ ProductsAt(p[3], p[4])
                                 /\ p[5] = Update("codes")
    /\ h = "receivePurchase" => Ends(p, 3) /\ p[1] \in {Update("purchase"), Update("purchase2")}
                                /\ ProductsInOrder(p, 2)
    /\ h = "checkout" => Ends(p, 5) /\ p[1] = Update("cart") /\ p[2] = Update("invoiceNumbers")
                         /\ p[3] = Update("receiptNumbers") /\ ProductsInOrder(p, 4)
    /\ h = "adjustLine" => Ends(p, 2) /\ p[1] = Update("cart")
                           /\ p[2] \in {Update("product1"), Update("product2")}
    /\ h = "receiptOfGoods" => Ends(p, 5) /\ p[1] = Update("invoice") /\ p[2] = Update("receiptNumbers")
                               /\ p[3] = Update("sale") /\ ProductsInOrder(p, 4)
    /\ h = "receiptOfPeriod" => Ends(p, 4) /\ p[1] = Update("invoice") /\ p[2] = Update("receiptNumbers")
                                /\ p[3] = Update("period") /\ p[4] = Update("subscription")
    /\ h = "voidPeriod" => Ends(p, 2) /\ p[1] = Update("period") /\ p[2] = Update("invoice")
    /\ h = "renew" => Ends(p, 3) /\ p[1] = Update("subscription") /\ p[2] = Update("period")
                      /\ p[3] = Update("invoiceNumbers")
    /\ h = "accept" => Ends(p, 2) /\ p[1] = Update("invitation") /\ p[2] = Update("membership")
    /\ h = "resend" => Ends(p, 2) /\ p[1] = Update("membership") /\ p[2] = Update("invitation")

HandlerNames == {"create", "createBatch", "successor", "editImport", "receiveProposals",
                 "receivePurchase", "checkout", "adjustLine", "receiptOfGoods", "receiptOfPeriod",
                 "voidPeriod", "renew", "accept", "resend"}

LEMMA HandlersNamed == DOMAIN LockPlans = HandlerNames
  BY DEF LockPlans, HandlerNames

LEMMA PlanShape ==
    ASSUME NEW h \in DOMAIN LockPlans, NEW p \in LockPlans[h]
    PROVE  PlanOf(h, p)
<1>1. ASSUME h = "create" PROVE PlanOf(h, p)
  <2>1. p = DirectCreation
    BY <1>1 DEF LockPlans
  <2> QED BY <1>1, <2>1 DEF PlanOf, Ends, DirectCreation, TenantKey
<1>2. ASSUME h = "createBatch" PROVE PlanOf(h, p)
  <2>1. p \in CreateBatch
    BY <1>2 DEF LockPlans
  <2> QED BY <1>2, <2>1 DEF PlanOf, Ends, CreateBatch
<1>3. ASSUME h = "successor" PROVE PlanOf(h, p)
  <2>1. p \in CreateSuccessor
    BY <1>3 DEF LockPlans
  <2> QED BY <1>3, <2>1 DEF PlanOf, Ends, CreateSuccessor
<1>4. ASSUME h = "editImport" PROVE PlanOf(h, p)
  <2>1. p \in EditImport
    BY <1>4 DEF LockPlans
  <2>2. PICK m \in RowsOfQuery : p = <<Update("organization"), Update("purchase")>> \o m \o <<TenantKey>>
    BY <2>1 DEF EditImport, Around
  <2>3. Ends(p, 4) /\ p[1] = Update("organization") /\ p[2] = Update("purchase")
        /\ p[3] = m[1] /\ p[4] = m[2]
    <3>1. CASE m = <<Update("product1"), Update("product2")>>
      BY <2>2, <3>1 DEF Ends
    <3>2. CASE m = <<Update("product2"), Update("product1")>>
      BY <2>2, <3>2 DEF Ends
    <3> QED BY <3>1, <3>2 DEF RowsOfQuery
  <2>4. {m[1], m[2]} = {Update("product1"), Update("product2")}
    BY DEF RowsOfQuery
  <2> QED BY <1>4, <2>3, <2>4 DEF PlanOf, ProductsAt
<1>5. ASSUME h = "receiveProposals" PROVE PlanOf(h, p)
  <2>1. p \in ReceiveProposals
    BY <1>5 DEF LockPlans
  <2>2. PICK m \in RowsOfQuery : p = <<Update("purchase"), Update("organization")>> \o m
                                       \o <<Update("codes"), TenantKey>>
    BY <2>1 DEF ReceiveProposals, Around
  <2>3. Ends(p, 5) /\ p[1] = Update("purchase") /\ p[2] = Update("organization")
        /\ p[3] = m[1] /\ p[4] = m[2] /\ p[5] = Update("codes")
    BY <2>2 DEF Ends, RowsOfQuery
  <2>4. {m[1], m[2]} = {Update("product1"), Update("product2")}
    BY DEF RowsOfQuery
  <2> QED BY <1>5, <2>3, <2>4 DEF PlanOf, ProductsAt
<1>6. ASSUME h = "receivePurchase" PROVE PlanOf(h, p)
  <2>1. p \in ReceivePurchase
    BY <1>6 DEF LockPlans
  <2>2. PICK row \in {"purchase", "purchase2"} :
          p = <<Update(row)>> \o <<Update("product1"), Update("product2")>> \o <<TenantKey>>
    BY <2>1 DEF ReceivePurchase, Around, LinesInOrder
  <2> QED BY <1>6, <2>2 DEF PlanOf, Ends, ProductsInOrder
<1>7. ASSUME h = "checkout" PROVE PlanOf(h, p)
  <2>1. p \in Checkout
    BY <1>7 DEF LockPlans
  <2>2. p = <<Update("cart"), Update("invoiceNumbers"), Update("receiptNumbers")>>
              \o <<Update("product1"), Update("product2")>> \o <<TenantKey>>
    BY <2>1 DEF Checkout, Around, LinesInOrder
  <2> QED BY <1>7, <2>2 DEF PlanOf, Ends, ProductsInOrder
<1>8. ASSUME h = "adjustLine" PROVE PlanOf(h, p)
  <2>1. p \in AdjustLine
    BY <1>8 DEF LockPlans
  <2> QED BY <1>8, <2>1 DEF PlanOf, Ends, AdjustLine
<1>9. ASSUME h = "receiptOfGoods" PROVE PlanOf(h, p)
  <2>1. p \in ReceiptOfGoods
    BY <1>9 DEF LockPlans
  <2>2. p = <<Update("invoice"), Update("receiptNumbers"), Update("sale")>>
              \o <<Update("product1"), Update("product2")>> \o <<TenantKey>>
    BY <2>1 DEF ReceiptOfGoods, Around, LinesInOrder
  <2> QED BY <1>9, <2>2 DEF PlanOf, Ends, ProductsInOrder
<1>10. ASSUME h = "receiptOfPeriod" PROVE PlanOf(h, p)
  <2>1. p \in ReceiptOfPeriod
    BY <1>10 DEF LockPlans
  <2> QED BY <1>10, <2>1 DEF PlanOf, Ends, ReceiptOfPeriod
<1>11. ASSUME h = "voidPeriod" PROVE PlanOf(h, p)
  <2>1. p \in VoidSubscriptionInvoice
    BY <1>11 DEF LockPlans
  <2> QED BY <1>11, <2>1 DEF PlanOf, Ends, VoidSubscriptionInvoice
<1>12. ASSUME h = "renew" PROVE PlanOf(h, p)
  <2>1. p \in Renew
    BY <1>12 DEF LockPlans
  <2> QED BY <1>12, <2>1 DEF PlanOf, Ends, Renew
<1>13. ASSUME h = "accept" PROVE PlanOf(h, p)
  <2>1. p \in AcceptInvitation
    BY <1>13 DEF LockPlans
  <2> QED BY <1>13, <2>1 DEF PlanOf, Ends, AcceptInvitation
<1>14. ASSUME h = "resend" PROVE PlanOf(h, p)
  <2>1. p \in ResendActivation
    BY <1>14 DEF LockPlans
  <2> QED BY <1>14, <2>1 DEF PlanOf, Ends, ResendActivation
<1> QED BY <1>1, <1>2, <1>3, <1>4, <1>5, <1>6, <1>7, <1>8, <1>9, <1>10, <1>11, <1>12,
           <1>13, <1>14, HandlersNamed DEF HandlerNames

LEMMA PlanLength ==
    ASSUME NEW h \in DOMAIN LockPlans, NEW p \in LockPlans[h]
    PROVE  Len(p) \in Nat /\ Len(p) >= 3
  BY PlanShape, HandlersNamed DEF PlanOf, Ends, HandlerNames

-----------------------------------------------------------------------------
(* The inductive invariant of the waits: every request is in one of the plans   *)
(* of its handler, and no two hold locks that conflict.                         *)

OnPlan(r) ==
    \/ work[r] = NoWork
    \/ /\ work[r].handler \in DOMAIN LockPlans
       /\ work[r].locks \in LockPlans[work[r].handler]
       /\ work[r].held \in 0..Len(work[r].locks)

LocksExclude ==
    \A q, r \in Requests : q # r =>
        \A n \in 1..work[q].held, m \in 1..work[r].held :
            ~Conflict(work[q].locks[n], work[r].locks[m])

LockInv ==
    /\ DOMAIN work = Requests
    /\ \A r \in Requests : OnPlan(r)
    /\ LocksExclude

LEMMA OnPlanHeld ==
    ASSUME NEW r, OnPlan(r)
    PROVE  work[r].held \in Nat
  BY DEF OnPlan, NoWork

LEMMA ConflictSymmetric ==
    ASSUME NEW l, NEW m, Conflict(l, m)
    PROVE  Conflict(m, l)
  BY DEF Conflict

LEMMA LockInvInit == LockInit => LockInv
  BY DEF LockInit, LockInv, OnPlan, LocksExclude, NoWork

LEMMA LockInvStep == LockInv /\ [LockNext]_lockVars => LockInv'
<1> SUFFICES ASSUME LockInv, [LockNext]_lockVars PROVE LockInv'
  OBVIOUS
<1>1. CASE UNCHANGED lockVars
  BY <1>1 DEF lockVars, LockInv, OnPlan, LocksExclude
\* A request that holds nothing afterwards disturbs nobody.
<1>2. ASSUME NEW r \in Requests, NEW w, work' = [work EXCEPT ![r] = w], w.held = 0,
             \/ w = NoWork
             \/ w.handler \in DOMAIN LockPlans /\ w.locks \in LockPlans[w.handler]
                /\ 0 \in 0..Len(w.locks)
      PROVE  LockInv'
  <2>1. DOMAIN work' = Requests /\ work'[r] = w /\ \A q \in Requests \ {r} : work'[q] = work[q]
    BY <1>2 DEF LockInv
  <2>2. \A q \in Requests : OnPlan(q)'
    BY <1>2, <2>1 DEF LockInv, OnPlan
  <2>3. LocksExclude'
    BY <1>2, <2>1 DEF LockInv, LocksExclude
  <2> QED BY <2>1, <2>2, <2>3 DEF LockInv
<1>3. ASSUME NEW r \in Requests, StartWork(r) PROVE LockInv'
  <2>1. PICK h \in DOMAIN LockPlans : \E locks \in LockPlans[h] :
          work' = [work EXCEPT ![r] = [handler |-> h, locks |-> locks, held |-> 0]]
    BY <1>3 DEF StartWork
  <2>2. PICK locks \in LockPlans[h] :
          work' = [work EXCEPT ![r] = [handler |-> h, locks |-> locks, held |-> 0]]
    BY <2>1
  <2>3. 0 \in 0..Len(locks)
    BY <2>2, PlanLength
  <2>4. PICK w : w = [handler |-> h, locks |-> locks, held |-> 0]
    OBVIOUS
  <2>5. w.handler = h /\ w.locks = locks /\ w.held = 0
    BY <2>4
  <2>6. work' = [work EXCEPT ![r] = w]
    BY <2>2, <2>4
  <2> QED BY <1>2, <2>1, <2>2, <2>3, <2>5, <2>6
<1>4. ASSUME NEW r \in Requests, Lock(r) PROVE LockInv'
  <2>1. DOMAIN work' = Requests /\ \A q \in Requests \ {r} : work'[q] = work[q]
    BY <1>4 DEF Lock, LockInv
  <2>2. /\ work'[r].handler = work[r].handler /\ work'[r].locks = work[r].locks
        /\ work'[r].held = work[r].held + 1 /\ work[r].held < Len(work[r].locks)
    BY <1>4 DEF Lock, LockInv
  <2>3. work[r] # NoWork /\ OnPlan(r)
    BY <2>2 DEF NoWork, LockInv
  <2>4. work[r].held \in 0..Len(work[r].locks) /\ Len(work[r].locks) \in Nat
    BY <2>3, PlanLength DEF OnPlan
  <2>5. OnPlan(r)'
    <3>1. work'[r].held \in 0..Len(work'[r].locks)
      BY <2>2, <2>4
    <3> QED BY <2>2, <2>3, <3>1 DEF OnPlan
  <2>6. \A q \in Requests : OnPlan(q)'
    BY <2>1, <2>5 DEF LockInv, OnPlan
  <2>7. ASSUME NEW q \in Requests \ {r}, NEW n \in 1..work[q].held, NEW m \in 1..work'[r].held
        PROVE  ~Conflict(work[q].locks[n], work[r].locks[m])
    <3>1. CASE m \in 1..work[r].held
      BY <3>1 DEF LockInv, LocksExclude
    <3>2. CASE m = work[r].held + 1
      <4>1. ~Blocks(q, r)
        BY <1>4 DEF Lock
      <4> QED BY <2>2, <2>7, <3>2, <4>1 DEF Blocks, Wanted
    <3> QED BY <2>2, <2>4, <3>1, <3>2
  <2>8. LocksExclude'
    <3> SUFFICES ASSUME NEW p \in Requests, NEW q \in Requests, p # q,
                        NEW n \in 1..work'[p].held, NEW m \in 1..work'[q].held
                 PROVE  ~Conflict(work'[p].locks[n], work'[q].locks[m])
      BY DEF LocksExclude
    <3>1. CASE q = r
      BY <2>1, <2>2, <2>7, <3>1
    <3>2. CASE p = r
      BY <2>1, <2>2, <2>7, <3>2, ConflictSymmetric
    <3>3. CASE p # r /\ q # r
      BY <2>1, <3>3 DEF LockInv, LocksExclude
    <3> QED BY <3>1, <3>2, <3>3
  <2> QED BY <2>1, <2>6, <2>8 DEF LockInv
<1>5. ASSUME NEW r \in Requests, work' = [work EXCEPT ![r] = NoWork] PROVE LockInv'
  <2>1. NoWork.held = 0
    BY DEF NoWork
  <2> QED BY <1>2, <1>5, <2>1
<1> QED BY <1>1, <1>3, <1>4, <1>5 DEF LockNext, Commit, Abort

-----------------------------------------------------------------------------
(* Circles of waits.                                                          *)

\* A waiter has work, and takes its locks in the order of a plan.
LEMMA WaiterOnPlan ==
    ASSUME LockInv, NEW q, NEW r \in Requests, Blocks(q, r)
    PROVE  /\ work[r].handler \in HandlerNames
           /\ PlanOf(work[r].handler, work[r].locks)
           /\ work[r].held \in Nat /\ work[r].held < Len(work[r].locks)
<1>1. work[r].held < Len(work[r].locks)
  BY DEF Blocks
<1>2. work[r] # NoWork /\ OnPlan(r)
  BY <1>1 DEF LockInv, NoWork
<1> QED BY <1>1, <1>2, PlanShape, HandlersNamed, OnPlanHeld DEF OnPlan

(* Where nobody has the organization for itself, the rows have an order that all   *)
(* handlers follow; two parts of it depend on which of two handlers is there.     *)
RankOf(row, paying, resending) ==
    CASE row \in {"purchase", "purchase2", "cart"} -> 1
      [] row = "organization" -> 2
      [] row = "subscription" -> IF paying THEN 7 ELSE 1
      [] row = "period" -> IF paying THEN 6 ELSE 2
      [] row = "invoice" -> 3
      [] row = "invoiceNumbers" -> 4
      [] row = "receiptNumbers" -> 5
      [] row = "sale" -> 8
      [] row = "product1" -> 9
      [] row = "product2" -> 10
      [] row = "codes" -> 11
      [] row = "invitation" -> IF resending THEN 2 ELSE 1
      [] row = "membership" -> IF resending THEN 1 ELSE 2
      [] OTHER -> 1

\* Handlers that the order leaves out.
Follows(h, paying, resending) ==
    /\ paying => h \notin {"voidPeriod", "renew"}
    /\ ~paying => h # "receiptOfPeriod"
    /\ resending => h # "accept"
    /\ ~resending => h # "resend"

LEMMA Ranks ==
    ASSUME NEW paying \in BOOLEAN, NEW resending \in BOOLEAN
    PROVE  /\ RankOf("purchase", paying, resending) = 1
           /\ RankOf("purchase2", paying, resending) = 1
           /\ RankOf("cart", paying, resending) = 1
           /\ RankOf("organization", paying, resending) = 2
           /\ RankOf("subscription", paying, resending) = IF paying THEN 7 ELSE 1
           /\ RankOf("period", paying, resending) = IF paying THEN 6 ELSE 2
           /\ RankOf("invoice", paying, resending) = 3
           /\ RankOf("invoiceNumbers", paying, resending) = 4
           /\ RankOf("receiptNumbers", paying, resending) = 5
           /\ RankOf("sale", paying, resending) = 8
           /\ RankOf("product1", paying, resending) = 9
           /\ RankOf("product2", paying, resending) = 10
           /\ RankOf("codes", paying, resending) = 11
           /\ RankOf("invitation", paying, resending) = IF resending THEN 2 ELSE 1
           /\ RankOf("membership", paying, resending) = IF resending THEN 1 ELSE 2
  BY DEF RankOf

\* A lock that keeps the organization from everybody else.
TakesOrganization(lock) == lock.row = "organization" /\ lock.mode = "update"

LEMMA RanksRise ==
    ASSUME NEW h \in HandlerNames, NEW p, PlanOf(h, p), NEW paying \in BOOLEAN,
           NEW resending \in BOOLEAN, Follows(h, paying, resending),
           NEW k \in Nat, k < Len(p), p[k + 1] # TenantKey,
           \A m \in 1..k : ~TakesOrganization(p[m]),
           NEW n \in 1..k
    PROVE  RankOf(p[n].row, paying, resending) < RankOf(p[k + 1].row, paying, resending)
<1>1. \A row : Update(row).row = row /\ NoKey(row).row = row
  BY DEF Update, NoKey
<1>2. CASE h \in {"create", "createBatch", "successor"}
  <2>1. CASE h = "successor"
    <3>1. /\ Ends(p, 3) /\ p[1].row = "organization" /\ p[2].row = "product1" /\ p[3].row = "codes"
      BY <1>1, <2>1 DEF PlanOf
    <3>2. k \in 1..2 /\ n \in 1..k
      BY <3>1 DEF Ends
    <3> QED BY <3>1, <3>2, Ranks
  <2>2. CASE h \in {"create", "createBatch"}
    BY <1>1, <2>2, Ranks DEF PlanOf, Ends
  <2> QED BY <1>2, <2>1, <2>2
<1>3. CASE h = "editImport"
  <2>1. TakesOrganization(p[1]) /\ 1 \in 1..k
    BY <1>3 DEF PlanOf, TakesOrganization, Update
  <2> QED BY <2>1
<1>4. CASE h = "receiveProposals"
  <2>1. /\ p[1].row = "purchase" /\ p[2].row = "organization" /\ TakesOrganization(p[2])
    BY <1>4 DEF PlanOf, TakesOrganization, Update
  <2>2. 2 \notin 1..k
    BY <2>1
  <2> QED BY <2>1, <2>2, Ranks
<1>5. CASE h = "receivePurchase"
  <2>1. /\ Ends(p, 3)
        /\ p[1].row \in {"purchase", "purchase2"}
        /\ p[2].row = "product1"
        /\ p[3].row = "product2"
    BY <1>1, <1>5 DEF PlanOf, ProductsInOrder
  <2>2. k \in 1..2 /\ n \in 1..k
    BY <2>1 DEF Ends
  <2> QED BY <2>1, <2>2, Ranks
<1>6. CASE h = "checkout"
  <2>1. /\ Ends(p, 5)
        /\ p[1].row = "cart"
        /\ p[2].row = "invoiceNumbers"
        /\ p[3].row = "receiptNumbers"
        /\ p[4].row = "product1"
        /\ p[5].row = "product2"
    BY <1>1, <1>6 DEF PlanOf, ProductsInOrder
  <2>2. k \in 1..4 /\ n \in 1..k
    BY <2>1 DEF Ends
  <2>3. /\ RankOf(p[1].row, paying, resending) = 1
        /\ RankOf(p[2].row, paying, resending) = 4
        /\ RankOf(p[3].row, paying, resending) = 5
        /\ RankOf(p[4].row, paying, resending) = 9
        /\ RankOf(p[5].row, paying, resending) = 10
    BY <2>1, Ranks
  <2> QED BY <2>2, <2>3, SMTT(40)
<1>7. CASE h = "adjustLine"
  <2>1. /\ Ends(p, 2)
        /\ p[1].row = "cart"
        /\ p[2].row \in {"product1", "product2"}
    BY <1>1, <1>7 DEF PlanOf, ProductsInOrder
  <2>2. k \in 1..1 /\ n \in 1..k
    BY <2>1 DEF Ends
  <2> QED BY <2>1, <2>2, Ranks
<1>8. CASE h = "receiptOfGoods"
  <2>1. /\ Ends(p, 5)
        /\ p[1].row = "invoice"
        /\ p[2].row = "receiptNumbers"
        /\ p[3].row = "sale"
        /\ p[4].row = "product1"
        /\ p[5].row = "product2"
    BY <1>1, <1>8 DEF PlanOf, ProductsInOrder
  <2>2. k \in 1..4 /\ n \in 1..k
    BY <2>1 DEF Ends
  <2>3. /\ RankOf(p[1].row, paying, resending) = 3
        /\ RankOf(p[2].row, paying, resending) = 5
        /\ RankOf(p[3].row, paying, resending) = 8
        /\ RankOf(p[4].row, paying, resending) = 9
        /\ RankOf(p[5].row, paying, resending) = 10
    BY <2>1, Ranks
  <2> QED BY <2>2, <2>3, SMTT(40)
<1>9. CASE h = "receiptOfPeriod"
  <2>1. /\ Ends(p, 4)
        /\ p[1].row = "invoice"
        /\ p[2].row = "receiptNumbers"
        /\ p[3].row = "period"
        /\ p[4].row = "subscription"
    BY <1>1, <1>9 DEF PlanOf, ProductsInOrder
  <2>2. k \in 1..3 /\ n \in 1..k
    BY <2>1 DEF Ends
  <2>3. /\ RankOf(p[1].row, paying, resending) = 3
        /\ RankOf(p[2].row, paying, resending) = 5
        /\ RankOf(p[3].row, paying, resending) = 6
        /\ RankOf(p[4].row, paying, resending) = 7
    BY <2>1, Ranks, <1>9 DEF Follows
  <2> QED BY <2>2, <2>3, SMTT(40)
<1>10. CASE h = "voidPeriod"
  <2>1. /\ Ends(p, 2)
        /\ p[1].row = "period"
        /\ p[2].row = "invoice"
    BY <1>1, <1>10 DEF PlanOf, ProductsInOrder
  <2>2. k \in 1..1 /\ n \in 1..k
    BY <2>1 DEF Ends
  <2> QED BY <2>1, <2>2, Ranks, <1>10 DEF Follows
<1>11. CASE h = "renew"
  <2>1. /\ Ends(p, 3)
        /\ p[1].row = "subscription"
        /\ p[2].row = "period"
        /\ p[3].row = "invoiceNumbers"
    BY <1>1, <1>11 DEF PlanOf, ProductsInOrder
  <2>2. k \in 1..2 /\ n \in 1..k
    BY <2>1 DEF Ends
  <2> QED BY <2>1, <2>2, Ranks, <1>11 DEF Follows
<1>12. CASE h = "accept"
  <2>1. /\ Ends(p, 2)
        /\ p[1].row = "invitation"
        /\ p[2].row = "membership"
    BY <1>1, <1>12 DEF PlanOf, ProductsInOrder
  <2>2. k \in 1..1 /\ n \in 1..k
    BY <2>1 DEF Ends
  <2> QED BY <2>1, <2>2, Ranks, <1>12 DEF Follows
<1>13. CASE h = "resend"
  <2>1. /\ Ends(p, 2)
        /\ p[1].row = "membership"
        /\ p[2].row = "invitation"
    BY <1>1, <1>13 DEF PlanOf, ProductsInOrder
  <2>2. k \in 1..1 /\ n \in 1..k
    BY <2>1 DEF Ends
  <2> QED BY <2>1, <2>2, Ranks, <1>13 DEF Follows
<1> QED BY <1>2, <1>3, <1>4, <1>5, <1>6, <1>7, <1>8, <1>9, <1>10, <1>11, <1>12, <1>13 DEF HandlerNames

LEMMA RankTyped ==
    ASSUME NEW row, NEW paying \in BOOLEAN, NEW resending \in BOOLEAN
    PROVE  RankOf(row, paying, resending) \in 1..11
  BY DEF RankOf

LEMMA HighestRank ==
    ASSUME NEW T \in SUBSET (1..11), T # {}
    PROVE  \E x \in T : \A y \in T : y <= x
<1> SUFFICES ASSUME \A x \in T : \E y \in T : y > x PROVE FALSE
  OBVIOUS
<1>1. 11 \notin T
  OBVIOUS
<1>2. 10 \notin T
  BY <1>1
<1>3. 9 \notin T
  BY <1>1, <1>2
<1>4. 8 \notin T
  BY <1>1, <1>2, <1>3
<1>5. 7 \notin T
  BY <1>1, <1>2, <1>3, <1>4
<1>6. 6 \notin T
  BY <1>1, <1>2, <1>3, <1>4, <1>5
<1>7. 5 \notin T
  BY <1>1, <1>2, <1>3, <1>4, <1>5, <1>6
<1>8. 4 \notin T
  BY <1>1, <1>2, <1>3, <1>4, <1>5, <1>6, <1>7
<1>9. 3 \notin T
  BY <1>1, <1>2, <1>3, <1>4, <1>5, <1>6, <1>7, <1>8
<1>10. 2 \notin T
  BY <1>1, <1>2, <1>3, <1>4, <1>5, <1>6, <1>7, <1>8, <1>9
<1>11. 1 \notin T
  BY <1>1, <1>2, <1>3, <1>4, <1>5, <1>6, <1>7, <1>8, <1>9, <1>10
<1>12. PICK x \in T : x \in 1..11
  OBVIOUS
<1> QED BY <1>1, <1>2, <1>3, <1>4, <1>5, <1>6, <1>7, <1>8, <1>9, <1>10, <1>11, <1>12

\* Nobody waits for the key of the tenant, where nobody has the organization for itself.
OrganizationTaken(q) == \E n \in 1..work[q].held : TakesOrganization(work[q].locks[n])

LEMMA KeyIsFree ==
    ASSUME NEW q, NEW r, Blocks(q, r), Wanted(r) = TenantKey
    PROVE  OrganizationTaken(q)
<1>1. PICK n \in 1..work[q].held : Conflict(work[q].locks[n], TenantKey)
  BY DEF Blocks
<1>2. TenantKey.row = "organization" /\ TenantKey.mode = "share"
  BY DEF TenantKey
<1>3. {work[q].locks[n].mode, "share"} # {"nokey"}
  OBVIOUS
<1>4. work[q].locks[n].row = "organization" /\ "update" \in {work[q].locks[n].mode, "share"}
  BY <1>1, <1>2, <1>3 DEF Conflict
<1> QED BY <1>4 DEF OrganizationTaken, TakesOrganization

LEMMA RankedWaitsEnd ==
    ASSUME LockInv, NEW S \in SUBSET Requests, Stuck(S),
           NEW paying \in BOOLEAN, NEW resending \in BOOLEAN,
           \A r \in S : Follows(work[r].handler, paying, resending),
           \A r \in S : ~OrganizationTaken(r)
    PROVE  FALSE
<1> DEFINE RankW(r) == RankOf(Wanted(r).row, paying, resending)
<1>1. ASSUME NEW r \in S
      PROVE  /\ work[r].handler \in HandlerNames
             /\ PlanOf(work[r].handler, work[r].locks)
             /\ work[r].held \in Nat /\ work[r].held < Len(work[r].locks)
  BY WaiterOnPlan DEF Stuck
<1>2. ASSUME NEW r \in S PROVE Wanted(r) # TenantKey
  <2>1. PICK q \in S : Blocks(q, r)
    BY DEF Stuck
  <2> QED BY <1>1, <2>1, KeyIsFree
<1>3. ASSUME NEW r \in S PROVE RankW(r) \in 1..11
  BY RankTyped
<1> HIDE DEF RankW
<1>4. PICK r \in S : \A q \in S : RankW(q) <= RankW(r)
  <2> DEFINE T == { RankW(q) : q \in S }
  <2>1. T \in SUBSET (1..11) /\ T # {}
    BY <1>3 DEF Stuck
  <2>2. PICK x \in T : \A y \in T : y <= x
    <3> HIDE DEF T
    <3> QED BY <2>1, HighestRank
  <2> QED BY <2>2
<1>5. PICK q \in S : Blocks(q, r)
  BY DEF Stuck
<1>6. PICK n \in 1..work[q].held : Conflict(work[q].locks[n], Wanted(r))
  BY <1>5 DEF Blocks
<1>7. RankOf(work[q].locks[n].row, paying, resending) < RankOf(Wanted(q).row, paying, resending)
  <2>1. work[q].locks[work[q].held + 1] # TenantKey
    BY <1>2 DEF Wanted
  <2>2. \A m \in 1..work[q].held : ~TakesOrganization(work[q].locks[m])
    BY DEF OrganizationTaken
  <2> QED BY <1>1, <2>1, <2>2, RanksRise DEF Wanted
<1>8. work[q].locks[n].row = Wanted(r).row
  BY <1>6 DEF Conflict
<1>9. RankW(r) < RankW(q)
  BY <1>7, <1>8 DEF RankW
<1> QED BY <1>3, <1>4, <1>9

Goods == {"receivePurchase", "checkout", "adjustLine", "receiptOfGoods"}

\* The rows of the handlers that do not touch the organization before their commit.
LEMMA RowsElsewhere ==
    ASSUME NEW h \in HandlerNames, NEW p, PlanOf(h, p), NEW n \in 1..(Len(p) - 1),
           h \notin {"create", "createBatch", "successor", "editImport", "receiveProposals"}
    PROVE  /\ p[n].row # "codes" /\ p[n].row # "organization"
           /\ p[n].row \in {"product1", "product2"} => h \in Goods
           /\ p[n].row = "purchase" => h = "receivePurchase"
<1>1. \A row : Update(row).row = row /\ NoKey(row).row = row
  BY DEF Update, NoKey
<1>2. CASE h = "receivePurchase"
  <2>1. /\ Ends(p, 3) /\ p[1].row \in {"purchase", "purchase2"}
        /\ p[2].row = "product1" /\ p[3].row = "product2"
    BY <1>1, <1>2 DEF PlanOf, ProductsInOrder
  <2>2. n \in 1..3
    BY <2>1 DEF Ends
  <2> QED BY <1>2, <2>1, <2>2 DEF Goods
<1>3. CASE h = "checkout"
  <2>1. /\ Ends(p, 5) /\ p[1].row = "cart" /\ p[2].row = "invoiceNumbers"
        /\ p[3].row = "receiptNumbers" /\ p[4].row = "product1" /\ p[5].row = "product2"
    BY <1>1, <1>3 DEF PlanOf, ProductsInOrder
  <2>2. n \in 1..5
    BY <2>1 DEF Ends
  <2> QED BY <1>3, <2>1, <2>2 DEF Goods
<1>4. CASE h = "adjustLine"
  <2>1. /\ Ends(p, 2) /\ p[1].row = "cart" /\ p[2].row \in {"product1", "product2"}
    BY <1>1, <1>4 DEF PlanOf
  <2>2. n \in 1..2
    BY <2>1 DEF Ends
  <2> QED BY <1>4, <2>1, <2>2 DEF Goods
<1>5. CASE h = "receiptOfGoods"
  <2>1. /\ Ends(p, 5) /\ p[1].row = "invoice" /\ p[2].row = "receiptNumbers"
        /\ p[3].row = "sale" /\ p[4].row = "product1" /\ p[5].row = "product2"
    BY <1>1, <1>5 DEF PlanOf, ProductsInOrder
  <2>2. n \in 1..5
    BY <2>1 DEF Ends
  <2> QED BY <1>5, <2>1, <2>2 DEF Goods
<1>6. CASE h = "receiptOfPeriod"
  <2>1. /\ Ends(p, 4) /\ p[1].row = "invoice" /\ p[2].row = "receiptNumbers"
        /\ p[3].row = "period" /\ p[4].row = "subscription"
    BY <1>1, <1>6 DEF PlanOf
  <2>2. n \in 1..4
    BY <2>1 DEF Ends
  <2> QED BY <2>1, <2>2
<1>7. CASE h = "renew"
  <2>1. /\ Ends(p, 3) /\ p[1].row = "subscription" /\ p[2].row = "period"
        /\ p[3].row = "invoiceNumbers"
    BY <1>1, <1>7 DEF PlanOf
  <2>2. n \in 1..3
    BY <2>1 DEF Ends
  <2> QED BY <2>1, <2>2
<1>8. CASE h \in {"voidPeriod", "accept", "resend"}
  <2>1. /\ Ends(p, 2) /\ p[1].row \in {"period", "invitation", "membership"}
        /\ p[2].row \in {"invoice", "invitation", "membership"}
    BY <1>1, <1>8 DEF PlanOf
  <2>2. n \in 1..2
    BY <2>1 DEF Ends
  <2> QED BY <2>1, <2>2
<1> QED BY <1>2, <1>3, <1>4, <1>5, <1>6, <1>7, <1>8 DEF HandlerNames

\* What a plan may hold that has not come to the organization.
LEMMA WithoutOrganization ==
    ASSUME NEW h \in HandlerNames, NEW p, PlanOf(h, p), NEW n \in 1..(Len(p) - 1),
           \A m \in 1..n : p[m].row # "organization"
    PROVE  /\ p[n].row # "codes" /\ p[n].row # "organization"
           /\ p[n].row \in {"product1", "product2"} => h \in Goods
           /\ p[n].row = "purchase" => h \in {"receivePurchase", "receiveProposals"}
<1>1. \A row : Update(row).row = row /\ NoKey(row).row = row
  BY DEF Update, NoKey
<1>2. CASE h \in {"create", "createBatch", "successor", "editImport"}
  <2>1. p[1].row = "organization" /\ 1 \in 1..n
    BY <1>1, <1>2 DEF PlanOf
  <2> QED BY <2>1
<1>3. CASE h = "receiveProposals"
  <2>1. p[1].row = "purchase" /\ p[2].row = "organization"
    BY <1>1, <1>3 DEF PlanOf
  <2>2. n = 1
    <3>1. 2 \notin 1..n
      BY <2>1
    <3> QED BY <3>1
  <2> QED BY <1>3, <2>1, <2>2
<1>4. CASE h \notin {"create", "createBatch", "successor", "editImport", "receiveProposals"}
  BY <1>4, RowsElsewhere
<1> QED BY <1>2, <1>3, <1>4

\* Who has the organization for itself, and what it waits for.
LEMMA OrganizationTakers ==
    ASSUME NEW h \in HandlerNames, NEW p, PlanOf(h, p),
           NEW k \in Nat, k < Len(p), NEW n \in 1..k, TakesOrganization(p[n])
    PROVE  \/ h = "createBatch" /\ p[k + 1].row \in {"codes", "organization"}
           \/ h = "editImport" /\ p[k + 1].row \in {"purchase", "product1", "product2", "organization"}
           \/ h = "receiveProposals" /\ p[k + 1].row \in {"product1", "product2", "codes", "organization"}
<1>1. /\ \A row : Update(row).row = row /\ NoKey(row).row = row /\ NoKey(row).mode = "nokey"
      /\ TenantKey.row = "organization"
  BY DEF Update, NoKey, TenantKey
<1>2. CASE h = "createBatch"
  <2>1. Ends(p, 2) /\ p[2].row = "codes"
    BY <1>1, <1>2 DEF PlanOf
  <2>2. k \in 1..2
    BY <2>1 DEF Ends
  <2> QED BY <1>1, <1>2, <2>1, <2>2 DEF Ends
<1>3. CASE h = "editImport"
  <2>1. Ends(p, 4) /\ p[2].row = "purchase" /\ ProductsAt(p[3], p[4])
    BY <1>1, <1>3 DEF PlanOf
  <2>3. {p[3], p[4]} = {Update("product1"), Update("product2")}
    BY <2>1 DEF ProductsAt
  <2>4. p[3].row \in {"product1", "product2"} /\ p[4].row \in {"product1", "product2"}
    BY <1>1, <2>3
  <2>2. k \in 1..4
    BY <2>1 DEF Ends
  <2> QED BY <1>1, <1>3, <2>1, <2>2, <2>4 DEF Ends
<1>4. CASE h = "receiveProposals"
  <2>1. Ends(p, 5) /\ p[1].row = "purchase" /\ p[5].row = "codes" /\ ProductsAt(p[3], p[4])
    BY <1>1, <1>4 DEF PlanOf
  <2>3. {p[3], p[4]} = {Update("product1"), Update("product2")}
    BY <2>1 DEF ProductsAt
  <2>4. p[3].row \in {"product1", "product2"} /\ p[4].row \in {"product1", "product2"}
    BY <1>1, <2>3
  <2>2. k \in 2..5
    <3>1. n # 1
      BY <2>1 DEF TakesOrganization
    <3> QED BY <2>1, <3>1 DEF Ends
  <2> QED BY <1>1, <1>4, <2>1, <2>2, <2>4 DEF Ends
<1>5. CASE h = "create"
  <2>1. Ends(p, 2) /\ p[1] = NoKey("organization") /\ p[2].row = "codes"
    BY <1>1, <1>5 DEF PlanOf
  <2>2. n \in 1..2
    BY <2>1 DEF Ends
  <2> QED BY <1>1, <2>1, <2>2 DEF TakesOrganization
<1>5a. CASE h = "successor"
  <2>1. Ends(p, 3) /\ p[1] = NoKey("organization") /\ p[2].row = "product1" /\ p[3].row = "codes"
    BY <1>1, <1>5a DEF PlanOf
  <2>2. n \in 1..3
    BY <2>1 DEF Ends
  <2> QED BY <1>1, <2>1, <2>2 DEF TakesOrganization
<1>6. CASE h \notin {"create", "createBatch", "successor", "editImport", "receiveProposals"}
  <2>1. n \in 1..(Len(p) - 1)
    BY <1>6 DEF PlanOf, Ends, HandlerNames
  <2>2. \A m \in 1..(Len(p) - 1) : p[m].row # "organization"
    BY <1>6, RowsElsewhere
  <2> QED BY <2>1, <2>2 DEF TakesOrganization
<1> QED BY <1>2, <1>3, <1>4, <1>5, <1>5a, <1>6

\* Whoever has the organization for itself waits for goods that only the known
\* pairs can hold against it.
LEMMA OrganizationWaitsEnd ==
    ASSUME LockInv, NEW S \in SUBSET Requests, Stuck(S),
           \A pair \in Inversions : ~(pair \subseteq Handlers(S)),
           NEW b \in S, OrganizationTaken(b)
    PROVE  FALSE
<1>1. ASSUME NEW r \in S
      PROVE  /\ work[r].handler \in HandlerNames
             /\ PlanOf(work[r].handler, work[r].locks)
             /\ work[r].held \in Nat /\ work[r].held < Len(work[r].locks)
  BY WaiterOnPlan DEF Stuck
<1>2. PICK k \in 1..work[b].held : TakesOrganization(work[b].locks[k])
  BY DEF OrganizationTaken
<1>3. ASSUME NEW q \in S, q # b, NEW n \in 1..work[q].held
      PROVE  work[q].locks[n].row # "organization"
  <2>1. ~Conflict(work[q].locks[n], work[b].locks[k])
    BY <1>3, <1>2 DEF LockInv, LocksExclude
  <2> QED BY <1>2, <2>1 DEF Conflict, TakesOrganization
<1>4. PICK q \in S : Blocks(q, b)
  BY DEF Stuck
<1>5. PICK n \in 1..work[q].held : Conflict(work[q].locks[n], Wanted(b))
  BY <1>4 DEF Blocks
<1>6. q # b /\ work[q].locks[n].row = Wanted(b).row
  BY <1>4, <1>5 DEF Blocks, Conflict
<1>7. /\ Wanted(b).row \notin {"codes", "organization"}
      /\ Wanted(b).row \in {"product1", "product2"} => work[q].handler \in Goods
      /\ Wanted(b).row = "purchase" => work[q].handler \in {"receivePurchase", "receiveProposals"}
  <2>1. n \in 1..(Len(work[q].locks) - 1)
    <3>1. Len(work[q].locks) \in Nat
      BY <1>1 DEF PlanOf, Ends, HandlerNames
    <3> QED BY <1>1, <3>1
  <2>2. \A m \in 1..n : work[q].locks[m].row # "organization"
    BY <1>1, <1>3, <1>6
  <2> QED BY <1>1, <1>6, <2>1, <2>2, WithoutOrganization
<1>8. \/ work[b].handler = "editImport" /\ Wanted(b).row \in {"purchase", "product1", "product2"}
      \/ work[b].handler = "receiveProposals" /\ Wanted(b).row \in {"product1", "product2"}
  BY <1>1, <1>2, <1>7, OrganizationTakers DEF Wanted
<1>9. {work[b].handler, work[q].handler} \in Inversions
  BY <1>7, <1>8 DEF Inversions, Goods
<1>10. {work[b].handler, work[q].handler} \subseteq Handlers(S)
  BY DEF Handlers
<1> QED BY <1>9, <1>10

LEMMA WaitsAreKnown == LockInv => DeadlocksAreKnown
<1> SUFFICES ASSUME LockInv, NEW S \in SUBSET Requests, Stuck(S),
                    \A pair \in Inversions : ~(pair \subseteq Handlers(S))
             PROVE  FALSE
  BY DEF DeadlocksAreKnown
<1>1. \A r \in S : ~OrganizationTaken(r)
  BY OrganizationWaitsEnd
<1> DEFINE paying == "receiptOfPeriod" \in Handlers(S)
           resending == "resend" \in Handlers(S)
<1>2. ASSUME NEW r \in S PROVE Follows(work[r].handler, paying, resending)
  <2>1. work[r].handler \in Handlers(S)
    BY DEF Handlers
  <2>2. /\ {"receiptOfPeriod", "voidPeriod"} \in Inversions
        /\ {"receiptOfPeriod", "renew"} \in Inversions
        /\ {"accept", "resend"} \in Inversions
    BY DEF Inversions
  <2> QED BY <2>1, <2>2 DEF Follows
<1>3. paying \in BOOLEAN /\ resending \in BOOLEAN
  OBVIOUS
<1> HIDE DEF paying, resending
<1> QED BY <1>1, <1>2, <1>3, RankedWaitsEnd

LEMMA CreatorsAreFree == LockInv => CreatorsNeverDeadlock
<1> SUFFICES ASSUME LockInv, DeadlocksAreKnown, NEW S \in SUBSET Requests, Stuck(S),
                    Handlers(S) \subseteq {"create", "createBatch", "successor"}
             PROVE  FALSE
  BY WaitsAreKnown DEF CreatorsNeverDeadlock
<1>1. PICK pair \in Inversions : pair \subseteq Handlers(S)
  BY DEF DeadlocksAreKnown
<1>2. pair \subseteq {"create", "createBatch", "successor"}
  BY <1>1
<1>3. pair \cap {"receiptOfPeriod", "accept", "editImport", "receiveProposals"} # {}
  BY <1>1 DEF Inversions
<1> QED BY <1>2, <1>3

LEMMA LocksTyped == LockInv => LockTypeOK
<1> SUFFICES ASSUME LockInv, NEW r \in Requests
             PROVE  /\ work[r].held \in 0..Len(work[r].locks)
                    /\ work[r] = NoWork \/ work[r].locks \in LockPlans[work[r].handler]
  BY DEF LockTypeOK
<1>1. OnPlan(r)
  BY DEF LockInv
<1>2. CASE work[r] = NoWork
  BY <1>2 DEF NoWork
<1> QED BY <1>1, <1>2 DEF OnPlan

-----------------------------------------------------------------------------
LEMMA LockInvHolds == LockSpec => []LockInv
  BY LockInvInit, LockInvStep, PTL DEF LockSpec

(* Whatever handlers run together, a circle of waits has two of them in it that take *)
(* rows in opposite orders, one of the pairs of Inversions; in particular products    *)
(* are created without one (products/creation.py:58).                              *)
THEOREM LockWaitsKnown == LockSpec => []LockWaitsAreKnown
<1>1. LockInv => LockWaitsAreKnown
  BY WaitsAreKnown, CreatorsAreFree, LocksTyped DEF LockWaitsAreKnown
<1> QED BY <1>1, LockInvHolds, PTL

(* Creating products directly, from the grid or as another unit of one, in any    *)
(* number of requests, waits for nobody in a circle.                             *)
THEOREM CreatorsDoNotDeadlock == LockSpec => []CreatorsNeverDeadlock
  BY CreatorsAreFree, LockInvHolds, PTL

-----------------------------------------------------------------------------
(* The inductive invariant of quotations.  What a request has read stays a     *)
(* version; the versions form a chain; and with requests in turn what the only  *)
(* request has read still holds when it writes.                                *)

PendingRequest == [op : {"edit", "move", "convert"}, row : 1..MaxVersions,
                   to : StorableStatus \cup {"converted"}]

Pending(r) == quoteRequest[r] # NoQuoteRequest

QuoteTyped ==
    /\ quote \in Seq(QuoteRow)
    /\ generated \in Seq(1..MaxVersions)
    /\ \A i \in DOMAIN generated : generated[i] \in DOMAIN quote
    /\ Len(quote) <= MaxVersions /\ Len(generated) <= MaxGenerated
    /\ quoteRequest \in [QuoteRequests -> {NoQuoteRequest} \cup PendingRequest]
    /\ \A r \in QuoteRequests :
          Pending(r) => /\ quoteRequest[r].row \in DOMAIN quote
                        /\ quoteRequest[r].op = "edit" => quoteRequest[r].to \in StorableStatus
    /\ quotesInTurn \in BOOLEAN

Named ==
    /\ \A i \in DOMAIN generated : quote[generated[i]].invoice >= i
    /\ \A v \in DOMAIN quote : quote[v].invoice # 0 => /\ quote[v].invoice \in DOMAIN generated
                                                       /\ generated[quote[v].invoice] = v

\* Nobody has come in between the reading of a request and its writing.
StillTrue(request) ==
    /\ request.op = "edit" => EditableQuote(quote[request.row])
    /\ request.op = "move" => Movable(quote[request.row], request.to)
    /\ request.op = "convert" => ConvertibleQuote(quote[request.row])

InTurn ==
    quotesInTurn =>
        /\ \A r, q \in QuoteRequests : Pending(r) /\ Pending(q) => r = q
        /\ \A r \in QuoteRequests : Pending(r) => StillTrue(quoteRequest[r])
        /\ generated # <<>> => /\ Len(generated) = 1
                               /\ quote[Len(quote)].status = "converted"

QuoteInv == QuoteTyped /\ VersionsAreLinear /\ Named /\ InTurn

-----------------------------------------------------------------------------
LEMMA NewVersionTyped ==
    ASSUME NEW no \in 1..MaxVersions, NEW parent \in 0..MaxVersions, NEW status \in StorableStatus
    PROVE  NewVersion(no, parent, status) \in QuoteRow
  BY QuoteBounds DEF NewVersion, QuoteRow

\* What the writes do to a row.
LEMMA RowCurrent ==
    ASSUME NEW row \in QuoteRow, NEW c
    PROVE  [row EXCEPT !.current = c] =
             [no |-> row.no, parent |-> row.parent, current |-> c,
              status |-> row.status, invoice |-> row.invoice]
  BY DEF QuoteRow

LEMMA RowMoved ==
    ASSUME NEW row \in QuoteRow, NEW to
    PROVE  [row EXCEPT !.status = to] =
             [no |-> row.no, parent |-> row.parent, current |-> row.current,
              status |-> to, invoice |-> row.invoice]
  BY DEF QuoteRow

LEMMA RowInvoiced ==
    ASSUME NEW row \in QuoteRow, NEW i
    PROVE  [row EXCEPT !.invoice = i] =
             [no |-> row.no, parent |-> row.parent, current |-> row.current,
              status |-> row.status, invoice |-> i]
  BY DEF QuoteRow

LEMMA RowConverted ==
    ASSUME NEW row \in QuoteRow, NEW i
    PROVE  ConvertedQuote(row, i) =
             [no |-> row.no, parent |-> row.parent, current |-> row.current,
              status |-> "converted", invoice |-> i]
<1> DEFINE moved == [row EXCEPT !.status = "converted"]
<1>1. ConvertedQuote(row, i) = [moved EXCEPT !.invoice = i]
  BY DEF ConvertedQuote
<1>2. moved = [no |-> row.no, parent |-> row.parent, current |-> row.current,
               status |-> "converted", invoice |-> row.invoice]
  BY RowMoved
<1>3. moved \in QuoteRow
  BY <1>2 DEF QuoteRow
<1> HIDE DEF moved
<1>4. [moved EXCEPT !.invoice = i] =
        [no |-> moved.no, parent |-> moved.parent, current |-> moved.current,
         status |-> moved.status, invoice |-> i]
  BY <1>3, RowInvoiced
<1> QED BY <1>1, <1>2, <1>4

LEMMA RowTyped ==
    ASSUME NEW row \in QuoteRow
    PROVE  /\ row.no \in 1..MaxVersions /\ row.parent \in 0..MaxVersions
           /\ row.current \in BOOLEAN /\ row.status \in StorableStatus \cup {"converted"}
           /\ row.invoice \in 0..MaxGenerated
  BY DEF QuoteRow

LEMMA OneReplaced ==
    ASSUME NEW S, NEW s \in Seq(S), NEW v \in DOMAIN s, NEW x \in S
    PROVE  /\ [s EXCEPT ![v] = x] \in Seq(S)
           /\ Len([s EXCEPT ![v] = x]) = Len(s)
           /\ DOMAIN [s EXCEPT ![v] = x] = DOMAIN s
           /\ \A w \in DOMAIN s : [s EXCEPT ![v] = x][w] = IF w = v THEN x ELSE s[w]
  OBVIOUS

LEMMA QuoteInvInit == QuoteInit => QuoteInv
  BY QuoteBounds DEF QuoteInit, QuoteInv, QuoteTyped, VersionsAreLinear, Named, InTurn, Pending

\* A request that has ended no longer counts.
LEMMA AfterDone ==
    ASSUME QuoteTyped, NEW r \in QuoteRequests, QuoteDone(r)
    PROVE  /\ quoteRequest' \in [QuoteRequests -> {NoQuoteRequest} \cup PendingRequest]
           /\ \A q \in QuoteRequests : Pending(q)' => /\ Pending(q) /\ q # r
                                                      /\ quoteRequest'[q] = quoteRequest[q]
  BY DEF QuoteTyped, QuoteDone, Pending

LEMMA PendingHasOp ==
    ASSUME QuoteTyped, NEW r \in QuoteRequests, quoteRequest[r].op # "none"
    PROVE  /\ Pending(r) /\ quoteRequest[r] \in PendingRequest
           /\ quoteRequest[r].row \in DOMAIN quote
           /\ quoteRequest[r].op = "edit" => quoteRequest[r].to \in StorableStatus
<1>1. quoteRequest[r] # NoQuoteRequest
  BY DEF NoQuoteRequest
<1> QED BY <1>1 DEF QuoteTyped, Pending

\* With requests in turn, one that ends leaves none.
LEMMA AloneThenNone ==
    ASSUME QuoteTyped, InTurn, quotesInTurn, NEW r \in QuoteRequests, Pending(r), QuoteDone(r)
    PROVE  \A q \in QuoteRequests : ~Pending(q)'
  BY AfterDone DEF InTurn

-----------------------------------------------------------------------------
(* One lemma for each handler.                                               *)

LEMMA CreateStep ==
    ASSUME QuoteInv, NEW status \in StorableStatus, CreateQuotation(status)
    PROVE  QuoteInv'
<1>1. quote' = <<NewVersion(1, 0, status)>> /\ quote = <<>>
      /\ UNCHANGED <<generated, quoteRequest, quotesInTurn>>
  BY DEF CreateQuotation
<1>2. generated = <<>> /\ \A r \in QuoteRequests : ~Pending(r)
  BY <1>1 DEF QuoteInv, QuoteTyped
<1>3. NewVersion(1, 0, status) \in QuoteRow
  BY NewVersionTyped, QuoteBounds
<1>4. QuoteTyped'
  BY <1>1, <1>2, <1>3, QuoteBounds DEF QuoteInv, QuoteTyped, Pending
<1>5. VersionsAreLinear'
  BY <1>1 DEF VersionsAreLinear, NewVersion
<1>6. Named'
  BY <1>1, <1>2 DEF Named, NewVersion
<1>7. InTurn'
  BY <1>1, <1>2 DEF InTurn, Pending
<1> QED BY <1>4, <1>5, <1>6, <1>7 DEF QuoteInv

LEMMA ReadStep ==
    ASSUME QuoteInv, NEW r \in QuoteRequests, NEW v \in DOMAIN quote,
           NEW op \in {"edit", "move", "convert"}, NEW to \in StorableStatus \cup {"converted"},
           ReadVersion(r, v, op, to)
    PROVE  QuoteInv'
<1> DEFINE request == [op |-> op, row |-> v, to |-> to]
<1>1. quoteRequest' = [quoteRequest EXCEPT ![r] = request]
      /\ UNCHANGED <<quote, generated, quotesInTurn>>
  BY DEF ReadVersion
<1>2. StillTrue(request) /\ (op = "edit" => to \in StorableStatus)
  BY DEF ReadVersion, StillTrue
<1>3. v \in 1..MaxVersions
  BY QuoteBounds DEF QuoteInv, QuoteTyped
<1>4. request \in PendingRequest /\ request.row = v /\ request.op = op /\ request.to = to
  BY <1>3 DEF PendingRequest
<1> HIDE DEF request
<1>5. \A q \in QuoteRequests : quoteRequest'[q] = IF q = r THEN request ELSE quoteRequest[q]
  BY <1>1 DEF QuoteInv, QuoteTyped
<1>6. QuoteTyped'
  BY <1>1, <1>2, <1>4, <1>5 DEF QuoteInv, QuoteTyped, Pending
<1>7. VersionsAreLinear' /\ Named'
  BY <1>1 DEF QuoteInv, VersionsAreLinear, Named
<1>8. InTurn'
  <2> SUFFICES ASSUME quotesInTurn PROVE InTurn'
    BY <1>1 DEF InTurn
  <2>1. \A q \in QuoteRequests : ~Pending(q)
    BY DEF ReadVersion, MayRead, Pending
  <2>2. \A q \in QuoteRequests : Pending(q)' => q = r
    BY <1>5, <2>1 DEF Pending
  <2>3. StillTrue(request)'
    BY <1>1, <1>2 DEF StillTrue, EditableQuote, Movable, ConvertibleQuote, request
  <2>4. \A q \in QuoteRequests : Pending(q)' => StillTrue(quoteRequest[q])'
    BY <1>5, <2>2, <2>3 DEF StillTrue
  <2> QED BY <1>1, <2>2, <2>4 DEF QuoteInv, InTurn
<1> QED BY <1>6, <1>7, <1>8 DEF QuoteInv

\* The version a new one is made of is the last one.
LEMMA EditedIsLast ==
    ASSUME QuoteInv, NEW r \in QuoteRequests, WriteVersion(r)
    PROVE  /\ quote # <<>>
           /\ quoteRequest[r].row = Len(quote)
           /\ quoteRequest[r].to \in StorableStatus
           /\ quote' = Append([quote EXCEPT ![Len(quote)].current = FALSE],
                              NewVersion(Len(quote) + 1, Len(quote), quoteRequest[r].to))
           /\ Pending(r) /\ QuoteDone(r)
<1>1. quoteRequest[r].op = "edit"
  BY DEF WriteVersion
<1>2. /\ Pending(r) /\ quoteRequest[r].row \in DOMAIN quote
      /\ quoteRequest[r].to \in StorableStatus
  BY <1>1, PendingHasOp DEF QuoteInv
<1>3. quote[quoteRequest[r].row].no = quoteRequest[r].row
  BY <1>2 DEF QuoteInv, VersionsAreLinear
<1>4. quoteRequest[r].row + 1 \notin DOMAIN quote
  BY <1>3 DEF WriteVersion, VersionFree, QuoteInv, VersionsAreLinear
<1>5. quoteRequest[r].row = Len(quote) /\ quote # <<>>
  BY <1>2, <1>4 DEF QuoteInv, QuoteTyped
<1> QED BY <1>2, <1>3, <1>5 DEF WriteVersion

LEMMA EditStep ==
    ASSUME QuoteInv, NEW r \in QuoteRequests, WriteVersion(r)
    PROVE  QuoteInv'
<1> DEFINE n   == Len(quote)
           new == NewVersion(n + 1, n, quoteRequest[r].to)
           superseded == [quote[n] EXCEPT !.current = FALSE]
           old == [quote EXCEPT ![n] = superseded]
<1>0. UNCHANGED <<generated, quotesInTurn>> /\ Len(quote) < MaxVersions
  BY DEF WriteVersion
<1>a. quote' = Append(old, new)
  BY EditedIsLast
<1>1. /\ n \in Nat \ {0} /\ n \in DOMAIN quote /\ DOMAIN quote = 1..n
      /\ quote \in Seq(QuoteRow) /\ quote' = Append(old, new)
  BY <1>a, EditedIsLast DEF QuoteInv, QuoteTyped
<1>2. new \in QuoteRow
  <2>1. n + 1 \in 1..MaxVersions /\ n \in 0..MaxVersions
    BY <1>0, <1>1, QuoteBounds
  <2>2. quoteRequest[r].to \in StorableStatus
    BY EditedIsLast
  <2> QED BY <2>1, <2>2, NewVersionTyped
<1>3. /\ new.no = n + 1 /\ new.parent = n /\ new.current = TRUE
      /\ new.invoice = 0
  BY DEF NewVersion
<1>4. quote[n] \in QuoteRow
  BY <1>1
<1>5. superseded = [no |-> quote[n].no, parent |-> quote[n].parent, current |-> FALSE,
                    status |-> quote[n].status, invoice |-> quote[n].invoice]
  BY <1>4, RowCurrent
<1>6. superseded \in QuoteRow
  BY <1>4, <1>5, RowTyped DEF QuoteRow
<1> HIDE DEF new, superseded
<1>7. /\ old \in Seq(QuoteRow) /\ Len(old) = n
      /\ \A v \in DOMAIN quote : old[v] = IF v = n THEN superseded ELSE quote[v]
  BY <1>1, <1>6, OneReplaced
<1> HIDE DEF old, n
<1>8. /\ quote' \in Seq(QuoteRow) /\ Len(quote') = n + 1 /\ DOMAIN quote' = 1..(n + 1)
      /\ quote'[n + 1] = new /\ \A v \in 1..n : quote'[v] = old[v]
  BY <1>1, <1>2, <1>7
<1>9. \A v \in 1..n : /\ quote'[v].no = quote[v].no /\ quote'[v].parent = quote[v].parent
                      /\ quote'[v].invoice = quote[v].invoice
                      /\ quote'[v].current = IF v = n THEN FALSE ELSE quote[v].current
  <2> SUFFICES ASSUME NEW v \in 1..n
               PROVE  /\ quote'[v].no = quote[v].no /\ quote'[v].parent = quote[v].parent
                      /\ quote'[v].invoice = quote[v].invoice
                      /\ quote'[v].current = IF v = n THEN FALSE ELSE quote[v].current
    OBVIOUS
  <2>1. quote'[v] = IF v = n THEN superseded ELSE quote[v]
    BY <1>1, <1>7, <1>8
  <2>2. /\ superseded.no = quote[n].no /\ superseded.parent = quote[n].parent
        /\ superseded.invoice = quote[n].invoice /\ superseded.current = FALSE
    BY <1>5
  <2> QED BY <2>1, <2>2
<1>10. QuoteTyped'
  <2>1. \A q \in QuoteRequests :
            Pending(q)' => /\ quoteRequest'[q].row \in DOMAIN quote'
                           /\ quoteRequest'[q].op = "edit" => quoteRequest'[q].to \in StorableStatus
    BY <1>1, <1>8, EditedIsLast, AfterDone DEF QuoteInv, QuoteTyped
  <2>2. quoteRequest' \in [QuoteRequests -> {NoQuoteRequest} \cup PendingRequest]
    BY EditedIsLast, AfterDone DEF QuoteInv
  <2>3. n + 1 <= MaxVersions
    BY <1>0, <1>1, QuoteBounds DEF n
  <2>4. \A i \in DOMAIN generated' : generated'[i] \in DOMAIN quote'
    BY <1>0, <1>1, <1>8 DEF QuoteInv, QuoteTyped
  <2> QED BY <1>0, <1>8, <2>1, <2>2, <2>3, <2>4 DEF QuoteInv, QuoteTyped
<1>11. VersionsAreLinear'
  <2> SUFFICES ASSUME NEW v \in 1..(n + 1)
               PROVE  /\ quote'[v].no = v /\ quote'[v].parent = v - 1
                      /\ quote'[v].current <=> v = n + 1
    BY <1>8 DEF VersionsAreLinear
  <2>1. CASE v = n + 1
    <3>1. quote'[v] = new /\ v - 1 = n
      BY <1>1, <1>8, <2>1
    <3> QED BY <1>3, <2>1, <3>1
  <2>2. CASE v \in 1..n
    <3>1. /\ quote[v].no = v /\ quote[v].parent = v - 1
          /\ quote[v].current <=> v = n
      BY <1>1, <2>2 DEF QuoteInv, VersionsAreLinear, n
    <3>2. ~quote'[v].current
      BY <1>9, <2>2, <3>1
    <3>3. v # n + 1
      BY <1>1, <2>2
    <3>4. quote'[v].no = v /\ quote'[v].parent = v - 1
      BY <1>9, <2>2, <3>1
    <3> QED BY <3>2, <3>3, <3>4
  <2>3. v = n + 1 \/ v \in 1..n
    BY <1>1
  <2> QED BY <2>1, <2>2, <2>3
<1>12. Named'
  <2>1. \A i \in DOMAIN generated' : quote'[generated'[i]].invoice >= i
    BY <1>0, <1>1, <1>9 DEF QuoteInv, QuoteTyped, Named
  <2>2. ASSUME NEW v \in 1..(n + 1), quote'[v].invoice # 0
        PROVE  quote'[v].invoice \in DOMAIN generated' /\ generated'[quote'[v].invoice] = v
    <3>1. v \in 1..n
      BY <1>1, <1>3, <1>8, <2>2
    <3> QED BY <1>0, <1>1, <1>9, <2>2, <3>1 DEF QuoteInv, Named
  <2> QED BY <1>8, <2>1, <2>2 DEF Named
<1>13. InTurn'
  <2> SUFFICES ASSUME quotesInTurn PROVE InTurn'
    BY <1>0 DEF InTurn
  <2>1. \A q \in QuoteRequests : ~Pending(q)'
    BY EditedIsLast, AloneThenNone DEF QuoteInv
  <2>2. quote[n].status = "draft"
    BY EditedIsLast, PendingHasOp DEF QuoteInv, InTurn, StillTrue, EditableQuote, WriteVersion, n
  <2>3. generated = <<>>
    BY <2>2 DEF QuoteInv, InTurn, n
  <2> QED BY <1>0, <2>1, <2>3 DEF InTurn
<1> QED BY <1>10, <1>11, <1>12, <1>13 DEF QuoteInv

LEMMA MoveStep ==
    ASSUME QuoteInv, NEW r \in QuoteRequests, WriteMove(r)
    PROVE  QuoteInv'
<1> DEFINE v == quoteRequest[r].row
<1>0. UNCHANGED <<generated, quotesInTurn>> /\ QuoteDone(r) /\ quoteRequest[r].op = "move"
  BY DEF WriteMove
<1>1. Pending(r) /\ quoteRequest[r] \in PendingRequest /\ v \in DOMAIN quote
  BY <1>0, PendingHasOp DEF QuoteInv
<1> DEFINE moved == [quote[v] EXCEPT !.status = quoteRequest[r].to]
<1>a. quote \in Seq(QuoteRow) /\ quote[v] \in QuoteRow
  BY <1>1 DEF QuoteInv, QuoteTyped
<1>b. moved = [no |-> quote[v].no, parent |-> quote[v].parent, current |-> quote[v].current,
               status |-> quoteRequest[r].to, invoice |-> quote[v].invoice]
  BY <1>a, RowMoved
<1>c. moved \in QuoteRow /\ quote \in Seq(QuoteRow) /\ v \in DOMAIN quote
  BY <1>1, <1>a, <1>b, RowTyped DEF QuoteRow, PendingRequest
<1>2. quote' = [quote EXCEPT ![v] = moved]
  BY DEF WriteMove
<1> HIDE DEF moved
<1>3. quote' \in Seq(QuoteRow) /\ Len(quote') = Len(quote) /\ DOMAIN quote' = DOMAIN quote
  BY <1>2, <1>c, OneReplaced
<1>4. \A w \in DOMAIN quote : /\ quote'[w].no = quote[w].no /\ quote'[w].parent = quote[w].parent
                              /\ quote'[w].current = quote[w].current
                              /\ quote'[w].invoice = quote[w].invoice
  BY <1>2, <1>b, <1>c, OneReplaced
<1> HIDE DEF v
<1>5. QuoteTyped'
  BY <1>0, <1>1, <1>3, AfterDone DEF QuoteInv, QuoteTyped
<1>6. VersionsAreLinear' /\ Named'
  BY <1>0, <1>3, <1>4, ZenonT(60) DEF QuoteInv, QuoteTyped, VersionsAreLinear, Named
<1>7. InTurn'
  <2> SUFFICES ASSUME quotesInTurn PROVE InTurn'
    BY <1>0 DEF InTurn
  <2>1. \A q \in QuoteRequests : ~Pending(q)'
    BY <1>0, <1>1, AloneThenNone DEF QuoteInv
  <2>2. quote[v].current /\ quote[v].status \in {"draft", "sent"}
    BY <1>0, <1>1 DEF QuoteInv, InTurn, StillTrue, Movable, v
  <2>3. v = Len(quote)
    BY <1>1, <2>2 DEF QuoteInv, VersionsAreLinear
  <2>4. generated = <<>>
    BY <2>2, <2>3 DEF QuoteInv, InTurn
  <2> QED BY <1>0, <2>1, <2>4 DEF InTurn
<1> QED BY <1>5, <1>6, <1>7 DEF QuoteInv

LEMMA ConvertStep ==
    ASSUME QuoteInv, NEW r \in QuoteRequests, WriteConversion(r)
    PROVE  QuoteInv'
<1> DEFINE v == quoteRequest[r].row
           n == Len(generated) + 1
<1>0. /\ UNCHANGED quotesInTurn /\ QuoteDone(r) /\ quoteRequest[r].op = "convert"
      /\ generated' = Append(generated, v) /\ Len(generated) < MaxGenerated
      /\ quote' = [quote EXCEPT ![v] = ConvertedQuote(quote[v], n)]
  BY DEF WriteConversion
<1>1. Pending(r) /\ quoteRequest[r] \in PendingRequest /\ v \in DOMAIN quote
  BY <1>0, PendingHasOp DEF QuoteInv
<1>2. /\ generated \in Seq(1..MaxVersions) /\ v \in 1..MaxVersions
      /\ n \in 1..MaxGenerated /\ quote \in Seq(QuoteRow)
  BY <1>0, <1>1, QuoteBounds DEF QuoteInv, QuoteTyped, PendingRequest
<1>a. ConvertedQuote(quote[v], n) =
        [no |-> quote[v].no, parent |-> quote[v].parent, current |-> quote[v].current,
         status |-> "converted", invoice |-> n]
  BY <1>1, <1>2, RowConverted
<1>b. ConvertedQuote(quote[v], n) \in QuoteRow
  <2>1. quote[v] \in QuoteRow
    BY <1>1, <1>2
  <2>2. n \in 0..MaxGenerated
    BY <1>2, QuoteBounds
  <2> QED BY <1>a, <2>1, <2>2, RowTyped DEF QuoteRow
<1>3. quote' \in Seq(QuoteRow) /\ Len(quote') = Len(quote) /\ DOMAIN quote' = DOMAIN quote
  BY <1>0, <1>1, <1>2, <1>b, OneReplaced
<1>4. \A w \in DOMAIN quote : /\ quote'[w].no = quote[w].no /\ quote'[w].parent = quote[w].parent
                              /\ quote'[w].current = quote[w].current
                              /\ quote'[w].invoice = IF w = v THEN n ELSE quote[w].invoice
                              /\ quote'[w].status = IF w = v THEN "converted" ELSE quote[w].status
  BY <1>0, <1>1, <1>2, <1>a, <1>b, OneReplaced
<1>5. /\ generated' \in Seq(1..MaxVersions) /\ Len(generated') = n
      /\ DOMAIN generated' = 1..n /\ DOMAIN generated = 1..(n - 1)
      /\ generated'[n] = v /\ \A i \in DOMAIN generated : generated'[i] = generated[i]
  BY <1>0, <1>2
<1> HIDE DEF v, n
<1>6. QuoteTyped'
  <2>1. \A i \in DOMAIN generated' : generated'[i] \in DOMAIN quote'
    BY <1>1, <1>2, <1>3, <1>5 DEF QuoteInv, QuoteTyped
  <2>2. /\ quoteRequest' \in [QuoteRequests -> {NoQuoteRequest} \cup PendingRequest]
        /\ \A q \in QuoteRequests :
              Pending(q)' => Pending(q) /\ quoteRequest'[q] = quoteRequest[q]
    BY <1>0, AfterDone DEF QuoteInv
  <2>3. Len(quote') <= MaxVersions /\ Len(generated') <= MaxGenerated /\ quotesInTurn' \in BOOLEAN
    BY <1>0, <1>2, <1>3, <1>5 DEF QuoteInv, QuoteTyped
  <2>4. \A q \in QuoteRequests :
            Pending(q)' => /\ quoteRequest'[q].row \in DOMAIN quote'
                           /\ quoteRequest'[q].op = "edit" => quoteRequest'[q].to \in StorableStatus
    BY <1>3, <2>2 DEF QuoteInv, QuoteTyped
  <2> QED BY <1>3, <1>5, <2>1, <2>2, <2>3, <2>4 DEF QuoteTyped
<1>7. VersionsAreLinear'
  BY <1>3, <1>4 DEF QuoteInv, VersionsAreLinear
<1>8. Named'
  <2>1. \A i \in DOMAIN generated : /\ quote[generated[i]].invoice >= i
                                    /\ generated[i] \in DOMAIN quote /\ i <= n
    BY <1>2, <1>5 DEF QuoteInv, QuoteTyped, Named
  <2>2. \A i \in DOMAIN generated' : quote'[generated'[i]].invoice >= i
    BY <1>1, <1>2, <1>4, <1>5, <2>1
  <2>3. \A w \in DOMAIN quote' : quote'[w].invoice # 0 => /\ quote'[w].invoice \in DOMAIN generated'
                                                          /\ generated'[quote'[w].invoice] = w
    BY <1>2, <1>3, <1>4, <1>5 DEF QuoteInv, Named
  <2> QED BY <2>2, <2>3 DEF Named
<1>9. InTurn'
  <2> SUFFICES ASSUME quotesInTurn PROVE InTurn'
    BY <1>0 DEF InTurn
  <2>1. \A q \in QuoteRequests : ~Pending(q)'
    BY <1>0, <1>1, AloneThenNone DEF QuoteInv
  <2>2. quote[v].current /\ quote[v].status # "converted"
    BY <1>0, <1>1 DEF QuoteInv, InTurn, StillTrue, ConvertibleQuote, v
  <2>3. v = Len(quote)
    BY <1>1, <2>2 DEF QuoteInv, VersionsAreLinear
  <2>4. generated = <<>>
    BY <2>2, <2>3 DEF QuoteInv, InTurn
  <2>5. Len(generated') = 1 /\ quote'[Len(quote')].status = "converted"
    BY <1>1, <1>3, <1>4, <1>5, <2>3, <2>4 DEF n
  <2> QED BY <2>1, <2>5 DEF InTurn
<1> QED BY <1>6, <1>7, <1>8, <1>9 DEF QuoteInv

LEMMA FailStep ==
    ASSUME QuoteInv, NEW r \in QuoteRequests, FailQuoteRequest(r)
    PROVE  QuoteInv'
<1>0. UNCHANGED <<quote, generated, quotesInTurn>> /\ QuoteDone(r) /\ Pending(r)
  BY DEF FailQuoteRequest, Pending
<1>1. QuoteTyped'
  BY <1>0, AfterDone DEF QuoteInv, QuoteTyped
<1>2. VersionsAreLinear' /\ Named'
  BY <1>0 DEF QuoteInv, VersionsAreLinear, Named
<1>3. InTurn'
  <2> SUFFICES ASSUME quotesInTurn PROVE InTurn'
    BY <1>0 DEF InTurn
  <2>1. \A q \in QuoteRequests : ~Pending(q)'
    BY <1>0, AloneThenNone DEF QuoteInv
  <2> QED BY <1>0, <2>1 DEF QuoteInv, InTurn
<1> QED BY <1>1, <1>2, <1>3 DEF QuoteInv

-----------------------------------------------------------------------------
LEMMA QuoteInvStep == QuoteInv /\ [QuoteNext]_quoteVars => QuoteInv'
<1> SUFFICES ASSUME QuoteInv, [QuoteNext]_quoteVars PROVE QuoteInv'
  OBVIOUS
<1>1. CASE UNCHANGED quoteVars
  BY <1>1 DEF quoteVars, QuoteInv, QuoteTyped, VersionsAreLinear, Named, InTurn, Pending,
              StillTrue, EditableQuote, Movable, ConvertibleQuote
<1>2. CASE \E status \in StorableStatus : CreateQuotation(status)
  BY <1>2, CreateStep
<1>3. CASE \E r \in QuoteRequests, v \in DOMAIN quote, op \in {"edit", "move", "convert"},
              to \in StorableStatus \cup {"converted"} : ReadVersion(r, v, op, to)
  BY <1>3, ReadStep
<1>4. CASE \E r \in QuoteRequests : WriteVersion(r)
  BY <1>4, EditStep
<1>5. CASE \E r \in QuoteRequests : WriteMove(r)
  BY <1>5, MoveStep
<1>6. CASE \E r \in QuoteRequests : WriteConversion(r)
  BY <1>6, ConvertStep
<1>7. CASE \E r \in QuoteRequests : FailQuoteRequest(r)
  BY <1>7, FailStep
<1> QED BY <1>1, <1>2, <1>3, <1>4, <1>5, <1>6, <1>7 DEF QuoteNext

LEMMA QuoteInvSuffices == QuoteInv => QuotesAgree
<1> SUFFICES ASSUME QuoteInv PROVE QuotesAgree
  OBVIOUS
<1>1. \A r \in QuoteRequests :
          quoteRequest[r].op # "none" => quoteRequest[r].row \in DOMAIN quote
  BY PendingHasOp DEF QuoteInv
<1>2. QuoteTypeOK
  BY <1>1 DEF QuoteInv, QuoteTyped, QuoteTypeOK
<1>3. ConversionsAreTraceable
  BY DEF QuoteInv, Named, ConversionsAreTraceable
<1>4. QuotedOnceBilledOnce
  BY DEF QuoteInv, QuoteTyped, InTurn, QuotedOnceBilledOnce
<1> QED BY <1>2, <1>3, <1>4 DEF QuoteInv, QuotesAgree

-----------------------------------------------------------------------------
Answered == /\ quotesInTurn /\ quote # <<>>
            /\ quote[Len(quote)].status \in {"rejected", "expired", "converted"}

LEMMA AnsweredStep ==
    ASSUME QuoteInv, Answered, [QuoteNext]_quoteVars
    PROVE  UNCHANGED <<quote, generated>>
<1>0. quote \in Seq(QuoteRow) /\ Len(quote) \in DOMAIN quote
  BY DEF QuoteInv, QuoteTyped, Answered
<1>1. ASSUME NEW r \in QuoteRequests, Pending(r),
             quoteRequest[r].op \in {"edit", "move", "convert"}
      PROVE  FALSE
  <2>1. quoteRequest[r].row \in DOMAIN quote /\ StillTrue(quoteRequest[r])
    BY <1>1 DEF QuoteInv, QuoteTyped, InTurn, Answered
  <2>2. quote[quoteRequest[r].row].current
        /\ quote[quoteRequest[r].row].status \notin {"rejected", "expired", "converted"}
    BY <1>1, <2>1 DEF StillTrue, EditableQuote, Movable, ConvertibleQuote
  <2>3. quoteRequest[r].row = Len(quote)
    BY <2>1, <2>2 DEF QuoteInv, VersionsAreLinear
  <2> QED BY <2>2, <2>3 DEF Answered
<1>2. \A r \in QuoteRequests : ~(WriteVersion(r) \/ WriteMove(r) \/ WriteConversion(r))
  BY <1>1, PendingHasOp DEF QuoteInv, WriteVersion, WriteMove, WriteConversion
<1> QED BY <1>2 DEF QuoteNext, quoteVars, CreateQuotation, ReadVersion, FailQuoteRequest, Answered

(* However many requests edit, move and convert a quotation at the same time,   *)
(* its versions form one chain and its invoices are traceable; one request      *)
(* after the other, it is billed once and stays as it was answered              *)
(* (create_quotation_version, create_invoice_from_quotation,                    *)
(* get_quotation_action_state).                                                 *)
THEOREM QuotationsSound == QuoteSpec => QuotationsAreSound
<1>1. QuoteSpec => []QuoteInv
  BY QuoteInvInit, QuoteInvStep, PTL DEF QuoteSpec
<1>2. QuoteInv /\ [QuoteNext]_quoteVars =>
        [quotesInTurn /\ quote # <<>> /\ quote[Len(quote)].status \in {"rejected", "expired", "converted"}
            => UNCHANGED <<quote, generated>>]_quoteVars
  BY AnsweredStep DEF Answered
<1> QED
  BY <1>1, <1>2, QuoteInvSuffices, PTL DEF QuoteSpec, AnsweredQuotesStay, QuotationsAreSound

-----------------------------------------------------------------------------
(* The inductive invariant of sheets: references run on and invoices bill what   *)
(* the sheet shows, and what a request has read fits the sheet it will write.      *)

SheetRow == [ref : 0..Cardinality(Sheets), status : {"none", "open", "invoiced"},
             invoice : SUBSET SheetInvoices]

SheetRead == {NoSheetRequest}
             \cup [op : {"create"}, ref : Nat]
             \cup [op : {"edit", "add", "delete"}, sheet : Sheets, row : SheetRow]
             \cup [op : {"change"}, sheet : Sheets, charge : Charges]
             \cup [op : {"lines"}, invoice : SheetInvoices]

\* A request that is under way on a sheet.
OfSheet(r) == sheetRequest[r].op \in {"edit", "add", "delete", "change"}

\* A sheet keeps its reference for good, so that an old copy of the row, written
\* back, opens the sheet again and changes nothing else.
ReadsFit ==
    \A r \in SheetRequests :
        /\ sheetRequest[r].op = "create" => sheetRequest[r].ref \in 1..(Cardinality(Made) + 1)
        /\ OfSheet(r) => sheetRequest[r].sheet \in Made
        /\ sheetRequest[r].op = "edit" =>
              sheetRequest[r].row = [ref |-> sheet[sheetRequest[r].sheet].ref,
                                     status |-> "open", invoice |-> {}]

\* One invoice for an invoiced sheet, none for any other.
InvoicesNamed ==
    \A s \in Sheets :
        /\ sheet[s].status # "invoiced" => sheet[s].invoice = {}
        /\ sheet[s].status = "invoiced" =>
              \E i \in SheetInvoices : sheet[s].invoice = {i} /\ sheetDraft[i] # "none"

\* Requests in turn: one at a time, on an open sheet which is as it was read.
SheetsTakeTurns ==
    sheetsInTurn =>
        /\ \A r, q \in SheetRequests :
              r = q \/ sheetRequest[r] = NoSheetRequest \/ sheetRequest[q] = NoSheetRequest
        /\ \A r \in SheetRequests : OfSheet(r) => SheetOpen(sheetRequest[r].sheet)
        /\ \A r \in SheetRequests : sheetRequest[r].op = "change" =>
              charge[sheetRequest[r].charge] = sheetRequest[r].sheet
        /\ \A i \in SheetInvoices : sheetDraft[i] # "none" =>
              \E s \in Sheets : i \in sheet[s].invoice

\* In turn, an invoice was made of the charges its sheet shows, and of no other's.
MadeAsShown ==
    sheetsInTurn =>
       /\ \A s \in Made : \A i \in sheet[s].invoice : sheetInvoice[i] = OnSheet(s)
       /\ \A i, j \in SheetInvoices : i # j => sheetInvoice[i] \cap sheetInvoice[j] = {}

\* The lines of an invoice are those it was made with, or some of them.
DraftsFit ==
    /\ sheetInvoice \in [SheetInvoices -> SUBSET Charges]
    /\ sheetLines \in [SheetInvoices -> SUBSET Charges]
    /\ sheetDraft \in [SheetInvoices -> {"none", "draft", "issued"}]
    /\ rewritten \subseteq SheetInvoices
    /\ \A i \in SheetInvoices :
          /\ sheetLines[i] \subseteq sheetInvoice[i]
          /\ i \notin rewritten => sheetLines[i] = sheetInvoice[i]
          /\ sheetDraft[i] = "none" => sheetInvoice[i] = {} /\ i \notin rewritten
    /\ \A r \in SheetRequests : sheetRequest[r].op = "lines" =>
          sheetDraft[sheetRequest[r].invoice] # "none"

SheetInv ==
    /\ SheetTypeOK /\ sheetRequest \in [SheetRequests -> SheetRead]
    /\ ReferencesRunOn /\ SheetsNameInvoices /\ MadeAsShown
    /\ ReadsFit /\ InvoicesNamed /\ SheetsTakeTurns /\ DraftsFit

LEMMA SheetsFinite ==
    /\ Cardinality(Sheets) \in Nat
    /\ \A S \in SUBSET Sheets : IsFiniteSet(S) /\ Cardinality(S) \in 0..Cardinality(Sheets)
<1>1. Cardinality(Sheets) \in Nat
  BY SheetIds, FS_CardinalityType
<1>2. ASSUME NEW S \in SUBSET Sheets
      PROVE  IsFiniteSet(S) /\ Cardinality(S) \in 0..Cardinality(Sheets)
  <2>1. IsFiniteSet(S) /\ Cardinality(S) <= Cardinality(Sheets)
    BY SheetIds, FS_Subset
  <2> QED BY <1>1, <2>1, FS_CardinalityType
<1> QED BY <1>1, <1>2

LEMMA ReadShape ==
    ASSUME NEW x \in SheetRead
    PROVE  /\ x.op \in {"none", "create", "edit", "add", "delete", "change", "lines"}
           /\ x.op = "none" <=> x = NoSheetRequest
           /\ x.op = "create" => x.ref \in Nat
           /\ x.op \in {"edit", "add", "delete"} => x.sheet \in Sheets /\ x.row \in SheetRow
           /\ x.op = "change" => x.sheet \in Sheets /\ x.charge \in Charges
           /\ x.op = "lines" => x.invoice \in SheetInvoices
  BY DEF SheetRead, NoSheetRequest

LEMMA SheetInvInit == SheetInit => SheetInv
<1> SUFFICES ASSUME SheetInit PROVE SheetInv
  OBVIOUS
<1>1. \A s \in Sheets : sheet[s] = NoSheet
  BY DEF SheetInit
<1>2. Made = {} /\ References = {}
  BY <1>1 DEF Made, References, NoSheet
<1>3. SheetTypeOK /\ sheetRequest \in [SheetRequests -> SheetRead]
  BY SheetsFinite DEF SheetInit, SheetTypeOK, NoSheet, NoSheetRequest, SheetRead
<1>4. ReferencesRunOn
  BY <1>2, FS_EmptySet DEF ReferencesRunOn
<1>5. ReadsFit /\ InvoicesNamed /\ SheetsTakeTurns
  BY <1>1 DEF SheetInit, ReadsFit, OfSheet, InvoicesNamed, SheetsTakeTurns, NoSheet, NoSheetRequest
<1>6. SheetsNameInvoices /\ MadeAsShown
  BY <1>2 DEF SheetInit, SheetsNameInvoices, MadeAsShown
<1>7. DraftsFit
  BY DEF SheetInit, DraftsFit, NoSheetRequest
<1> QED BY <1>3, <1>4, <1>5, <1>6, <1>7 DEF SheetInv

\* The next reference is one past those given, or a duplicate past the widest.
LEMMA NextFits ==
    ASSUME SheetInv
    PROVE  NextReference \in 1..(Cardinality(Made) + 1)
<1> DEFINE k == Cardinality(Made)
           S == {0} \cup { n \in References : n <= Widest }
           m == IF k <= Widest THEN k ELSE Widest
<1>1. k \in Nat /\ Widest \in Nat /\ References = 1..k
  BY SheetsFinite, SheetIds DEF SheetInv, ReferencesRunOn, Made
<1> HIDE DEF k
<1>2. m \in S /\ \A n \in S : m >= n /\ n \in 0..k
  BY <1>1
<1> HIDE DEF S, m
<1>3. Max(S) \in S
  BY <1>2 DEF Max
<1>4. Max(S) \in 0..k
  BY <1>2, <1>3
<1>5. NextReference = Max(S) + 1
  BY DEF NextReference, S
<1> QED BY <1>1, <1>4, <1>5 DEF k

\* What a step leaves of the requests: one is done, or has read something.
LEMMA RequestsAfter ==
    ASSUME SheetInv, NEW r \in SheetRequests, NEW what \in SheetRead,
           sheetRequest' = [sheetRequest EXCEPT ![r] = what]
    PROVE  /\ sheetRequest' \in [SheetRequests -> SheetRead]
           /\ sheetRequest'[r] = what
           /\ \A q \in SheetRequests : q # r => sheetRequest'[q] = sheetRequest[q]
  BY DEF SheetInv

LEMMA NothingRead ==
    ASSUME SheetInv
    PROVE  NoSheetRequest \in SheetRead /\ NoSheetRequest.op = "none"
  BY DEF SheetRead, NoSheetRequest

\* In turn, a request that is under way is the only one.
LEMMA OnlyOne ==
    ASSUME SheetInv, sheetsInTurn, NEW r \in SheetRequests, sheetRequest[r] # NoSheetRequest
    PROVE  \A q \in SheetRequests : q # r => sheetRequest[q] = NoSheetRequest
  BY DEF SheetInv, SheetsTakeTurns

\* Drafts that stay, with what requests have read of them.
LEMMA DraftsStay ==
    ASSUME DraftsFit, UNCHANGED <<sheetInvoice, sheetLines, sheetDraft, rewritten>>,
           \A q \in SheetRequests : sheetRequest'[q].op = "lines" =>
               sheetRequest'[q] = sheetRequest[q] \/ sheetDraft[sheetRequest'[q].invoice] # "none"
    PROVE  DraftsFit'
<1>1. \A q \in SheetRequests : sheetRequest'[q].op = "lines" =>
         sheetDraft'[sheetRequest'[q].invoice] # "none"
  BY DEF DraftsFit
<1> QED BY <1>1 DEF DraftsFit

LEMMA TypesAfter ==
    ASSUME sheetRequest' \in [SheetRequests -> SheetRead],
           sheet' \in [Sheets -> SheetRow], charge' \in [Charges -> Sheets \cup {"none"}],
           DraftsFit', sheetsInTurn' \in BOOLEAN
    PROVE  SheetTypeOK'
<1>1. \A r \in SheetRequests :
         sheetRequest'[r].op \in {"none", "create", "edit", "add", "delete", "change", "lines"}
  BY ReadShape
<1> QED BY <1>1 DEF SheetTypeOK, SheetRow, DraftsFit

LEMMA ReadingStep ==
    ASSUME SheetInv, NEW r \in SheetRequests, NEW what \in SheetRead, SheetReads(r, what),
           what.op = "create" => what.ref \in 1..(Cardinality(Made) + 1),
           what.op \in {"edit", "add", "delete", "change"} => SheetOpen(what.sheet),
           what.op = "edit" =>
               what.row = [ref |-> sheet[what.sheet].ref, status |-> "open", invoice |-> {}],
           what.op = "change" => charge[what.charge] = what.sheet,
           what.op = "lines" => sheetDraft[what.invoice] # "none"
    PROVE  SheetInv'
<1>0. /\ SheetTypeOK /\ ReferencesRunOn /\ SheetsNameInvoices /\ MadeAsShown
      /\ ReadsFit /\ InvoicesNamed /\ SheetsTakeTurns /\ sheetRequest \in [SheetRequests -> SheetRead]
      /\ DraftsFit
  BY DEF SheetInv
<1>1. /\ UNCHANGED <<sheet, charge, sheetInvoice, sheetLines, sheetDraft, rewritten, sheetsInTurn>>
      /\ sheetRequest' = [sheetRequest EXCEPT ![r] = what]
      /\ sheetsInTurn => \A q \in SheetRequests : sheetRequest[q] = NoSheetRequest
  BY DEF SheetReads, SheetAlone, draftVars
<1>2. /\ sheetRequest' \in [SheetRequests -> SheetRead] /\ sheetRequest'[r] = what
      /\ \A q \in SheetRequests : q # r => sheetRequest'[q] = sheetRequest[q]
  BY <1>1, RequestsAfter
<1>d. DraftsFit'
  BY <1>0, <1>1, <1>2, DraftsStay
<1>3. SheetTypeOK'
  BY <1>0, <1>1, <1>2, <1>d, TypesAfter DEF SheetTypeOK, SheetRow
<1>4. Made' = Made /\ References' = References
  BY <1>1 DEF Made, References
<1>5. what.op \in {"edit", "add", "delete", "change"} => what.sheet \in Made
  <2>1. what.op \in {"edit", "add", "delete", "change"} => what.sheet \in Sheets
    BY ReadShape
  <2> QED BY <2>1 DEF SheetOpen, Made
<1>6. ReferencesRunOn' /\ SheetsNameInvoices' /\ MadeAsShown' /\ InvoicesNamed'
  BY <1>0, <1>1, <1>4 DEF ReferencesRunOn, SheetsNameInvoices, MadeAsShown, InvoicesNamed, OnSheet
<1>7. ReadsFit'
  <2> SUFFICES ASSUME NEW q \in SheetRequests
               PROVE  /\ sheetRequest'[q].op = "create" =>
                            sheetRequest'[q].ref \in 1..(Cardinality(Made) + 1)
                      /\ OfSheet(q)' => sheetRequest'[q].sheet \in Made
                      /\ sheetRequest'[q].op = "edit" =>
                            sheetRequest'[q].row = [ref |-> sheet[sheetRequest'[q].sheet].ref,
                                                    status |-> "open", invoice |-> {}]
    BY <1>1, <1>4 DEF ReadsFit
  <2>1. CASE q = r
    BY <1>2, <1>5, <2>1 DEF OfSheet
  <2>2. CASE q # r
    BY <1>0, <1>2, <2>2 DEF ReadsFit, OfSheet
  <2> QED BY <2>1, <2>2
<1>8. SheetsTakeTurns'
  <2> SUFFICES ASSUME sheetsInTurn PROVE SheetsTakeTurns'
    BY <1>1 DEF SheetsTakeTurns
  <2>1. \A q \in SheetRequests : q # r => sheetRequest'[q] = NoSheetRequest /\ sheetRequest'[q].op = "none"
    BY <1>1, <1>2, NothingRead
  <2>2. \A p, q \in SheetRequests :
           p = q \/ sheetRequest'[p] = NoSheetRequest \/ sheetRequest'[q] = NoSheetRequest
    BY <2>1
  <2>3. \A q \in SheetRequests : OfSheet(q)' => SheetOpen(sheetRequest'[q].sheet)
    BY <1>2, <2>1 DEF OfSheet
  <2>4. \A q \in SheetRequests : sheetRequest'[q].op = "change" =>
           charge[sheetRequest'[q].charge] = sheetRequest'[q].sheet
    BY <1>2, <2>1
  <2> QED BY <1>0, <1>1, <2>2, <2>3, <2>4 DEF SheetsTakeTurns, SheetOpen
<1> QED BY <1>2, <1>3, <1>6, <1>7, <1>8, <1>d DEF SheetInv

\* A request that ends leaves the others as they were.
LEMMA DoneKeeps ==
    ASSUME SheetInv, NEW r \in SheetRequests, SheetDone(r)
    PROVE  /\ sheetRequest' \in [SheetRequests -> SheetRead]
           /\ sheetRequest'[r] = NoSheetRequest /\ sheetRequest'[r].op = "none"
           /\ \A q \in SheetRequests : q # r => sheetRequest'[q] = sheetRequest[q]
           /\ sheetsInTurn /\ sheetRequest[r] # NoSheetRequest =>
                \A q \in SheetRequests : sheetRequest'[q] = NoSheetRequest
  BY RequestsAfter, NothingRead, OnlyOne DEF SheetDone

\* What remains to be shown when a request ends and the sheets stay.
LEMMA EndingStep ==
    ASSUME SheetInv, NEW r \in SheetRequests, sheetRequest[r] # NoSheetRequest, SheetDone(r),
           UNCHANGED <<sheet, sheetInvoice, sheetLines, sheetDraft, rewritten, sheetsInTurn>>,
           charge' \in [Charges -> Sheets \cup {"none"}],
           sheetsInTurn => \A s \in Sheets : OnSheet(s)' = OnSheet(s) \/ SheetOpen(s)
    PROVE  SheetInv'
<1>0. /\ SheetTypeOK /\ ReferencesRunOn /\ SheetsNameInvoices /\ MadeAsShown
      /\ ReadsFit /\ InvoicesNamed /\ SheetsTakeTurns /\ DraftsFit
  BY DEF SheetInv
<1>1. /\ sheetRequest' \in [SheetRequests -> SheetRead]
      /\ sheetRequest'[r] = NoSheetRequest /\ sheetRequest'[r].op = "none"
      /\ \A q \in SheetRequests : q # r => sheetRequest'[q] = sheetRequest[q]
      /\ sheetsInTurn => \A q \in SheetRequests : sheetRequest'[q] = NoSheetRequest
  BY DoneKeeps
<1>d. DraftsFit'
  <2>1. \A q \in SheetRequests : sheetRequest'[q] = sheetRequest[q] \/ sheetRequest'[q].op = "none"
    BY <1>1
  <2> QED BY <1>0, <2>1, DraftsStay
<1>2. SheetTypeOK'
  BY <1>0, <1>1, <1>d, TypesAfter DEF SheetTypeOK, SheetRow
<1>3. Made' = Made /\ References' = References
  BY DEF Made, References
<1>4. ReferencesRunOn' /\ SheetsNameInvoices' /\ InvoicesNamed'
  BY <1>0, <1>3 DEF ReferencesRunOn, SheetsNameInvoices, InvoicesNamed
<1>5. ReadsFit'
  <2>1. \A q \in SheetRequests : sheetRequest'[q] = sheetRequest[q] \/ sheetRequest'[q].op = "none"
    BY <1>1
  <2> QED BY <1>0, <1>3, <2>1 DEF ReadsFit, OfSheet
<1>6. SheetsTakeTurns'
  <2>1. sheetsInTurn => \A q \in SheetRequests :
           sheetRequest'[q] = NoSheetRequest /\ sheetRequest'[q].op = "none"
    BY <1>1, NothingRead
  <2> QED BY <1>0, <2>1 DEF SheetsTakeTurns, OfSheet
<1>7. MadeAsShown'
  <2> SUFFICES ASSUME sheetsInTurn, NEW s \in Made, NEW i \in sheet[s].invoice
               PROVE  sheetInvoice[i] = OnSheet(s)'
    BY <1>0, <1>3 DEF MadeAsShown
  <2>1. s \in Sheets /\ ~SheetOpen(s)
    BY <1>0 DEF Made, SheetOpen, SheetsNameInvoices
  <2> QED BY <1>0, <2>1 DEF MadeAsShown
<1> QED BY <1>1, <1>2, <1>4, <1>5, <1>6, <1>7, <1>d DEF SheetInv

LEMMA ReadsStep ==
    ASSUME SheetInv, NEW r \in SheetRequests,
           \/ ReadReference(r)
           \/ \E s \in Sheets, op \in {"edit", "add", "delete"} : ReadOpenSheet(r, s, op)
           \/ \E s \in Sheets, c \in Charges : ReadCharge(r, s, c)
    PROVE  SheetInv'
<1>1. CASE ReadReference(r)
  <2> DEFINE what == [op |-> "create", ref |-> NextReference]
  <2>1. NextReference \in 1..(Cardinality(Made) + 1) /\ Cardinality(Made) \in Nat
    BY NextFits, SheetsFinite DEF Made
  <2>2. /\ what \in SheetRead /\ what.op = "create" /\ what.ref \in 1..(Cardinality(Made) + 1)
        /\ SheetReads(r, what)
    BY <1>1, <2>1 DEF SheetRead, ReadReference
  <2> HIDE DEF what
  <2> QED BY <2>2, ReadingStep
<1>2. ASSUME NEW s \in Sheets, NEW op \in {"edit", "add", "delete"}, ReadOpenSheet(r, s, op)
      PROVE  SheetInv'
  <2> DEFINE what == [op |-> op, sheet |-> s, row |-> sheet[s]]
  <2>1. sheet[s] \in SheetRow
    BY DEF SheetInv, SheetTypeOK, SheetRow
  <2>2. what \in SheetRead /\ what.op = op /\ what.sheet = s /\ what.row = sheet[s]
    BY <2>1 DEF SheetRead
  <2>3. SheetReads(r, what) /\ SheetOpen(s)
    BY <1>2 DEF ReadOpenSheet
  <2>4. sheet[s] = [ref |-> sheet[s].ref, status |-> "open", invoice |-> {}]
    <3>1. sheet[s].status = "open" /\ sheet[s].invoice = {}
      BY <2>3 DEF SheetInv, InvoicesNamed, SheetOpen
    <3> QED BY <2>1, <3>1 DEF SheetRow
  <2> HIDE DEF what
  <2> QED BY <2>2, <2>3, <2>4, ReadingStep
<1>3. ASSUME NEW s \in Sheets, NEW c \in Charges, ReadCharge(r, s, c)
      PROVE  SheetInv'
  <2> DEFINE what == [op |-> "change", sheet |-> s, charge |-> c]
  <2>1. what \in SheetRead /\ what.op = "change" /\ what.sheet = s /\ what.charge = c
    BY DEF SheetRead
  <2>2. SheetReads(r, what) /\ SheetOpen(s) /\ charge[c] = s
    BY <1>3 DEF ReadCharge, OnSheet
  <2> HIDE DEF what
  <2> QED BY <2>1, <2>2, ReadingStep
<1> QED BY <1>1, <1>2, <1>3

\* One charge goes to an open sheet, or leaves one.
LEMMA ChargeMoved ==
    ASSUME SheetInv, NEW c \in Charges, NEW to \in Sheets \cup {"none"},
           charge' = [charge EXCEPT ![c] = to],
           to \in Sheets => SheetOpen(to), charge[c] \in Sheets => SheetOpen(charge[c])
    PROVE  \A s \in Sheets : OnSheet(s)' = OnSheet(s) \/ SheetOpen(s)
<1> SUFFICES ASSUME NEW s \in Sheets, ~SheetOpen(s) PROVE OnSheet(s)' = OnSheet(s)
  OBVIOUS
<1>1. charge[c] # s /\ to # s
  OBVIOUS
<1>2. \A x \in Charges : charge'[x] = IF x = c THEN to ELSE charge[x]
  BY DEF SheetInv, SheetTypeOK
<1> QED BY <1>1, <1>2 DEF OnSheet

LEMMA EndsStep ==
    ASSUME SheetInv, NEW r \in SheetRequests,
           \/ \E c \in Charges : AddCharge(r, c) \/ DeleteCharge(r, c)
           \/ ChangeCharge(r) \/ FailSheetRequest(r)
    PROVE  SheetInv'
<1>0. /\ charge \in [Charges -> Sheets \cup {"none"}] /\ sheetRequest[r] \in SheetRead
      /\ SheetsTakeTurns /\ NoSheetRequest.op = "none"
  BY NothingRead DEF SheetInv, SheetTypeOK
<1> DEFINE at == sheetRequest[r].sheet
<1>a. OfSheet(r) => at \in Sheets /\ (sheetsInTurn => SheetOpen(at)) /\ sheetRequest[r] # NoSheetRequest
  BY <1>0, ReadShape DEF SheetsTakeTurns, OfSheet
<1> HIDE DEF at
<1>b. ASSUME NEW c \in Charges, NEW to \in Sheets \cup {"none"}, charge' = [charge EXCEPT ![c] = to],
             SheetDone(r), UNCHANGED <<sheet, sheetInvoice, sheetLines, sheetDraft, rewritten, sheetsInTurn>>,
             sheetRequest[r] # NoSheetRequest,
             sheetsInTurn => (to \in Sheets => SheetOpen(to)) /\ (charge[c] \in Sheets => SheetOpen(charge[c]))
      PROVE  SheetInv'
  <2>1. charge' \in [Charges -> Sheets \cup {"none"}]
    BY <1>0, <1>b
  <2>2. sheetsInTurn => \A s \in Sheets : OnSheet(s)' = OnSheet(s) \/ SheetOpen(s)
    BY <1>b, ChargeMoved
  <2> QED BY <1>b, <2>1, <2>2, EndingStep
<1>1. ASSUME NEW c \in Charges, AddCharge(r, c) PROVE SheetInv'
  <2>1. /\ OfSheet(r) /\ charge[c] = "none" /\ charge' = [charge EXCEPT ![c] = at]
        /\ SheetDone(r) /\ UNCHANGED <<sheet, sheetInvoice, sheetLines, sheetDraft, rewritten, sheetsInTurn>>
    BY <1>1 DEF AddCharge, OfSheet, at, draftVars
  <2> QED BY <1>a, <1>b, <2>1, SheetIds
<1>2. ASSUME NEW c \in Charges, DeleteCharge(r, c) PROVE SheetInv'
  <2>1. /\ OfSheet(r) /\ charge[c] = at /\ charge' = [charge EXCEPT ![c] = "none"]
        /\ SheetDone(r) /\ UNCHANGED <<sheet, sheetInvoice, sheetLines, sheetDraft, rewritten, sheetsInTurn>>
    BY <1>2 DEF DeleteCharge, OfSheet, OnSheet, at, draftVars
  <2> QED BY <1>a, <1>b, <2>1, SheetIds
<1>3. ASSUME ChangeCharge(r) PROVE SheetInv'
  <2> DEFINE c == sheetRequest[r].charge
  <2>1. /\ OfSheet(r) /\ charge' = [charge EXCEPT ![c] = at] /\ sheetRequest[r].op = "change"
        /\ SheetDone(r) /\ UNCHANGED <<sheet, sheetInvoice, sheetLines, sheetDraft, rewritten, sheetsInTurn>>
    BY <1>3 DEF ChangeCharge, OfSheet, at, draftVars
  <2>2. c \in Charges /\ (sheetsInTurn => charge[c] = at)
    BY <1>0, <2>1, ReadShape DEF SheetsTakeTurns, at
  <2> HIDE DEF c
  <2> QED BY <1>a, <1>b, <2>1, <2>2
<1>4. ASSUME FailSheetRequest(r) PROVE SheetInv'
  <2>1. \A s \in Sheets : OnSheet(s)' = OnSheet(s)
    BY <1>4 DEF FailSheetRequest, OnSheet, draftVars
  <2> QED BY <1>0, <1>4, <2>1, EndingStep DEF FailSheetRequest, draftVars
<1> QED BY <1>1, <1>2, <1>3, <1>4

LEMMA CreateSheetStep ==
    ASSUME SheetInv, NEW r \in SheetRequests, NEW s \in Sheets, CreateSheet(r, s)
    PROVE  SheetInv'
<1> DEFINE k == Cardinality(Made)
           n == sheetRequest[r].ref
           row == [ref |-> n, status |-> "open", invoice |-> {}]
<1>0. /\ SheetTypeOK /\ ReferencesRunOn /\ SheetsNameInvoices /\ MadeAsShown
      /\ ReadsFit /\ InvoicesNamed /\ SheetsTakeTurns /\ DraftsFit
  BY DEF SheetInv
<1>1. /\ sheetRequest[r].op = "create" /\ s \notin Made /\ n \notin References
      /\ sheet' = [sheet EXCEPT ![s] = row] /\ SheetDone(r)
      /\ UNCHANGED <<charge, sheetInvoice, sheetLines, sheetDraft, rewritten, sheetsInTurn>>
  BY DEF CreateSheet, ReferenceFree, draftVars
<1>2. /\ k \in Nat /\ k + 1 <= Cardinality(Sheets) /\ Cardinality(Made \cup {s}) = k + 1
      /\ Cardinality(Sheets) \in Nat
  <2>1. IsFiniteSet(Made) /\ k \in Nat /\ Made \subseteq Sheets /\ Cardinality(Sheets) \in Nat
    BY SheetsFinite DEF Made
  <2>2. Cardinality(Made \cup {s}) = k + 1
    BY <1>1, <2>1, FS_AddElement
  <2>3. Cardinality(Made \cup {s}) \in 0..Cardinality(Sheets)
    BY <2>1, SheetsFinite
  <2> QED BY <2>1, <2>2, <2>3
<1>3. n = k + 1
  <2>1. n \in 1..(k + 1)
    BY <1>0, <1>1 DEF ReadsFit
  <2>2. n \notin 1..k
    BY <1>0, <1>1 DEF ReferencesRunOn
  <2> HIDE DEF k, n
  <2> QED BY <1>2, <2>1, <2>2
<1>4. row \in SheetRow /\ row.ref = k + 1 /\ row.status = "open" /\ row.invoice = {}
  BY <1>2, <1>3 DEF SheetRow
<1> HIDE DEF n, row
<1>5. /\ sheet' \in [Sheets -> SheetRow] /\ sheet'[s] = row
      /\ \A t \in Sheets : t # s => sheet'[t] = sheet[t]
  BY <1>0, <1>1, <1>4 DEF SheetTypeOK, SheetRow
<1>6. Made' = Made \cup {s}
  BY <1>4, <1>5 DEF Made
<1>7. References' = References \cup {k + 1}
  <2>1. \A t \in Made : t # s /\ t \in Sheets
    BY <1>1 DEF Made
  <2> QED BY <1>4, <1>5, <1>6, <2>1 DEF References
<1>8. /\ sheetRequest' \in [SheetRequests -> SheetRead]
      /\ \A q \in SheetRequests : sheetRequest'[q] = sheetRequest[q] \/ sheetRequest'[q].op = "none"
      /\ sheetsInTurn => \A q \in SheetRequests : sheetRequest'[q] = NoSheetRequest
  BY <1>1, DoneKeeps, NothingRead
<1>d. DraftsFit'
  BY <1>0, <1>1, <1>8, DraftsStay
<1>9. SheetTypeOK'
  BY <1>0, <1>1, <1>5, <1>8, <1>d, TypesAfter DEF SheetTypeOK
<1>10. ReferencesRunOn'
  <2>1. References = 1..k
    BY <1>0 DEF ReferencesRunOn
  <2> HIDE DEF k
  <2>2. References' = 1..(k + 1)
    BY <1>2, <1>7, <2>1
  <2> QED BY <1>2, <1>6, <2>2 DEF ReferencesRunOn
<1>11. InvoicesNamed'
  BY <1>0, <1>1, <1>4, <1>5 DEF InvoicesNamed
<1>12. SheetsNameInvoices'
  <2>1. \A t \in Made : t # s /\ t \in Sheets /\ sheet'[t] = sheet[t]
    BY <1>1, <1>5 DEF Made
  <2> QED BY <1>0, <1>1, <1>4, <1>5, <1>6, <2>1 DEF SheetsNameInvoices
<1>13. MadeAsShown'
  <2>1. \A t \in Made : t # s /\ t \in Sheets /\ sheet'[t] = sheet[t]
    BY <1>1, <1>5 DEF Made
  <2> QED BY <1>0, <1>1, <1>4, <1>5, <1>6, <2>1 DEF MadeAsShown, OnSheet
<1>14. ReadsFit'
  <2> SUFFICES ASSUME NEW q \in SheetRequests, sheetRequest'[q] = sheetRequest[q]
               PROVE  /\ sheetRequest[q].op = "create" => sheetRequest[q].ref \in 1..(k + 2)
                      /\ OfSheet(q) => sheetRequest[q].sheet \in Made \cup {s}
                      /\ sheetRequest[q].op = "edit" =>
                            sheetRequest[q].row = [ref |-> sheet'[sheetRequest[q].sheet].ref,
                                                   status |-> "open", invoice |-> {}]
    <3>1. (Cardinality(Made) + 1)' = k + 2
      BY <1>2, <1>6
    <3> HIDE DEF k
    <3> QED BY <1>6, <1>8, <3>1 DEF ReadsFit, OfSheet
  <2>1. sheetRequest[q].op = "create" => sheetRequest[q].ref \in 1..(k + 1)
    BY <1>0 DEF ReadsFit
  <2>2. sheetRequest[q].op = "create" => sheetRequest[q].ref \in 1..(k + 2)
    <3> HIDE DEF k
    <3> QED BY <1>2, <2>1
  <2>3. OfSheet(q) => sheetRequest[q].sheet \in Made /\ sheet'[sheetRequest[q].sheet] = sheet[sheetRequest[q].sheet]
    BY <1>0, <1>1, <1>5 DEF ReadsFit, Made
  <2> QED BY <1>0, <2>2, <2>3 DEF ReadsFit, OfSheet
<1>15. SheetsTakeTurns'
  <2>1. sheetsInTurn => \A q \in SheetRequests :
           sheetRequest'[q] = NoSheetRequest /\ sheetRequest'[q].op = "none"
    BY <1>8, NothingRead
  <2>2. \A t \in Sheets : \A i \in sheet[t].invoice : i \in sheet'[t].invoice
    <3>1. sheet[s].invoice = {}
      BY <1>0, <1>1 DEF InvoicesNamed, Made
    <3> QED BY <1>5, <3>1
  <2> QED BY <1>0, <1>1, <2>1, <2>2 DEF SheetsTakeTurns, OfSheet
<1> QED BY <1>8, <1>9, <1>10, <1>11, <1>12, <1>13, <1>14, <1>15, <1>d DEF SheetInv

LEMMA WriteSheetStep ==
    ASSUME SheetInv, NEW r \in SheetRequests, WriteSheet(r)
    PROVE  SheetInv'
<1> DEFINE s == sheetRequest[r].sheet
           row == sheetRequest[r].row
<1>0. /\ SheetTypeOK /\ ReferencesRunOn /\ SheetsNameInvoices /\ MadeAsShown
      /\ ReadsFit /\ InvoicesNamed /\ SheetsTakeTurns /\ sheet \in [Sheets -> SheetRow] /\ DraftsFit
  BY DEF SheetInv, SheetTypeOK, SheetRow
<1>1. /\ sheetRequest[r].op = "edit" /\ sheet' = [sheet EXCEPT ![s] = row] /\ SheetDone(r)
      /\ UNCHANGED <<charge, sheetInvoice, sheetLines, sheetDraft, rewritten, sheetsInTurn>> /\ sheetRequest[r] # NoSheetRequest
  BY NothingRead DEF WriteSheet, SavedSheet, draftVars
<1>2. /\ s \in Made /\ s \in Sheets /\ row \in SheetRow
      /\ row.ref = sheet[s].ref /\ row.status = "open" /\ row.invoice = {}
      /\ row = [ref |-> sheet[s].ref, status |-> "open", invoice |-> {}]
  <2>1. s \in Made /\ row = [ref |-> sheet[s].ref, status |-> "open", invoice |-> {}]
    BY <1>0, <1>1 DEF ReadsFit, OfSheet
  <2> HIDE DEF row
  <2> QED BY <1>0, <2>1 DEF Made, SheetRow
<1>3. sheetsInTurn => sheet' = sheet
  <2> SUFFICES ASSUME sheetsInTurn PROVE row = sheet[s]
    BY <1>0, <1>1, <1>2
  <2>1. sheet[s].status = "open"
    BY <1>0, <1>1 DEF SheetsTakeTurns, OfSheet, SheetOpen
  <2>2. sheet[s].invoice = {}
    BY <1>0, <1>2, <2>1 DEF InvoicesNamed
  <2> HIDE DEF s, row
  <2> QED BY <1>0, <1>2, <2>1, <2>2 DEF SheetRow
<1> HIDE DEF s, row
<1>4. /\ sheet' \in [Sheets -> SheetRow] /\ sheet'[s] = row
      /\ \A t \in Sheets : t # s => sheet'[t] = sheet[t]
      /\ \A t \in Sheets : sheet'[t].ref = sheet[t].ref
  BY <1>0, <1>1, <1>2
<1>5. Made' = Made /\ References' = References
  <2>1. Made' = Made
    BY <1>2, <1>4 DEF Made
  <2> QED BY <1>4, <2>1 DEF References, Made
<1>6. /\ sheetRequest' \in [SheetRequests -> SheetRead]
      /\ \A q \in SheetRequests : sheetRequest'[q] = sheetRequest[q] \/ sheetRequest'[q].op = "none"
      /\ sheetsInTurn => \A q \in SheetRequests : sheetRequest'[q] = NoSheetRequest
  BY <1>1, DoneKeeps, NothingRead
<1>d. DraftsFit'
  BY <1>0, <1>1, <1>6, DraftsStay
<1>7. SheetTypeOK'
  BY <1>0, <1>1, <1>4, <1>6, <1>d, TypesAfter DEF SheetTypeOK
<1>8. ReferencesRunOn'
  BY <1>0, <1>5 DEF ReferencesRunOn
<1>9. InvoicesNamed'
  BY <1>0, <1>1, <1>2, <1>4 DEF InvoicesNamed
<1>10. SheetsNameInvoices'
  <2>1. \A t \in Made : t = s \/ sheet'[t] = sheet[t]
    BY <1>4 DEF Made
  <2>2. sheet'[s].status = "open" /\ sheet'[s].invoice = {}
    BY <1>2, <1>4
  <2>3. \A t \in Made : IF sheet'[t].status = "open" THEN sheet'[t].invoice = {}
                        ELSE \E i \in sheet'[t].invoice : sheetDraft'[i] # "none"
    BY <1>0, <1>1, <2>1, <2>2 DEF SheetsNameInvoices
  <2>4. \A t, u \in Made : t # u => sheet'[t].invoice \cap sheet'[u].invoice = {}
    BY <1>0, <2>1, <2>2 DEF SheetsNameInvoices
  <2> QED BY <1>5, <2>3, <2>4 DEF SheetsNameInvoices
<1>11. MadeAsShown'
  BY <1>0, <1>1, <1>3, <1>5 DEF MadeAsShown, OnSheet
<1>12. ReadsFit'
  <2> SUFFICES ASSUME NEW q \in SheetRequests, sheetRequest'[q] = sheetRequest[q]
               PROVE  /\ sheetRequest[q].op = "create" =>
                            sheetRequest[q].ref \in 1..(Cardinality(Made) + 1)
                      /\ OfSheet(q) => sheetRequest[q].sheet \in Made
                      /\ sheetRequest[q].op = "edit" =>
                            sheetRequest[q].row = [ref |-> sheet'[sheetRequest[q].sheet].ref,
                                                   status |-> "open", invoice |-> {}]
    BY <1>5, <1>6 DEF ReadsFit, OfSheet
  <2>1. OfSheet(q) => sheetRequest[q].sheet \in Made /\ sheetRequest[q].sheet \in Sheets
    BY <1>0 DEF ReadsFit, Made
  <2>2. sheetRequest[q].op = "edit" => sheet'[sheetRequest[q].sheet].ref = sheet[sheetRequest[q].sheet].ref
    BY <1>4, <2>1 DEF OfSheet
  <2> QED BY <1>0, <2>1, <2>2 DEF ReadsFit
<1>13. SheetsTakeTurns'
  <2>1. sheetsInTurn => \A q \in SheetRequests :
           sheetRequest'[q] = NoSheetRequest /\ sheetRequest'[q].op = "none"
    BY <1>6, NothingRead
  <2> QED BY <1>0, <1>1, <1>3, <2>1 DEF SheetsTakeTurns, OfSheet
<1> QED BY <1>6, <1>7, <1>8, <1>9, <1>10, <1>11, <1>12, <1>13, <1>d DEF SheetInv

LEMMA GenerateStep ==
    ASSUME SheetInv, NEW s \in Sheets, NEW i \in SheetInvoices, GenerateInvoice(s, i)
    PROVE  SheetInv'
<1>0. /\ SheetTypeOK /\ ReferencesRunOn /\ SheetsNameInvoices /\ MadeAsShown
      /\ ReadsFit /\ InvoicesNamed /\ SheetsTakeTurns /\ sheet \in [Sheets -> SheetRow] /\ DraftsFit
      /\ sheetInvoice \in [SheetInvoices -> SUBSET Charges]
      /\ sheetRequest \in [SheetRequests -> SheetRead]
  BY DEF SheetInv, SheetTypeOK, SheetRow
<1> DEFINE row == [sheet[s] EXCEPT !.status = "invoiced", !.invoice = {i}]
<1>1. /\ sheetsInTurn => \A r \in SheetRequests : sheetRequest[r] = NoSheetRequest
      /\ sheet[s].status = "open" /\ OnSheet(s) # {} /\ sheetDraft[i] = "none"
      /\ sheetInvoice' = [sheetInvoice EXCEPT ![i] = OnSheet(s)]
      /\ sheetLines' = [sheetLines EXCEPT ![i] = OnSheet(s)]
      /\ sheetDraft' = [sheetDraft EXCEPT ![i] = "draft"]
      /\ sheet' = [sheet EXCEPT ![s] = row]
      /\ UNCHANGED <<charge, rewritten, sheetRequest, sheetsInTurn>>
  BY DEF GenerateInvoice, Invoiceable, SheetOpen
<1>2. row \in SheetRow /\ row.ref = sheet[s].ref /\ row.status = "invoiced" /\ row.invoice = {i}
  BY <1>0 DEF SheetRow
<1> HIDE DEF row
<1>3. /\ sheet' \in [Sheets -> SheetRow] /\ sheet'[s] = row /\ s \in Made
      /\ \A t \in Sheets : t # s => sheet'[t] = sheet[t]
      /\ \A t \in Sheets : sheet'[t].ref = sheet[t].ref
  BY <1>0, <1>1, <1>2 DEF Made
<1>4. Made' = Made /\ References' = References
  <2>1. Made' = Made
    BY <1>2, <1>3 DEF Made
  <2> QED BY <1>3, <2>1 DEF References, Made
<1>5. /\ sheetInvoice' \in [SheetInvoices -> SUBSET Charges] /\ sheetInvoice'[i] = OnSheet(s)
      /\ \A j \in SheetInvoices : j # i => sheetInvoice'[j] = sheetInvoice[j]
  BY <1>0, <1>1 DEF OnSheet
<1>e. /\ sheetDraft'[i] = "draft"
      /\ \A j \in SheetInvoices : j # i => sheetDraft'[j] = sheetDraft[j]
  BY <1>0, <1>1 DEF DraftsFit
<1>d. DraftsFit'
  <2>1. OnSheet(s) \subseteq Charges
    BY DEF OnSheet
  <2>2. /\ sheetDraft' \in [SheetInvoices -> {"none", "draft", "issued"}]
        /\ sheetLines' \in [SheetInvoices -> SUBSET Charges] /\ sheetLines'[i] = OnSheet(s)
        /\ \A j \in SheetInvoices : j # i => sheetLines'[j] = sheetLines[j]
    BY <1>0, <1>1, <2>1 DEF DraftsFit
  <2>3. \A j \in SheetInvoices :
          /\ sheetLines'[j] \subseteq sheetInvoice'[j]
          /\ j \notin rewritten => sheetLines'[j] = sheetInvoice'[j]
          /\ sheetDraft'[j] = "none" => sheetInvoice'[j] = {} /\ j \notin rewritten
    BY <1>0, <1>5, <1>e, <2>2 DEF DraftsFit
  <2>4. \A r \in SheetRequests : sheetRequest[r].op = "lines" => sheetDraft'[sheetRequest[r].invoice] # "none"
    BY <1>0, <1>e, ReadShape DEF DraftsFit
  <2> QED BY <1>0, <1>1, <1>5, <2>2, <2>3, <2>4 DEF DraftsFit
<1>6. \A t \in Made : t # s => sheet'[t] = sheet[t] /\ i \notin sheet[t].invoice
  <2> SUFFICES ASSUME NEW t \in Made, t # s, i \in sheet[t].invoice PROVE FALSE
    BY <1>3 DEF Made
  <2>1. t \in Sheets
    BY DEF Made
  <2> QED BY <1>0, <1>1, <2>1 DEF InvoicesNamed
<1>7. SheetTypeOK'
  BY <1>0, <1>1, <1>3, <1>d, TypesAfter DEF SheetTypeOK
<1>8. ReferencesRunOn'
  BY <1>0, <1>4 DEF ReferencesRunOn
<1>9. InvoicesNamed'
  <2> SUFFICES ASSUME NEW t \in Sheets
               PROVE  /\ sheet'[t].status # "invoiced" => sheet'[t].invoice = {}
                      /\ sheet'[t].status = "invoiced" =>
                            \E j \in SheetInvoices : sheet'[t].invoice = {j} /\ sheetDraft'[j] # "none"
    BY DEF InvoicesNamed
  <2>1. CASE t = s
    BY <1>1, <1>2, <1>3, <1>e, <2>1
  <2>2. CASE t # s
    <3>1. sheet'[t] = sheet[t]
      BY <1>3, <2>2
    <3>2. \A j \in SheetInvoices : sheetDraft[j] # "none" => sheetDraft'[j] # "none"
      BY <1>1, <1>e
    <3> QED BY <1>0, <3>1, <3>2 DEF InvoicesNamed
  <2> QED BY <2>1, <2>2
<1>10. SheetsNameInvoices'
  <2>1. \A t \in Made : IF sheet'[t].status = "open" THEN sheet'[t].invoice = {}
                        ELSE \E j \in sheet'[t].invoice : sheetDraft'[j] # "none"
    <3> SUFFICES ASSUME NEW t \in Made
                 PROVE  IF sheet'[t].status = "open" THEN sheet'[t].invoice = {}
                        ELSE \E j \in sheet'[t].invoice : sheetDraft'[j] # "none"
      OBVIOUS
    <3>1. CASE t = s
      BY <1>1, <1>2, <1>3, <1>e, <3>1
    <3>2. CASE t # s
      <4>1. sheet'[t] = sheet[t] /\ sheet[t].invoice \subseteq SheetInvoices
        BY <1>0, <1>6, <3>2 DEF Made, SheetRow
      <4>2. \A j \in SheetInvoices : sheetDraft[j] # "none" => sheetDraft'[j] # "none"
        BY <1>1, <1>e
      <4> QED BY <1>0, <4>1, <4>2 DEF SheetsNameInvoices
    <3> QED BY <3>1, <3>2
  <2>2. \A t, u \in Made : t # u => sheet'[t].invoice \cap sheet'[u].invoice = {}
    <3> SUFFICES ASSUME NEW t \in Made, NEW u \in Made, t # u
                 PROVE  sheet'[t].invoice \cap sheet'[u].invoice = {}
      OBVIOUS
    <3>1. CASE t = s
      BY <1>2, <1>3, <1>6, <3>1
    <3>2. CASE u = s
      BY <1>2, <1>3, <1>6, <3>2
    <3>3. CASE t # s /\ u # s
      BY <1>0, <1>6, <3>3 DEF SheetsNameInvoices
    <3> QED BY <3>1, <3>2, <3>3
  <2> QED BY <1>4, <2>1, <2>2 DEF SheetsNameInvoices
<1>11. MadeAsShown'
  <2> SUFFICES ASSUME sheetsInTurn
               PROVE  /\ \A t \in Made : \A j \in sheet'[t].invoice : sheetInvoice'[j] = OnSheet(t)
                      /\ \A j, k \in SheetInvoices : j # k => sheetInvoice'[j] \cap sheetInvoice'[k] = {}
    BY <1>1, <1>4 DEF MadeAsShown, OnSheet
  <2>1. ASSUME NEW t \in Made, NEW j \in sheet'[t].invoice PROVE sheetInvoice'[j] = OnSheet(t)
    <3>1. CASE t = s
      BY <1>2, <1>3, <1>5, <2>1, <3>1
    <3>2. CASE t # s
      <4>1. j \in sheet[t].invoice /\ j # i /\ j \in SheetInvoices
        BY <1>0, <1>6, <2>1, <3>2 DEF Made, SheetRow
      <4> QED BY <1>0, <1>5, <4>1 DEF MadeAsShown
    <3> QED BY <3>1, <3>2
  <2>2. ASSUME NEW j \in SheetInvoices, j # i PROVE sheetInvoice[j] \cap OnSheet(s) = {}
    <3>1. CASE sheetDraft[j] = "none"
      BY <1>0, <3>1 DEF DraftsFit
    <3>2. CASE sheetDraft[j] # "none"
      <4>1. PICK t \in Sheets : j \in sheet[t].invoice
        BY <1>0, <3>2 DEF SheetsTakeTurns
      <4>2. t # s /\ t \in Made
        BY <1>0, <1>1, <4>1 DEF InvoicesNamed, Made
      <4>3. sheetInvoice[j] = OnSheet(t)
        BY <1>0, <4>1, <4>2 DEF MadeAsShown
      <4> QED BY <4>2, <4>3 DEF OnSheet
    <3> QED BY <3>1, <3>2
  <2>3. ASSUME NEW j \in SheetInvoices, NEW k \in SheetInvoices, j # k
        PROVE  sheetInvoice'[j] \cap sheetInvoice'[k] = {}
    <3>1. CASE j = i
      BY <1>5, <2>2, <2>3, <3>1
    <3>2. CASE k = i
      BY <1>5, <2>2, <2>3, <3>2
    <3>3. CASE j # i /\ k # i
      BY <1>0, <1>5, <2>3, <3>3 DEF MadeAsShown
    <3> QED BY <3>1, <3>2, <3>3
  <2> QED BY <2>1, <2>3
<1>12. ReadsFit'
  <2> SUFFICES ASSUME NEW q \in SheetRequests
               PROVE  /\ sheetRequest[q].op = "create" =>
                            sheetRequest[q].ref \in 1..(Cardinality(Made) + 1)
                      /\ OfSheet(q) => sheetRequest[q].sheet \in Made
                      /\ sheetRequest[q].op = "edit" =>
                            sheetRequest[q].row = [ref |-> sheet'[sheetRequest[q].sheet].ref,
                                                   status |-> "open", invoice |-> {}]
    BY <1>1, <1>4 DEF ReadsFit, OfSheet
  <2>1. OfSheet(q) => sheetRequest[q].sheet \in Made /\ sheetRequest[q].sheet \in Sheets
    BY <1>0 DEF ReadsFit, Made
  <2>2. sheetRequest[q].op = "edit" => sheet'[sheetRequest[q].sheet].ref = sheet[sheetRequest[q].sheet].ref
    BY <1>3, <2>1 DEF OfSheet
  <2> QED BY <1>0, <2>1, <2>2 DEF ReadsFit
<1>13. SheetsTakeTurns'
  <2> SUFFICES ASSUME sheetsInTurn PROVE SheetsTakeTurns'
    BY <1>1 DEF SheetsTakeTurns
  <2>1. \A q \in SheetRequests : sheetRequest'[q] = NoSheetRequest /\ sheetRequest'[q].op = "none"
    BY <1>1, NothingRead
  <2>2. ASSUME NEW j \in SheetInvoices, sheetDraft'[j] # "none"
        PROVE  \E t \in Sheets : j \in sheet'[t].invoice
    <3>1. CASE j = i
      BY <1>2, <1>3, <3>1
    <3>2. CASE j # i
      <4>1. PICK t \in Sheets : j \in sheet[t].invoice
        BY <1>0, <1>e, <2>2, <3>2 DEF SheetsTakeTurns
      <4>2. t # s
        BY <1>0, <1>1, <4>1 DEF InvoicesNamed
      <4> QED BY <1>3, <4>1, <4>2
    <3> QED BY <3>1, <3>2
  <2> QED BY <2>1, <2>2 DEF SheetsTakeTurns, OfSheet
<1> QED BY <1>0, <1>1, <1>7, <1>8, <1>9, <1>10, <1>11, <1>12, <1>13, <1>d DEF SheetInv

\* The draft is read or rewritten: sheets and charges stay.
LEMMA DraftStep ==
    ASSUME SheetInv,
           \/ \E r \in SheetRequests, i \in SheetInvoices : ReadDraft(r, i)
           \/ \E r \in SheetRequests, lines \in SUBSET Charges, status \in {"draft", "issued"} :
                 WriteLines(r, lines, status)
    PROVE  SheetInv'
<1>0. /\ SheetTypeOK /\ ReferencesRunOn /\ SheetsNameInvoices /\ MadeAsShown
      /\ ReadsFit /\ InvoicesNamed /\ SheetsTakeTurns /\ DraftsFit
      /\ sheetRequest \in [SheetRequests -> SheetRead]
  BY DEF SheetInv
<1>1. ASSUME NEW r \in SheetRequests, NEW i \in SheetInvoices, ReadDraft(r, i) PROVE SheetInv'
  <2> DEFINE what == [op |-> "lines", invoice |-> i]
  <2>1. what \in SheetRead /\ what.op = "lines" /\ what.invoice = i
    BY DEF SheetRead
  <2>2. SheetReads(r, what) /\ sheetDraft[i] # "none"
    BY <1>1 DEF ReadDraft
  <2> HIDE DEF what
  <2> QED BY <2>1, <2>2, ReadingStep
\* What is left to show when the rest stays.
<1>2. ASSUME UNCHANGED <<sheet, charge, sheetInvoice, sheetsInTurn>>, DraftsFit',
             \A i \in SheetInvoices : sheetDraft'[i] # "none" <=> sheetDraft[i] # "none",
             sheetRequest' \in [SheetRequests -> SheetRead],
             \A q \in SheetRequests : sheetRequest'[q] = sheetRequest[q] \/ sheetRequest'[q] = NoSheetRequest
      PROVE  SheetInv'
  <2>1. Made' = Made /\ References' = References
    BY <1>2 DEF Made, References
  <2>2. SheetTypeOK'
    BY <1>0, <1>2, TypesAfter DEF SheetTypeOK, SheetRow
  <2>3. ReferencesRunOn' /\ MadeAsShown' /\ InvoicesNamed'
    BY <1>0, <1>2, <2>1 DEF ReferencesRunOn, MadeAsShown, InvoicesNamed, OnSheet
  <2>4. SheetsNameInvoices'
    <3>1. \A s \in Made : sheet[s].invoice \subseteq SheetInvoices
      BY <1>0 DEF SheetTypeOK, Made
    <3> QED BY <1>0, <1>2, <2>1, <3>1 DEF SheetsNameInvoices
  <2>5. \A q \in SheetRequests : sheetRequest'[q] = sheetRequest[q] \/ sheetRequest'[q].op = "none"
    BY <1>2, NothingRead
  <2>6. ReadsFit'
    BY <1>0, <1>2, <2>1, <2>5 DEF ReadsFit, OfSheet
  <2>7. SheetsTakeTurns'
    BY <1>0, <1>2, <2>5 DEF SheetsTakeTurns, OfSheet, SheetOpen
  <2> QED BY <1>2, <2>2, <2>3, <2>4, <2>6, <2>7 DEF SheetInv
<1>3. ASSUME NEW r \in SheetRequests, NEW lines \in SUBSET Charges, NEW status \in {"draft", "issued"},
             WriteLines(r, lines, status)
      PROVE  SheetInv'
  <2> DEFINE i == sheetRequest[r].invoice
  <2>1. /\ sheetRequest[r].op = "lines" /\ lines \subseteq sheetInvoice[i] /\ SheetDone(r)
        /\ sheetLines' = [sheetLines EXCEPT ![i] = lines] /\ rewritten' = rewritten \cup {i}
        /\ sheetDraft' = [sheetDraft EXCEPT ![i] = status]
        /\ UNCHANGED <<sheet, charge, sheetInvoice, sheetsInTurn>>
    BY <1>3 DEF WriteLines
  <2>2. i \in SheetInvoices /\ sheetDraft[i] # "none"
    BY <1>0, <2>1, ReadShape DEF DraftsFit
  <2> HIDE DEF i
  <2>3. /\ sheetRequest' \in [SheetRequests -> SheetRead]
        /\ \A q \in SheetRequests : sheetRequest'[q] = sheetRequest[q] \/ sheetRequest'[q] = NoSheetRequest
    BY <2>1, DoneKeeps
  <2>4. \A j \in SheetInvoices : sheetDraft'[j] # "none" <=> sheetDraft[j] # "none"
    BY <1>0, <2>1, <2>2 DEF DraftsFit
  <2>5. DraftsFit'
    <3>1. /\ sheetDraft' \in [SheetInvoices -> {"none", "draft", "issued"}]
          /\ sheetLines' \in [SheetInvoices -> SUBSET Charges] /\ sheetLines'[i] = lines
          /\ \A j \in SheetInvoices : j # i => sheetLines'[j] = sheetLines[j]
      BY <1>0, <2>1, <2>2 DEF DraftsFit
    <3>2. \A q \in SheetRequests : sheetRequest'[q].op = "lines" =>
             sheetDraft'[sheetRequest'[q].invoice] # "none"
      BY <1>0, <2>3, <2>4, NothingRead, ReadShape DEF DraftsFit
    <3>3. \A j \in SheetInvoices :
            /\ sheetLines'[j] \subseteq sheetInvoice'[j]
            /\ j \notin rewritten' => sheetLines'[j] = sheetInvoice'[j]
            /\ sheetDraft'[j] = "none" => sheetInvoice'[j] = {} /\ j \notin rewritten'
      BY <1>0, <2>1, <2>2, <2>4, <3>1 DEF DraftsFit
    <3> QED BY <1>0, <2>1, <2>2, <3>1, <3>2, <3>3 DEF DraftsFit
  <2> QED BY <1>2, <2>1, <2>3, <2>4, <2>5
<1> QED BY <1>1, <1>3

LEMMA SheetInvStep == SheetInv /\ [SheetNext]_sheetVars => SheetInv'
<1> SUFFICES ASSUME SheetInv, [SheetNext]_sheetVars PROVE SheetInv'
  OBVIOUS
<1>1. CASE UNCHANGED sheetVars
  <2>1. UNCHANGED <<sheet, charge, sheetInvoice, sheetLines, sheetDraft, rewritten, sheetRequest, sheetsInTurn>>
    BY <1>1 DEF sheetVars, draftVars
  <2>2. Made' = Made /\ References' = References
    BY <2>1 DEF Made, References
  <2>3. SheetTypeOK' /\ sheetRequest' \in [SheetRequests -> SheetRead]
    BY <2>1 DEF SheetInv, SheetTypeOK
  <2>4. ReferencesRunOn' /\ SheetsNameInvoices' /\ InvoicesNamed'
    BY <2>1, <2>2 DEF SheetInv, ReferencesRunOn, SheetsNameInvoices, InvoicesNamed
  <2>5. MadeAsShown'
    BY <2>1, <2>2 DEF SheetInv, MadeAsShown, OnSheet
  <2>6. ReadsFit'
    BY <2>1, <2>2 DEF SheetInv, ReadsFit, OfSheet
  <2>7. SheetsTakeTurns'
    BY <2>1 DEF SheetInv, SheetsTakeTurns, OfSheet, SheetOpen
  <2>8. DraftsFit'
    BY <2>1 DEF SheetInv, DraftsFit
  <2> QED BY <2>3, <2>4, <2>5, <2>6, <2>7, <2>8 DEF SheetInv
<1>2. CASE SheetNext
  BY <1>2, ReadsStep, EndsStep, CreateSheetStep, WriteSheetStep, GenerateStep, DraftStep DEF SheetNext
<1> QED BY <1>1, <1>2

(* References of billing sheets run on, invoiced sheets name their invoices, and    *)
(* requests in turn bill every charge on the sheet once, as the sheet shows it, and   *)
(* no other's, until and after the lines of the draft are replaced.                  *)
THEOREM SheetsSound == SheetSpec => []SheetsAreSound
<1>1. SheetInv => SheetsAreSound
  <2> SUFFICES ASSUME SheetInv PROVE ChargesBilledAsShown
    BY DEF SheetInv, SheetsAreSound
  <2>1. \A s \in Made : sheet[s].invoice \subseteq SheetInvoices
    BY DEF SheetInv, SheetTypeOK, Made
  <2> QED BY <2>1 DEF SheetInv, ChargesBilledAsShown, MadeAsShown, DraftsFit
<1> QED BY <1>1, SheetInvInit, SheetInvStep, PTL DEF SheetSpec
================================================================================
