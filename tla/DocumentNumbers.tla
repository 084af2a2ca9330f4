---------------------------- MODULE DocumentNumbers ----------------------------
(***************************************************************************)
(* Numbers of quotations, invoices, receipts and credit notes                *)
(* (billing/numbering.py) and references of purchases                        *)
(* (inventory/numbering.py), at the level of the row locks of the database.   *)
(*                                                                          *)
(* A scope is the key of a counter row: a document type and year, a type and  *)
(* day, or the purchases of the tenant.  A transaction takes its numbers one  *)
(* after the other (a checkout takes one for the invoice, then one for its    *)
(* receipt) and holds each counter row until it commits or rolls back.  The   *)
(* row a transaction has inserted is seen by nobody before the commit; an     *)
(* insert of the same key waits for it (external: PostgreSQL).               *)
(***************************************************************************)
EXTENDS Integers, Sequences

CONSTANTS
    Scopes, Typed,    \* counters; those whose numbers can also be typed by hand
    Plans,            \* the scopes a kind of transaction takes numbers of, in order
    Transactions,     \* transactions that may run at the same time
    MaxNumber,        \* bound on the numbers of a scope
    None

ASSUME PlansTakeOneEach ==
    /\ Plans \subseteq Seq(Scopes) \ {<<>>}
    /\ \A plan \in Plans : \A i, j \in DOMAIN plan : plan[i] = plan[j] => i = j
ASSUME TypedScopes == Typed \subseteq Scopes
ASSUME NumberBound == MaxNumber \in Nat
ASSUME NullTransaction == None \notin Transactions

VARIABLES
    counter,  \* last_number of each committed counter row, -1 for no row
    holder,   \* the transaction that has locked or inserted the row
    tx,       \* transactions: what each does next, and the scopes it still needs
    taken,    \* the number each transaction took in each scope, 0 for none
    docs      \* committed documents: <<scope, number>>

numberVars == <<counter, holder, tx, taken, docs>>

Idle == [at |-> "idle", todo |-> <<>>]

NumberTypeOK ==
    /\ counter \in [Scopes -> -1..MaxNumber]
    /\ holder \in [Scopes -> Transactions \cup {None}]
    /\ tx \in [Transactions -> [at : {"idle", "get", "insert", "retry", "end"},
                                todo : Seq(Scopes)]]
    /\ taken \in [Transactions -> [Scopes -> 0..MaxNumber]]
    /\ docs \subseteq Scopes \X (1..MaxNumber)

NumberInit ==
    /\ counter = [s \in Scopes |-> -1]
    /\ holder = [s \in Scopes |-> None]
    /\ tx = [p \in Transactions |-> Idle]
    /\ taken = [p \in Transactions |-> [s \in Scopes |-> 0]]
    /\ docs = {}

--------------------------------------------------------------------------------
RowExists(s) == counter[s] >= 0
NeverLocked(s) == TRUE
Unlocked(s) == holder[s] = None

Before(n) == IF n < 0 THEN 0 ELSE n

\* The next number of a scope, none beyond the bound; next_number of purchases
\* steps over references that are in use.
Candidates(s) ==
    { n \in (Before(counter[s]) + 1)..MaxNumber :
        /\ <<s, n>> \notin docs
        /\ \A m \in (Before(counter[s]) + 1)..(n - 1) : <<s, m>> \in docs }

Begin(p, plan) ==
    /\ tx[p] = Idle
    /\ tx' = [tx EXCEPT ![p] = [at |-> "get", todo |-> plan]]
    /\ UNCHANGED <<counter, holder, taken, docs>>

\* The counter row is locked, or inserted, and its number incremented.
TakeNumber(p, s) ==
    LET rest == Tail(tx[p].todo) IN
    /\ \E n \in Candidates(s) : taken' = [taken EXCEPT ![p][s] = n]
    /\ holder' = [holder EXCEPT ![s] = p]
    /\ tx' = [tx EXCEPT ![p] = [at |-> IF rest = <<>> THEN "end" ELSE "get", todo |-> rest]]
    /\ UNCHANGED <<counter, docs>>

GoOn(p, at) == /\ tx' = [tx EXCEPT ![p].at = at]
               /\ UNCHANGED <<counter, holder, taken, docs>>

\* select_for_update().get: waits for the lock, or finds no row.
GetCounter(p) ==
    LET s == Head(tx[p].todo) IN
    /\ tx[p].at = "get"
    /\ \/ RowExists(s) /\ Unlocked(s) /\ TakeNumber(p, s)
       \/ ~RowExists(s) /\ GoOn(p, "insert")

AfterConflictInsert == "insert"
AfterConflict == "retry"

\* create in a savepoint: waits for another insert, or runs into its row.
InsertCounter(p) ==
    LET s == Head(tx[p].todo) IN
    /\ tx[p].at = "insert"
    /\ \/ ~RowExists(s) /\ Unlocked(s) /\ TakeNumber(p, s)
       \/ RowExists(s) /\ GoOn(p, AfterConflict)

\* get again: the row is there now.
RetryCounter(p) ==
    /\ tx[p].at = "retry" /\ Unlocked(Head(tx[p].todo))
    /\ TakeNumber(p, Head(tx[p].todo))

Numbers(p) == { <<s, taken[p][s]>> : s \in { s \in Scopes : taken[p][s] > 0 } }

\* Locks go with the transaction.
Release(p) ==
    /\ holder' = [s \in Scopes |-> IF holder[s] = p THEN None ELSE holder[s]]
    /\ taken' = [taken EXCEPT ![p] = [s \in Scopes |-> 0]]
    /\ tx' = [tx EXCEPT ![p] = Idle]

Counted(p) == [s \in Scopes |-> IF taken[p][s] > 0 THEN taken[p][s] ELSE counter[s]]

\* The number of a document is unique.
CommitNumbers(p) ==
    /\ tx[p].at = "end" /\ Numbers(p) \cap docs = {}
    /\ counter' = Counted(p)
    /\ docs' = docs \cup Numbers(p)
    /\ Release(p)

\* A failed transaction restores the counters it incremented.
CountedAnyway(p) == Counted(p)
Restored(p) == counter

RollBack(p) ==
    /\ tx[p] # Idle
    /\ counter' = Restored(p)
    /\ Release(p)
    /\ UNCHANGED docs

\* A duplicate number, or no number left in the bounds of the model.
Failing(p) == /\ tx[p] # Idle
              /\ IF tx[p].at = "end" THEN Numbers(p) \cap docs # {}
                                     ELSE Candidates(Head(tx[p].todo)) = {}

\* A purchase reference typed by hand.
TypeReference(s, n) ==
    /\ s \in Typed /\ <<s, n>> \notin docs
    /\ docs' = docs \cup {<<s, n>>}
    /\ UNCHANGED <<counter, holder, tx, taken>>

--------------------------------------------------------------------------------
NumberStep(p) == GetCounter(p) \/ InsertCounter(p) \/ RetryCounter(p) \/ CommitNumbers(p)

NumberNext ==
    \/ \E p \in Transactions : \/ \E plan \in Plans : Begin(p, plan)
                               \/ NumberStep(p) \/ RollBack(p)
    \/ \E s \in Scopes, n \in 1..MaxNumber : TypeReference(s, n)

NumberSpec == NumberInit /\ [][NumberNext]_numberVars

\* The database serves the transactions that wait for a row one after the other,
\* and fails the one that cannot go on.
NumberFairness ==
    \A p \in Transactions : /\ SF_numberVars(NumberStep(p))
                            /\ WF_numberVars(Failing(p) /\ RollBack(p))

--------------------------------------------------------------------------------
(* Two transactions never hold the same number of a scope, and a number that   *)
(* is held is in use at most because it was typed in meanwhile (the lock on    *)
(* the counter row, the savepoint around its insert).                          *)
NumbersUnique ==
    /\ \A p, q \in Transactions, s \in Scopes :
          p # q => taken[p][s] = 0 \/ taken[q][s] = 0
    /\ \A p \in Transactions : \A d \in Numbers(p) \cap docs : d[1] \in Typed

(* The lock on the counter row and the savepoint around its insert are enough.  *)
NumbersAreSound == NumberTypeOK /\ NumbersUnique

Gapless == INSTANCE GaplessNumbers WITH
    last <- [s \in Scopes |-> Before(counter[s])],
    used <- docs

\* Commits, conflicts and rollbacks give the numbers of a scope one by one.
ImplementsGapless == Gapless!Spec

(* A request that takes numbers always gets its answer: nobody waits forever  *)
(* for a counter row.                                                          *)
NumberingEnds == \A p \in Transactions : (tx[p] # Idle) ~> (tx[p] = Idle)
==============================================================================
