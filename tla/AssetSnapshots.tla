----------------------------- MODULE AssetSnapshots -----------------------------
(***************************************************************************)
(* The assets another system keeps for a customer, sent as a whole by PUT       *)
(* (integrations/services.py, views.py, models.py), beside the customer's        *)
(* record, which may be archived or removed meanwhile.                           *)
(*                                                                          *)
(* A snapshot is one transaction of several statements: it locks the rows its    *)
(* first query found, writes the assets it was given, deletes what else the       *)
(* customer has.  A row another transaction has locked is waited for; what a      *)
(* transaction wrote is seen when it commits.                                     *)
(***************************************************************************)
EXTENDS CustomerRecords

CONSTANTS
    Assets,   \* external uuids, unique in the tenant
    Puts,     \* PUT requests under way
    Nobody    \* the holder of an asset that is not recorded

ASSUME NobodyIsNoCustomer == Nobody \notin Customers

VARIABLES
    held,     \* customer each ExternalAssetReference row names, or Nobody
    put       \* PUT requests under way

assetVars == <<held, put>>

NoPut == [at |-> "none"]

AssetTypeOK ==
    /\ held \in [Assets -> Customers \cup {Nobody}]
    /\ \A u \in Puts : put[u].at \in {"none", "locking", "writing", "deleting"}

AssetInit ==
    /\ held = [x \in Assets |-> Nobody]
    /\ put = [u \in Puts |-> NoPut]

Under(u) == put[u].at # "none"

\* Rows a transaction has locked, updated, inserted or deleted; it keeps them to its end.
Keeps(u) == IF Under(u) THEN put[u].locked \cup put[u].written \cup put[u].dropped ELSE {}
FreeFor(u, x) == \A other \in Puts \ {u} : x \notin Keeps(other)

\* Rows named by a customer as a transaction sees them: its own writes, and what others committed.
SeenHolder(u, x) == IF x \in put[u].written THEN put[u].customer ELSE held[x]
RowsOf(c) == { x \in Assets : held[x] = c }

Rival(u, c) == { other \in Puts \ {u} : Under(other) /\ put[other].customer = c }

--------------------------------------------------------------------------------
\* The view finds the customer, archived ones excepted; the first query finds the rows.
BeginPut(u, c, given) ==
    /\ ~Under(u) /\ Listed(c)
    /\ put' = [other \in Puts |->
          IF other = u
          THEN [at |-> "locking", customer |-> c, given |-> given, alone |-> Rival(u, c) = {},
                toLock |-> RowsOf(c) \cup { x \in given : held[x] # Nobody },
                locked |-> {}, existing |-> {}, written |-> {}, dropped |-> {}]
          ELSE IF other \in Rival(u, c) THEN [put[other] EXCEPT !.alone = FALSE] ELSE put[other]]
    /\ UNCHANGED <<recordVars, held>>

\* select_for_update: a row is checked once more when its lock is granted.
LockRow(u, x) ==
    /\ put[u].at = "locking" /\ x \in put[u].toLock /\ FreeFor(u, x)
    /\ put' = [put EXCEPT
          ![u].toLock = @ \ {x}, ![u].locked = @ \cup {x},
          ![u].existing = IF held[x] = put[u].customer \/ x \in put[u].given
                          THEN @ \cup {x} ELSE @]
    /\ UNCHANGED <<recordVars, held>>

StartWriting(u) ==
    /\ put[u].at = "locking" /\ put[u].toLock = {}
    /\ put' = [put EXCEPT ![u].at = "writing"]
    /\ UNCHANGED <<recordVars, held>>

\* A row that was found is given to the customer; any other one is inserted, once
\* nobody else has written that uuid.  Both need the customer to be there.
WriteAsset(u, x) ==
    /\ put[u].at = "writing" /\ x \in put[u].given \ put[u].written
    /\ Exists(put[u].customer)
    /\ x \in put[u].existing \/ (FreeFor(u, x) /\ held[x] = Nobody)
    /\ put' = [put EXCEPT ![u].written = @ \cup {x}]
    /\ UNCHANGED <<recordVars, held>>

\* What else the customer has is deleted: the statement finds it when it starts.
StaleIgnoringGiven(u) == { x \in Assets : SeenHolder(u, x) = put[u].customer }
Stale(u) == { x \in Assets : SeenHolder(u, x) = put[u].customer } \ put[u].given

StartDeleting(u) ==
    /\ put[u].at = "writing" /\ put[u].written = put[u].given
    /\ put' = [put EXCEPT ![u].at = "deleting", ![u].toLock = Stale(u)]
    /\ UNCHANGED <<recordVars, held>>

DropRow(u, x) ==
    /\ put[u].at = "deleting" /\ x \in put[u].toLock /\ FreeFor(u, x)
    /\ put' = [put EXCEPT
          ![u].toLock = @ \ {x}, ![u].locked = @ \cup {x},
          ![u].dropped = IF SeenHolder(u, x) = put[u].customer THEN @ \cup {x} ELSE @]
    /\ UNCHANGED <<recordVars, held>>

Outcome(u) == [x \in Assets |->
    IF x \in put[u].dropped THEN Nobody
    ELSE IF x \in put[u].written THEN put[u].customer ELSE held[x]]

\* A row that was deleted is no longer there for the statements that found it.
Forget(gone) == [other \in Puts |->
    IF Under(other) THEN [put[other] EXCEPT !.toLock = @ \ gone] ELSE put[other]]

CommitPut(u) ==
    /\ put[u].at = "deleting" /\ put[u].toLock = {}
    /\ held' = Outcome(u)
    /\ put' = [Forget(put[u].dropped) EXCEPT ![u] = NoPut]
    /\ UNCHANGED recordVars

\* An error, a uuid another request inserted, a deadlock PostgreSQL resolved, a
\* customer that was removed: nothing is kept.
FailPut(u) ==
    /\ Under(u)
    /\ put' = [put EXCEPT ![u] = NoPut]
    /\ UNCHANGED <<recordVars, held>>

\* Removing a customer waits for rows that name it to be committed, and takes its
\* assets along.
RemoveWithAssets(c) ==
    /\ HardDelete(c)
    /\ \A u \in Puts : Under(u) /\ put[u].customer = c => put[u].written = {}
    /\ \A x \in RowsOf(c), u \in Puts : x \notin Keeps(u)
    /\ held' = [x \in Assets |-> IF held[x] = c THEN Nobody ELSE held[x]]
    /\ put' = Forget(RowsOf(c))

--------------------------------------------------------------------------------
PutStep(u) ==
    \/ \E c \in Customers, given \in SUBSET Assets : BeginPut(u, c, given)
    \/ \E x \in Assets : LockRow(u, x) \/ WriteAsset(u, x) \/ DropRow(u, x)
    \/ StartWriting(u) \/ StartDeleting(u) \/ CommitPut(u) \/ FailPut(u)

AssetNext ==
    \/ \E u \in Puts : PutStep(u)
    \/ \E c \in Customers : RemoveWithAssets(c)
    \/ \E c \in Customers : /\ EnterCustomer(c, "active", FALSE) \/ SoftDelete(c) \/ RestoreCustomer(c)
                            /\ UNCHANGED assetVars

AssetSpec == RecordInit /\ AssetInit /\ [][AssetNext]_<<recordVars, assetVars>>

--------------------------------------------------------------------------------
(* Every asset belongs to a customer there is, and no two requests write one row.   *)
AssetsHaveOwners ==
    /\ AssetTypeOK
    /\ \A x \in Assets : held[x] # Nobody => Exists(held[x])
    /\ \A u, v \in Puts : u # v => Keeps(u) \cap Keeps(v) = {}

(* "Idempotently replace one customer's AssetMS projection" (integrations/services.py,  *)
(* 64): when a snapshot commits, the customer has every asset of it, and no other        *)
(* unless a second snapshot of the same customer overlapped; another customer loses       *)
(* only what the snapshot names.                                                        *)
SnapshotsReplace ==
    [][\A u \in Puts : CommitPut(u) =>
          LET c == put[u].customer  given == put[u].given
              after == { x \in Assets : held'[x] = c }
          IN  /\ given \subseteq after
              /\ put[u].alone => after = given
              /\ \A x \in Assets \ given : held'[x] = held[x] \/ held[x] = c]_<<recordVars, assetVars>>

(* A customer's assets are those of its last snapshot, and go with the customer.     *)
AssetsAreSound == []AssetsHaveOwners /\ SnapshotsReplace
==============================================================================
