----------------------------- MODULE CustomerRecords -----------------------------
(***************************************************************************)
(* A customer's record from its creation to its removal                       *)
(* (customers/services.py, CustomerService; customers/views.py;                *)
(* customers/forms.py; audit/models.py).                                       *)
(*                                                                          *)
(* Every operation locks the record first and ends in one transaction, so it   *)
(* is one step here, but for two.  The edit form is read before the lock, and     *)
(* the whole form is saved under it; a removal that is refused is logged after the *)
(* transaction that refused it.  Audit entries are append-only.  Names, contacts    *)
(* and addresses are one thing, the identity; sites and services are in            *)
(* CustomerServices.                                                             *)
(***************************************************************************)
EXTENDS Naturals, Sequences

CONSTANTS
    Customers,   \* customer ids, never used twice
    Editors,     \* edit requests under way
    MaxEntries   \* bound on the audit entries of a customer, for model checking

VARIABLES
    customer,    \* rows of Customer, by id
    billed,      \* customers named by billing or uploaded documents
    history,     \* audit entries of each customer, oldest first
    edit,        \* edit requests between reading and saving
    refused,     \* customers whose removal was refused, before it is logged
    recordsInTurn  \* fixed: requests of two steps never overlap others

recordVars == <<customer, billed, history, edit, refused, recordsInTurn>>

Statuses == {"active", "inactive", "suspended"}

Record == [status : Statuses, internet : BOOLEAN, archived : BOOLEAN,
           identity : {"given", "removed"}]

\* CustomerForm: what it posts; a change of status needs a reason.
Posted == [status : Statuses, internet : BOOLEAN, reasoned : BOOLEAN]

NoEdit == [of |-> "none"]

\* AuditLog rows: what they say of the status, and whether a reason was given.
Entry == [action : {"upserted", "status_changed", "soft_deleted", "restored",
                    "anonymized", "attempt", "hard_deleted"},
          from : Statuses \cup {"none"}, to : Statuses \cup {"none"}, reasoned : BOOLEAN]

Note(action, to) == [action |-> action, from |-> "none", to |-> to, reasoned |-> FALSE]

RecordTypeOK ==
    /\ DOMAIN customer \subseteq Customers
    /\ \A c \in DOMAIN customer : customer[c] \in Record
    /\ billed \subseteq DOMAIN customer
    /\ history \in [Customers -> Seq(Entry)]
    /\ refused \subseteq Customers

RecordInit ==
    /\ customer = <<>>
    /\ billed = {}
    /\ history = [c \in Customers |-> <<>>]
    /\ edit = [e \in Editors |-> NoEdit]
    /\ refused = {}
    /\ recordsInTurn \in BOOLEAN

Exists(c) == c \in DOMAIN customer
Listed(c) == Exists(c) /\ ~customer[c].archived
Fresh(c) == ~Exists(c) /\ history[c] = <<>>

\* In turn, nothing happens while an edit is between its read and its save, or a
\* refusal before its entry.
Undisturbed == recordsInTurn => refused = {} /\ \A e \in Editors : edit[e] = NoEdit
Room(c, n) == Len(history[c]) + n <= MaxEntries

With(c, row) == [k \in DOMAIN customer \cup {c} |-> IF k = c THEN row ELSE customer[k]]
Without(c) == [k \in DOMAIN customer \ {c} |-> customer[k]]
Log(c, entries) == history' = [history EXCEPT ![c] = @ \o entries]

--------------------------------------------------------------------------------
(* Creation: the form logs it; the administration site does not. *)

Created(status, internet) ==
    [status |-> status, internet |-> internet, archived |-> FALSE, identity |-> "given"]

CreateCustomer(c, status, internet) ==
    /\ Undisturbed /\ Fresh(c) /\ Room(c, 1)
    /\ customer' = With(c, Created(status, internet))
    /\ Log(c, <<Note("upserted", status)>>)
    /\ UNCHANGED <<billed, edit, refused, recordsInTurn>>

EnterCustomer(c, status, internet) ==
    /\ Undisturbed /\ Fresh(c) /\ Room(c, 1)
    /\ customer' = With(c, Created(status, internet))
    /\ UNCHANGED <<billed, history, edit, refused, recordsInTurn>>

\* A billing document names a customer that is listed; its foreign key holds the
\* row, so that it waits for whoever has locked it.
NameInDocument(c) ==
    /\ Undisturbed /\ Listed(c) /\ c \notin billed
    /\ billed' = billed \cup {c}
    /\ UNCHANGED <<customer, history, edit, refused, recordsInTurn>>

--------------------------------------------------------------------------------
(* The edit form. *)

\* CustomerUpdateView reads the row, which is not archived, and checks the post
\* against it.
ReadCustomer(e, c, post) ==
    /\ Undisturbed /\ edit[e] = NoEdit /\ Listed(c)
    /\ post.status # customer[c].status => post.reasoned
    /\ edit' = [edit EXCEPT ![e] = [of |-> c, read |-> customer[c].status, post |-> post]]
    /\ UNCHANGED <<customer, billed, history, refused, recordsInTurn>>

\* The status before the save, as the form read it.
PreviousAsRead(e) == edit[e].read
\* The status before the save, as the locked row has it.
Previous(e) == customer[edit[e].of].status

\* upsert_customer: the row is locked, must be there and not archived; the whole
\* form is saved; the change of status it made is logged.
SaveCustomer(e) ==
    LET c == edit[e].of  post == edit[e].post IN
    /\ edit[e] # NoEdit /\ Listed(c) /\ Room(c, 2)
    /\ customer' = [customer EXCEPT ![c] =
                      [status |-> post.status, internet |-> post.internet,
                       archived |-> FALSE, identity |-> "given"]]
    /\ Log(c, <<Note("upserted", post.status)>> \o
              IF Previous(e) = post.status THEN <<>>
              ELSE <<[action |-> "status_changed", from |-> Previous(e), to |-> post.status,
                      reasoned |-> post.reasoned]>>)
    /\ edit' = [edit EXCEPT ![e] = NoEdit]
    /\ UNCHANGED <<billed, refused, recordsInTurn>>

\* "Customer not found", "Archived customer cannot be updated", or any error.
GiveUpEdit(e) ==
    /\ edit[e] # NoEdit
    /\ edit' = [edit EXCEPT ![e] = NoEdit]
    /\ UNCHANGED <<customer, billed, history, refused, recordsInTurn>>

--------------------------------------------------------------------------------
(* Archiving, anonymizing, removing. *)

SoftDelete(c) ==
    /\ Undisturbed /\ Listed(c) /\ Room(c, 1)
    /\ customer' = [customer EXCEPT ![c].archived = TRUE, ![c].status = "inactive"]
    /\ Log(c, <<Note("soft_deleted", "inactive")>>)
    /\ UNCHANGED <<billed, edit, refused, recordsInTurn>>

RestoreCustomer(c) ==
    /\ Undisturbed /\ Exists(c) /\ customer[c].archived /\ Room(c, 1)
    /\ customer' = [customer EXCEPT ![c].archived = FALSE]
    /\ Log(c, <<Note("restored", "none")>>)
    /\ UNCHANGED <<billed, edit, refused, recordsInTurn>>

Anonymize(c) ==
    /\ Undisturbed /\ Exists(c) /\ Room(c, 1)
    /\ customer' = [customer EXCEPT ![c].identity = "removed"]
    /\ Log(c, <<Note("anonymized", "none")>>)
    /\ UNCHANGED <<billed, edit, refused, recordsInTurn>>

\* Why a customer may not be removed: documents, a connection, audit entries.
BlockedByDocuments(c) == c \in billed
Blocked(c) == c \in billed \/ customer[c].internet \/ history[c] # <<>>

\* hard_delete_customer looks under the lock: the customer is blocked, or another
\* request removed it since this one found it.
Removed(c) == \E i \in DOMAIN history[c] : history[c][i].action = "hard_deleted"
RefuseRemoval(c) ==
    /\ Undisturbed /\ c \notin refused
    /\ IF Exists(c) THEN Blocked(c) ELSE Removed(c) /\ ~recordsInTurn
    /\ refused' = refused \cup {c}
    /\ UNCHANGED <<customer, billed, history, edit, recordsInTurn>>

\* The refusal is logged in a transaction of its own, and is then a reason itself.
LogRefusal(c) ==
    /\ c \in refused /\ Room(c, 1)
    /\ Log(c, <<Note("attempt", "none")>>)
    /\ refused' = refused \ {c}
    /\ UNCHANGED <<customer, billed, edit, recordsInTurn>>

HardDelete(c) ==
    /\ Undisturbed /\ Exists(c) /\ ~Blocked(c) /\ Room(c, 2)
    /\ customer' = Without(c)
    /\ Log(c, <<Note("attempt", "none"), Note("hard_deleted", "none")>>)
    /\ billed' = billed \ {c}
    /\ UNCHANGED <<edit, refused, recordsInTurn>>

--------------------------------------------------------------------------------
RecordStep(c) ==
    \/ \E s \in Statuses, i \in BOOLEAN : CreateCustomer(c, s, i) \/ EnterCustomer(c, s, i)
    \/ NameInDocument(c) \/ SoftDelete(c) \/ RestoreCustomer(c) \/ Anonymize(c)
    \/ RefuseRemoval(c) \/ LogRefusal(c) \/ HardDelete(c)
    \/ \E e \in Editors, post \in Posted : ReadCustomer(e, c, post)

RecordNext ==
    \/ \E c \in Customers : RecordStep(c)
    \/ \E e \in Editors : SaveCustomer(e) \/ GiveUpEdit(e)

RecordSpec == RecordInit /\ [][RecordNext]_recordVars

--------------------------------------------------------------------------------
\* The last entry of a log that satisfies Test, as its position; 0 when none does.
LastWhere(log, Test(_)) ==
    LET at == { i \in DOMAIN log : Test(log[i]) } IN
    IF at = {} THEN 0 ELSE CHOOSE i \in at : \A j \in at : j <= i

SaysStatus(entry) == entry.action \in {"upserted", "soft_deleted"}
StatusAt(log, otherwise) ==
    LET i == LastWhere(log, SaysStatus) IN IF i = 0 THEN otherwise ELSE log[i].to

(* The audit trail accounts for the record: what a change of status names as the   *)
(* status before is what the trail said before that save, and the trail's last      *)
(* word is the status the customer has (upsert_customer reads the old status         *)
(* under the lock).                                                               *)
TrailTellsStatus ==
    \A c \in Customers :
        /\ \A i \in DOMAIN history[c] : history[c][i].action = "status_changed" =>
              /\ history[c][i].from # history[c][i].to
              /\ StatusAt(SubSeq(history[c], 1, i - 2), history[c][i].from) = history[c][i].from
        /\ Exists(c) => StatusAt(history[c], customer[c].status) = customer[c].status

(* "Required when changing customer status. This is saved to the audit trail."       *)
(* (customers/forms.py:22).  One request after the other only: a form that read the   *)
(* status before another edit changed it needs no reason to change it back.           *)
StatusChangesHaveReasons ==
    recordsInTurn => \A c \in Customers, i \in 1..MaxEntries :
        i <= Len(history[c]) /\ history[c][i].action = "status_changed" => history[c][i].reasoned

(* An archived customer is inactive, and the trail's last word is that it was        *)
(* archived ("Archived customer cannot be updated. Restore first.").                 *)
ArchivedIsClosed ==
    \A c \in DOMAIN customer :
        LET Filed(entry) == entry.action \in {"soft_deleted", "restored"}
            i == LastWhere(history[c], Filed)
        IN  /\ customer[c].archived <=> i # 0 /\ history[c][i].action = "soft_deleted"
            /\ customer[c].archived => customer[c].status = "inactive"

(* A customer is removed at most once, when nothing was ever recorded about it, and  *)
(* its trail goes on with refusals alone: those of requests that had found it          *)
(* ("Customer not found.", customers/services.py:646, logged as an attempt).            *)
RemovedLeavesNothing ==
    \A c \in Customers : \A i \in DOMAIN history[c] :
        history[c][i].action = "hard_deleted" =>
            /\ i = 2 /\ ~Exists(c) /\ c \notin billed
            /\ \A j \in DOMAIN history[c] : j > i => history[c][j].action = "attempt"

(* A customer's record and its audit trail agree, however edits and removals overlap. *)
RecordsAreSound ==
    /\ RecordTypeOK
    /\ TrailTellsStatus
    /\ StatusChangesHaveReasons
    /\ ArchivedIsClosed
    /\ RemovedLeavesNothing
==============================================================================
