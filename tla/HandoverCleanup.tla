----------------------------- MODULE HandoverCleanup -----------------------------
(***************************************************************************)
(* The removal of sample rows before a tenant is handed over                  *)
(* (inventory/handover_cleanup.py and its management command): a plan is made   *)
(* from ids that were approved, reviewed, and applied later under locks on      *)
(* every table, while others work and the plan grows old.                        *)
(*                                                                          *)
(* A row here has a kind, one reference and its content; a kind stands for what   *)
(* the policies tell apart.  A foreign key keeps the row it names; a custom value,   *)
(* by the id, and a snapshot, by the SKU, name theirs in a text that keeps nothing.   *)
(* Fingerprint, signature and typed confirmation are left out: a plan is what it was  *)
(* made.  Requests that save a row they read before it was removed are left out as     *)
(* well: the command asks for evidence that writing rests.                          *)
(***************************************************************************)
EXTENDS Naturals

CONSTANTS
    Rows,       \* ids, never used twice
    Plans,      \* plan files, each written once
    MaxEdits,   \* bound on the edits of a row, for model checking
    MaxAge,     \* MAX_AGE
    MaxTime     \* bound on the clock, for model checking

VARIABLES
    kind,      \* fixed: what the row of each id is
    row,       \* rows of the database, by id
    gone,      \* ids of rows that were removed
    session,   \* the support session is open
    build,     \* the code and the migrations deployed
    clock,
    plan,      \* plans made, or being made
    apply,     \* the application under way
    applied    \* plans the audit trail says were applied

cleanupVars == <<kind, row, gone, session, build, clock, plan, apply, applied>>

Operations == {"inventory", "classified_inventory"}
\* A product; a custom value of the row it refers to; a historical record, import job or
\* proposal that quotes a product; another row a policy may remove; one it protects, as a
\* customer's history; one of another tenant, or of none.
Kinds == {"product", "value", "snapshot", "plain", "protected", "foreign"}
Products == { r \in Rows : kind[r] = "product" }
OfTenant(r) == kind[r] # "foreign"

NoRow == "none"

ASSUME CleanupBounds == MaxEdits \in Nat /\ MaxTime \in Nat /\ NoRow \notin Rows

RowOK == [link : Rows \cup {NoRow}, content : 0..MaxEdits]

NoPlan == [at |-> "none"]
NotApplying == "none"
ASSUME PlanNames == NotApplying \notin Plans

CleanupTypeOK ==
    /\ kind \in [Rows -> Kinds]
    /\ DOMAIN row \subseteq Rows /\ \A r \in DOMAIN row : row[r] \in RowOK
    /\ gone \subseteq Rows
    /\ session \in BOOLEAN /\ build \in 0..1 /\ clock \in 0..MaxTime
    /\ \A p \in Plans : plan[p].at \in {"none", "reading", "made"}
    /\ apply \in Plans \cup {NotApplying}
    /\ applied \subseteq Plans

CleanupInit ==
    /\ kind \in [Rows -> Kinds]
    /\ row = <<>> /\ gone = {}
    /\ session = TRUE /\ build = 0 /\ clock = 0
    /\ plan = [p \in Plans |-> NoPlan]
    /\ apply = NotApplying
    /\ applied = {}

Present == DOMAIN row

\* The row that the foreign key of r names.
Texts == {"value", "snapshot"}
Keyed(r) == IF kind[r] \in Texts THEN NoRow ELSE row[r].link

--------------------------------------------------------------------------------
(* What others do: an application holds the tables for one step only, and what no
   plan could see is left out. *)

Watched == \E p \in Plans : plan[p] # NoPlan /\ p \notin applied

\* Nothing refers to a custom value, and a snapshot quotes products.
MayName(r, link) ==
    link # NoRow => kind[link] # "value" /\ (kind[r] = "snapshot" => link \in Products)

AddRow(r, link) ==
    /\ r \notin Present \cup gone
    /\ link \in Present \cup {NoRow} /\ MayName(r, link)
    /\ row' = [q \in Present \cup {r} |->
                 IF q = r THEN [link |-> link, content |-> 0] ELSE row[q]]
    /\ UNCHANGED <<kind, gone, session, build, clock, plan, apply, applied>>

EditRow(r) ==
    /\ Watched /\ r \in Present /\ row[r].content < MaxEdits
    /\ row' = [row EXCEPT ![r].content = @ + 1]
    /\ UNCHANGED <<kind, gone, session, build, clock, plan, apply, applied>>

\* A foreign key keeps its row, a text does not; nothing cascades here.
RemoveRow(r) ==
    /\ Watched /\ r \in Present /\ \A q \in Present : Keyed(q) # r
    /\ row' = [q \in Present \ {r} |-> row[q]]
    /\ gone' = gone \cup {r}
    /\ UNCHANGED <<kind, session, build, clock, plan, apply, applied>>

EndSession ==
    /\ Watched /\ session /\ session' = FALSE
    /\ UNCHANGED <<kind, row, gone, build, clock, plan, apply, applied>>

Deploy ==
    /\ Watched /\ build = 0 /\ build' = 1
    /\ UNCHANGED <<kind, row, gone, session, clock, plan, apply, applied>>

Tick ==
    /\ Watched /\ clock < MaxTime /\ clock' = clock + 1
    /\ UNCHANGED <<kind, row, gone, session, build, plan, apply, applied>>

--------------------------------------------------------------------------------
(* What a plan says. *)

\* owned: the row and everything its foreign keys lead to belong to the tenant.
LeadsTo(r) == { q \in Present :
    \A S \in SUBSET Present :
        r \in S /\ (\A x \in S : Keyed(x) \in S \cup {NoRow}) => q \in S }
Owned(r) == \A q \in LeadsTo(r) : OfTenant(q)

\* The approved ids there are, any other one blocks; their custom values go with them.
Approved(ids) == { r \in ids \cap Present : OfTenant(r) }
Selected(ids) ==
    Approved(ids) \cup { r \in Present : kind[r] = "value" /\ row[r].link \in Approved(ids) }
Unowned(ids) == (ids \ Approved(ids)) \cup { r \in Selected(ids) : ~Owned(r) }

\* The classified policy wants no product left: one that is not approved blocks.
Unreviewed(ids, operation) ==
    IF operation = "classified_inventory"
    THEN { r \in (Present \cap Products) \ ids : OfTenant(r) } ELSE {}

\* Rows that refer to a selected one must be selected, and owned.
Dependents(ids) == { q \in Present : Keyed(q) \in Selected(ids) }
Hanging(ids) == { q \in Dependents(ids) : q \notin Selected(ids) \/ ~Owned(q) }

\* A product a selected row refers to must be selected; any other row is retained.
Endpoints(ids) == { Keyed(r) : r \in Selected(ids) } \ (Selected(ids) \cup {NoRow})
Halved(ids) == Endpoints(ids) \cap Products

\* A snapshot and the product it quotes are selected together.
Quoting(ids) ==
    { q \in Present : /\ kind[q] = "snapshot" /\ row[q].link \in Present
                      /\ (q \in Selected(ids)) # (row[q].link \in Selected(ids)) }

Blockers(ids, operation) ==
    Unowned(ids) \cup Unreviewed(ids, operation)
      \cup Hanging(ids) \cup Halved(ids) \cup Quoting(ids)
      \cup { r \in Selected(ids) : kind[r] = "protected" }

AsRecorded(S) == [r \in S \cap Present |-> row[r]]

\* resolve, its first reads and its later ones.
Affected(ids) == AsRecorded(Selected(ids))
Surroundings(ids, operation) ==
    [dependencies |-> Dependents(ids), retained |-> AsRecorded(Endpoints(ids)),
     blockers |-> Blockers(ids, operation)]

--------------------------------------------------------------------------------
(* make_plan, by the command without --apply: it locks nothing.  normalize takes no
   id of a custom value. *)

StartPlan(p, ids, operation) ==
    /\ plan[p] = NoPlan /\ session
    /\ ids # {} /\ \A r \in ids : kind[r] # "value"
    /\ plan' = [plan EXCEPT ![p] =
                  [at |-> "reading", roots |-> ids, operation |-> operation,
                   affected |-> Affected(ids)]]
    /\ UNCHANGED <<kind, row, gone, session, build, clock, apply, applied>>

FinishPlan(p) ==
    /\ plan[p].at = "reading"
    /\ plan' = [plan EXCEPT ![p] =
                  [at |-> "made", roots |-> plan[p].roots, operation |-> plan[p].operation,
                   affected |-> plan[p].affected,
                   around |-> Surroundings(plan[p].roots, plan[p].operation),
                   created |-> clock, build |-> build]]
    /\ UNCHANGED <<kind, row, gone, session, build, clock, apply, applied>>

--------------------------------------------------------------------------------
(* apply_plan. *)

Expired(p) == clock - plan[p].created > MaxAge

\* authorize and the age of the plan, before any lock.
StartApply(p) ==
    /\ apply = NotApplying /\ plan[p].at = "made" /\ session /\ ~Expired(p)
    /\ apply' = p
    /\ UNCHANGED <<kind, row, gone, session, build, clock, plan, applied>>

\* The same ids, whatever they hold.
SameIds(p) == DOMAIN plan[p].affected = DOMAIN Affected(plan[p].roots)
\* The plan made again under the locks is the plan that was reviewed.
SameRows(p) == plan[p].affected = Affected(plan[p].roots)
Unchanged(p) ==
    /\ session /\ build = plan[p].build
    /\ SameRows(p)
    /\ plan[p].around = Surroundings(plan[p].roots, plan[p].operation)

\* The tables are locked: the check, the deletion, the audit entry are one step.
Commit(p) ==
    /\ apply = p /\ Unchanged(p) /\ plan[p].around.blockers = {}
    /\ row' = [r \in Present \ DOMAIN plan[p].affected |-> row[r]]
    /\ gone' = gone \cup DOMAIN plan[p].affected
    /\ apply' = NotApplying
    /\ applied' = applied \cup {p}
    /\ UNCHANGED <<kind, session, build, clock, plan>>

\* Any exception: nothing is removed, and the failure is recorded.
Fail(p) ==
    /\ apply = p
    /\ apply' = NotApplying
    /\ UNCHANGED <<kind, row, gone, session, build, clock, plan, applied>>

--------------------------------------------------------------------------------
CleanupNext ==
    \/ \E r \in Rows :
          \/ \E link \in Rows \cup {NoRow} : AddRow(r, link)
          \/ EditRow(r) \/ RemoveRow(r)
    \/ EndSession \/ Deploy \/ Tick
    \/ \E p \in Plans :
          \/ \E ids \in SUBSET Rows, operation \in Operations : StartPlan(p, ids, operation)
          \/ FinishPlan(p) \/ StartApply(p) \/ Commit(p) \/ Fail(p)

CleanupSpec == CleanupInit /\ [][CleanupNext]_cleanupVars

--------------------------------------------------------------------------------
(* No foreign key names a row that is not there, and a plan that was applied is       *)
(* spent: what it removed does not come back for a second run of it.                  *)
NothingDangles ==
    /\ \A r \in Present : Keyed(r) \in Present \cup {NoRow}
    /\ \A p \in applied : plan[p].roots \subseteq gone

(* A cleanup removes what was reviewed and nothing else: every row that goes was     *)
(* approved, or a custom value of one that was, is as the plan showed it, belongs    *)
(* to the tenant with all its foreign keys lead to, and is not protected; rows that    *)
(* stay do not change and name, by a key or in a text, none that went; no product       *)
(* that a removed row names stays; and the classified policy leaves no product           *)
(* ("Stale plan: contents, dependencies, policy or database identity changed.",           *)
(* inventory/handover_cleanup.py:514).                                              *)
RemovesWhatWasReviewed ==
    [][\A p \in Plans : Commit(p) =>
          /\ p \notin applied /\ session
          /\ \A r \in Present : r \notin DOMAIN row' =>
                /\ r \in plan[p].roots \/ (kind[r] = "value" /\ row[r].link \in plan[p].roots)
                /\ kind[r] # "protected" /\ row[r] = plan[p].affected[r]
                /\ Owned(r)
                /\ row[r].link \in Products => row[r].link \notin DOMAIN row'
          /\ \A r \in DOMAIN row' : row'[r] = row[r] /\ row[r].link \notin Present \ DOMAIN row'
          /\ plan[p].operation = "classified_inventory" =>
                \A r \in DOMAIN row' : r \in Products => ~OfTenant(r)]_cleanupVars

(* A cleanup is exact, and nothing is left that refers to what it removed.           *)
CleanupIsExact == []CleanupTypeOK /\ []NothingDangles /\ RemovesWhatWasReviewed
==============================================================================
