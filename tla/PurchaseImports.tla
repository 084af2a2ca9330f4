---------------------------- MODULE PurchaseImports ----------------------------
(***************************************************************************)
(* Rows pasted into a purchase draft (inventory/purchase_batch.py, the        *)
(* purchase workspace of inventory/views.py) and what becomes of them when     *)
(* the purchase is confirmed (confirm_purchase of inventory/services.py).      *)
(*                                                                          *)
(* A row names a product of the catalogue or proposes a new one; rows that     *)
(* share a staging reference propose one product.  A save that carries rows    *)
(* locks the business and leaves a receipt under its token.  The status of the *)
(* draft is read before that, without a lock.                                *)
(***************************************************************************)
EXTENDS Naturals, FiniteSets, Sequences, SequencesExt

CONSTANTS
    Purchases, Tokens, References, \* ids; References are proposed products
    Batches,                       \* sets of rows that can be pasted together
    Workspaces,                    \* saves of a draft between read and write
    MaxLines                       \* bound on the lines of a purchase

Known == "catalogue"   \* what a row that matches a product refers to
PastedRows == [ref : References \cup {Known}, n : 1..2]

ASSUME BatchesAreRows == Batches \subseteq (SUBSET PastedRows) \ {{}}
ASSUME LinesBound == MaxLines \in Nat /\ Known \notin References /\ IsFiniteSet(References)
ASSUME ImportNames ==
    "none" \notin Tokens \cup Purchases \cup Workspaces /\ "elsewhere" \notin Purchases

VARIABLES
    draft,      \* purchases: status, lines, proposals and the token of these
    catalogue,  \* how each proposed product first came into the catalogue
    receipts,   \* purchase each token was applied to, or the word none
    workspace,  \* what each save has read and is about to write
    business    \* the save that holds the row of the business, or none

importVars == <<draft, catalogue, receipts, workspace, business>>

NoDraft == [status |-> "none", lines |-> <<>>, proposals |-> {}, by |-> "none"]
NoWorkspace == [at |-> "none"]
Line == [row : PastedRows, by : Tokens \cup {"none"}]

ImportTypeOK ==
    /\ draft \in [Purchases -> [status : {"none", "draft", "confirmed"}, lines : Seq(Line),
                                proposals : SUBSET PastedRows, by : Tokens \cup {"none"}]]
    /\ catalogue \in [References -> Purchases \cup {"none", "elsewhere"}]
    /\ receipts \in [Tokens -> Purchases \cup {"none"}]
    /\ \A w \in Workspaces : workspace[w].at \in {"none", "read", "checked"}
    /\ business \in Workspaces \cup {"none"}

ImportInit ==
    /\ draft = [p \in Purchases |-> NoDraft]
    /\ catalogue = [r \in References |-> "none"]
    /\ receipts = [t \in Tokens |-> "none"]
    /\ workspace = [w \in Workspaces |-> NoWorkspace]
    /\ business = "none"

--------------------------------------------------------------------------------
Proposed(rows) == { row \in rows : row.ref # Known }
RefsOf(rows) == { row.ref : row \in Proposed(rows) }

\* validate_rows: a proposed product must not be in the catalogue.
StillNew(rows) == \A r \in RefsOf(rows) : catalogue[r] = "none"

Origin(r, p) == IF catalogue[r] = "none" THEN p ELSE catalogue[r]
\* Products are created when the purchase is received, not for a draft.
CatalogueAtOnce(rows, p, receiving) ==
    [r \in References |-> IF r \in RefsOf(rows) THEN Origin(r, p) ELSE catalogue[r]]
CatalogueAfter(rows, p, receiving) ==
    [r \in References |-> IF receiving /\ r \in RefsOf(rows) THEN Origin(r, p) ELSE catalogue[r]]

\* One line for each row.
LinesOf(rows, t) == SetToSeq({ [row |-> row, by |-> t] : row \in rows })

\* The lines that are kept, in their order.
Position(kept, k) == CHOOSE i \in kept : Cardinality({ j \in kept : j <= i }) = k
Kept(lines, kept) == [k \in 1..Cardinality(kept) |-> lines[Position(kept, k)]]

\* apply_purchase_batch while drafting: lines for matches, proposals for the rest.
Drafted(p, lines, rows, t) ==
    [status |-> "draft", lines |-> lines \o LinesOf(rows \ Proposed(rows), t),
     proposals |-> Proposed(rows), by |-> t]

NotApplied(t) == t \in Tokens => receipts[t] = "none"
Receipt(t, p) == receipts' = [s \in Tokens |-> IF s = t THEN p ELSE receipts[s]]

\* purchase_create, with rows under a token or with typed lines only.
CreateDraft(p, t, rows) ==
    /\ draft[p].status = "none"
    /\ IF t = "none" THEN rows \subseteq [ref : {Known}, n : 1..2]
                     ELSE business = "none" /\ rows \in Batches
    /\ NotApplied(t) /\ StillNew(rows)
    /\ draft' = [draft EXCEPT ![p] = Drafted(p, <<>>, rows, t)]
    /\ catalogue' = CatalogueAfter(rows, p, FALSE)
    /\ Receipt(t, p)
    /\ UNCHANGED <<workspace, business>>

\* purchase_edit: the draft is read.
OpenDraft(w, p, t, rows) ==
    /\ workspace[w] = NoWorkspace /\ draft[p].status = "draft"
    /\ IF t = "none" THEN rows = {} ELSE rows \in Batches
    /\ workspace' = [workspace EXCEPT ![w] = [at |-> "read", draft |-> p, by |-> t, rows |-> rows]]
    /\ UNCHANGED <<draft, catalogue, receipts, business>>

\* Lock of the business and search for a receipt (if rows are pasted), then the
\* check of the stored status in Purchase.save.
CheckDraft(w) ==
    /\ workspace[w].at = "read"
    /\ workspace[w].by # "none" => business = "none"
    /\ NotApplied(workspace[w].by)
    /\ draft[workspace[w].draft].status # "confirmed"
    /\ business' = IF workspace[w].by = "none" THEN business ELSE w
    /\ workspace' = [workspace EXCEPT ![w].at = "checked"]
    /\ UNCHANGED <<draft, catalogue, receipts>>

CloseWorkspace(w) ==
    /\ workspace' = [workspace EXCEPT ![w] = NoWorkspace]
    /\ business' = IF business = w THEN "none" ELSE business

\* The purchase is written with the status that was read; the lines that are kept
\* stay, the proposals are those of this submission.
SaveDraft(w, kept) ==
    LET save == workspace[w]
        lines == draft[save.draft].lines
        new == Drafted(save.draft, Kept(lines, kept), save.rows, save.by) IN
    /\ save.at = "checked"
    /\ kept \subseteq DOMAIN lines /\ StillNew(save.rows)
    /\ Len(new.lines) <= MaxLines
    /\ draft' = [draft EXCEPT ![save.draft] = new]
    /\ catalogue' = CatalogueAfter(save.rows, save.draft, FALSE)
    /\ Receipt(save.by, save.draft)
    /\ CloseWorkspace(w)

\* A replay of a receipt, other content under its token, or rows that are not valid.
FailDraft(w) ==
    /\ workspace[w] # NoWorkspace
    /\ CloseWorkspace(w)
    /\ UNCHANGED <<draft, catalogue, receipts>>

\* The purchase is locked, with proposals the business too.
ConfirmDraft(p) ==
    LET d == draft[p]
        lines == d.lines \o LinesOf(d.proposals, d.by) IN
    /\ d.status = "draft"
    /\ d.proposals # {} => business = "none"
    /\ StillNew(d.proposals)
    /\ lines # <<>>
    /\ draft' = [draft EXCEPT ![p] = [d EXCEPT !.status = "confirmed", !.lines = lines,
                                               !.proposals = {}]]
    /\ catalogue' = CatalogueAfter(d.proposals, p, TRUE)
    /\ UNCHANGED <<receipts, workspace, business>>

\* The product is created in another way; its creator locks the business.
CreateElsewhere(r) ==
    /\ business = "none" /\ catalogue[r] = "none"
    /\ catalogue' = [catalogue EXCEPT ![r] = "elsewhere"]
    /\ UNCHANGED <<draft, receipts, workspace, business>>

ImportNext ==
    \/ \E p \in Purchases, t \in Tokens \cup {"none"}, rows \in SUBSET PastedRows :
          CreateDraft(p, t, rows)
    \/ \E w \in Workspaces :
          \/ \E p \in Purchases, t \in Tokens \cup {"none"}, rows \in Batches \cup {{}} :
                OpenDraft(w, p, t, rows)
          \/ CheckDraft(w) \/ FailDraft(w)
          \/ \E kept \in SUBSET (1..MaxLines) : SaveDraft(w, kept)
    \/ \E p \in Purchases : ConfirmDraft(p)
    \/ \E r \in References : CreateElsewhere(r)

ImportSpec == ImportInit /\ [][ImportNext]_importVars

--------------------------------------------------------------------------------
Carrying(t, row) ==
    { place \in Purchases \X (1..(MaxLines + Cardinality(PastedRows))) :
         /\ place[2] \in DOMAIN draft[place[1]].lines
         /\ draft[place[1]].lines[place[2]] = [row |-> row, by |-> t] }
    \cup { <<p, 0>> : p \in { p \in Purchases : row \in draft[p].proposals /\ draft[p].by = t } }

(* A batch sent again, with the same or another content, to the same or another *)
(* draft, adds nothing: each of its rows is on the purchase of the receipt at    *)
(* most once (_import_replay, the receipt in _save_purchase_draft).             *)
AppliedOnce ==
    \A t \in Tokens, row \in PastedRows :
        /\ Cardinality(Carrying(t, row)) <= 1
        /\ \A c \in Carrying(t, row) : c[1] = receipts[t]

(* What was reviewed as a new product is received as a product that this        *)
(* purchase created, whoever else received or created the like in between, and  *)
(* a confirmed purchase proposes nothing any more.                              *)
ReceivedAsReviewed ==
    \A p \in Purchases :
        /\ \A i \in DOMAIN draft[p].lines :
              draft[p].lines[i].row.ref \in References => catalogue[draft[p].lines[i].row.ref] = p
        /\ draft[p].status = "confirmed" => draft[p].proposals = {}

(* Saving and editing a draft leave the catalogue alone: the purchase creates    *)
(* its products in the step that receives it.                                   *)
DraftsLeaveCatalogue ==
    [][\A r \in References : catalogue'[r] # catalogue[r] /\ catalogue'[r] \in Purchases
         => draft[catalogue'[r]].status = "draft" /\ draft'[catalogue'[r]].status = "confirmed"]_importVars

(* Pasted rows arrive once and as they were reviewed, and before they arrive no     *)
(* product of theirs is in the catalogue.                                       *)
ImportsAreSound ==
    []ImportTypeOK /\ []AppliedOnce /\ []ReceivedAsReviewed /\ DraftsLeaveCatalogue
================================================================================
