----------------------------- MODULE BillingSheets -----------------------------
(***************************************************************************)
(* Billing sheets: lists of charges that become one invoice                  *)
(* (BillingSheetService of billing/services.py, billing_sheet_* and           *)
(* billing_item_* of billing/views.py).                                      *)
(*                                                                          *)
(* Only generate_invoice locks the sheet.  The editors look at its status     *)
(* when they load it and save later, the sheet with all its columns.  The     *)
(* invoice is a draft, whose lines can be replaced until it is issued; its      *)
(* money is in InvoiceLedger.  With sheetsInTurn the requests do not overlap.  *)
(***************************************************************************)
EXTENDS Naturals, FiniteSetsExt

CONSTANTS
    Sheets, Charges, SheetInvoices, \* ids
    SheetRequests,                  \* requests between their read and their write
    Widest                          \* last number that sorts where it counts (9999)

ASSUME SheetIds == IsFiniteSet(Sheets) /\ "none" \notin Sheets /\ Widest \in Nat

VARIABLES
    sheet,        \* rows of the billing sheets
    charge,       \* sheet each charge (BillingItem) is on, or the word none
    sheetInvoice, \* charges each invoice was made of
    sheetLines,   \* those of them it has a line for
    sheetDraft,   \* whether it is still a draft
    rewritten,    \* invoices whose lines were replaced
    sheetRequest, \* what each request has read
    sheetsInTurn

draftVars == <<sheetInvoice, sheetLines, sheetDraft, rewritten>>
sheetVars == <<sheet, charge, draftVars, sheetRequest, sheetsInTurn>>

NoSheet == [ref |-> 0, status |-> "none", invoice |-> {}]
NoSheetRequest == [op |-> "none"]

SheetTypeOK ==
    /\ sheet \in [Sheets -> [ref : 0..Cardinality(Sheets), status : {"none", "open", "invoiced"},
                             invoice : SUBSET SheetInvoices]]
    /\ charge \in [Charges -> Sheets \cup {"none"}]
    /\ sheetInvoice \in [SheetInvoices -> SUBSET Charges]
    /\ sheetLines \in [SheetInvoices -> SUBSET Charges]
    /\ sheetDraft \in [SheetInvoices -> {"none", "draft", "issued"}]
    /\ rewritten \subseteq SheetInvoices
    /\ \A r \in SheetRequests : sheetRequest[r].op \in
          {"none", "create", "edit", "add", "delete", "change", "lines"}
    /\ sheetsInTurn \in BOOLEAN

SheetInit ==
    /\ sheet = [s \in Sheets |-> NoSheet]
    /\ charge = [c \in Charges |-> "none"]
    /\ sheetInvoice = [i \in SheetInvoices |-> {}]
    /\ sheetLines = [i \in SheetInvoices |-> {}]
    /\ sheetDraft = [i \in SheetInvoices |-> "none"]
    /\ rewritten = {}
    /\ sheetRequest = [r \in SheetRequests |-> NoSheetRequest]
    /\ sheetsInTurn \in BOOLEAN

--------------------------------------------------------------------------------
Made == { s \in Sheets : sheet[s].status # "none" }
OnSheet(s) == { c \in Charges : charge[c] = s }
SheetOpen(s) == sheet[s].status = "open"

SheetAlone(r) == /\ sheetRequest[r] = NoSheetRequest
                 /\ sheetsInTurn => \A q \in SheetRequests : sheetRequest[q] = NoSheetRequest
SheetReads(r, what) == /\ SheetAlone(r)
                       /\ sheetRequest' = [sheetRequest EXCEPT ![r] = what]
                       /\ UNCHANGED <<sheet, charge, draftVars, sheetsInTurn>>
SheetDone(r) == sheetRequest' = [sheetRequest EXCEPT ![r] = NoSheetRequest]

\* The maximum is taken of texts: four digits sort after five.
References == { sheet[s].ref : s \in Made }
NextReference == Max({0} \cup { n \in References : n <= Widest }) + 1

ReadReference(r) == SheetReads(r, [op |-> "create", ref |-> NextReference])

ReferenceFree(n) == n \notin References

CreateSheet(r, s) ==
    /\ sheetRequest[r].op = "create" /\ s \notin Made
    /\ ReferenceFree(sheetRequest[r].ref)
    /\ sheet' = [sheet EXCEPT ![s] =
                    [ref |-> sheetRequest[r].ref, status |-> "open", invoice |-> {}]]
    /\ SheetDone(r)
    /\ UNCHANGED <<charge, draftVars, sheetsInTurn>>

ReadOpenSheet(r, s, op) ==
    /\ SheetOpen(s)
    /\ SheetReads(r, [op |-> op, sheet |-> s, row |-> sheet[s]])

\* form.save() writes every column of the sheet as it was read.
SavedSheet(row, read) == read

WriteSheet(r) ==
    LET s == sheetRequest[r].sheet IN
    /\ sheetRequest[r].op = "edit"
    /\ sheet' = [sheet EXCEPT ![s] = SavedSheet(sheet[s], sheetRequest[r].row)]
    /\ SheetDone(r)
    /\ UNCHANGED <<charge, draftVars, sheetsInTurn>>

AddCharge(r, c) ==
    /\ sheetRequest[r].op = "add" /\ charge[c] = "none"
    /\ charge' = [charge EXCEPT ![c] = sheetRequest[r].sheet]
    /\ SheetDone(r)
    /\ UNCHANGED <<sheet, draftVars, sheetsInTurn>>

DeleteCharge(r, c) ==
    /\ sheetRequest[r].op = "delete" /\ c \in OnSheet(sheetRequest[r].sheet)
    /\ charge' = [charge EXCEPT ![c] = "none"]
    /\ SheetDone(r)
    /\ UNCHANGED <<sheet, draftVars, sheetsInTurn>>

ReadCharge(r, s, c) ==
    /\ SheetOpen(s) /\ c \in OnSheet(s)
    /\ SheetReads(r, [op |-> "change", sheet |-> s, charge |-> c])

\* An update that finds no row inserts one: a charge deleted meanwhile is back.
ChangeCharge(r) ==
    /\ sheetRequest[r].op = "change"
    /\ charge' = [charge EXCEPT ![sheetRequest[r].charge] = sheetRequest[r].sheet]
    /\ SheetDone(r)
    /\ UNCHANGED <<sheet, draftVars, sheetsInTurn>>

InvoiceableAgain(s) == sheet[s].status # "none" /\ OnSheet(s) # {}
Invoiceable(s) == SheetOpen(s) /\ OnSheet(s) # {}

\* The sheet is locked from the check of its status to the commit.
GenerateInvoice(s, i) ==
    /\ \A r \in SheetRequests : sheetsInTurn => sheetRequest[r] = NoSheetRequest
    /\ Invoiceable(s) /\ sheetDraft[i] = "none"
    /\ sheetInvoice' = [sheetInvoice EXCEPT ![i] = OnSheet(s)]
    /\ sheetLines' = [sheetLines EXCEPT ![i] = OnSheet(s)]
    /\ sheetDraft' = [sheetDraft EXCEPT ![i] = "draft"]
    /\ sheet' = [sheet EXCEPT ![s].status = "invoiced", ![s].invoice = {i}]
    /\ UNCHANGED <<charge, rewritten, sheetRequest, sheetsInTurn>>

\* update_draft_invoice looks at the status before any lock.
ReadDraft(r, i) ==
    /\ sheetDraft[i] = "draft"
    /\ SheetReads(r, [op |-> "lines", invoice |-> i])

\* It deletes the lines and inserts those of the form, however old that is: some
\* of those the invoice was made with, and others.
WriteLines(r, lines, status) ==
    LET i == sheetRequest[r].invoice IN
    /\ sheetRequest[r].op = "lines" /\ lines \subseteq sheetInvoice[i]
    /\ sheetLines' = [sheetLines EXCEPT ![i] = lines]
    /\ sheetDraft' = [sheetDraft EXCEPT ![i] = status]
    /\ rewritten' = rewritten \cup {i}
    /\ SheetDone(r)
    /\ UNCHANGED <<sheet, charge, sheetInvoice, sheetsInTurn>>

FailSheetRequest(r) ==
    /\ sheetRequest[r] # NoSheetRequest
    /\ SheetDone(r)
    /\ UNCHANGED <<sheet, charge, draftVars, sheetsInTurn>>

SheetNext ==
    \/ \E r \in SheetRequests :
          \/ ReadReference(r)
          \/ \E s \in Sheets : CreateSheet(r, s)
          \/ \E s \in Sheets, op \in {"edit", "add", "delete"} : ReadOpenSheet(r, s, op)
          \/ \E s \in Sheets, c \in Charges : ReadCharge(r, s, c)
          \/ WriteSheet(r) \/ ChangeCharge(r)
          \/ \E c \in Charges : AddCharge(r, c) \/ DeleteCharge(r, c)
          \/ \E i \in SheetInvoices : ReadDraft(r, i)
          \/ \E lines \in SUBSET Charges, status \in {"draft", "issued"} : WriteLines(r, lines, status)
          \/ FailSheetRequest(r)
    \/ \E s \in Sheets, i \in SheetInvoices : GenerateInvoice(s, i)

SheetSpec == SheetInit /\ [][SheetNext]_sheetVars

--------------------------------------------------------------------------------
(* References of the day run on without a gap or a duplicate although the      *)
(* maximum is read without a lock (_next_reference, create_sheet).             *)
ReferencesRunOn ==
    References = 1..Cardinality(Made)

(* A sheet that stays invoiced names an invoice, and no two sheets name one      *)
(* invoice; an open one names none.                                             *)
SheetsNameInvoices ==
    /\ \A s \in Made : IF sheet[s].status = "open" THEN sheet[s].invoice = {}
                       ELSE \E i \in sheet[s].invoice : sheetDraft[i] # "none"
    /\ \A s, t \in Made : s # t => sheet[s].invoice \cap sheet[t].invoice = {}

(* One request after the other, the invoice of a sheet bills exactly the       *)
(* charges the sheet shows until the lines of the draft are replaced, and some   *)
(* of them at most afterwards; no charge is on the invoices of two sheets,        *)
(* however sheets and drafts are edited in between.                             *)
ChargesBilledAsShown ==
    sheetsInTurn =>
       /\ \A s \in Made : \A i \in sheet[s].invoice :
             /\ sheetLines[i] \subseteq OnSheet(s)
             /\ i \notin rewritten => sheetLines[i] = OnSheet(s)
       /\ \A i, j \in SheetInvoices : i # j => sheetLines[i] \cap sheetLines[j] = {}

(* The sheets, their references, charges and invoices agree.                   *)
SheetsAreSound ==
    SheetTypeOK /\ ReferencesRunOn /\ SheetsNameInvoices /\ ChargesBilledAsShown
==============================================================================
