------------------------------ MODULE Quotations ------------------------------
(***************************************************************************)
(* One quotation number: its versions, their status and the invoices made    *)
(* of them (BillingService of billing/services.py, and the views that call    *)
(* it).                                                                      *)
(*                                                                          *)
(* No handler locks a quotation.  A request reads a version and decides, then *)
(* writes by primary key (QuerySet.update) what it decided; only the          *)
(* uniqueness of number and version stands in between.  With quotesInTurn the *)
(* requests do not overlap.                                                  *)
(***************************************************************************)
EXTENDS Naturals, Sequences

CONSTANTS
    QuoteRequests,  \* requests that may be between their read and their write
    MaxVersions,    \* bound on the versions of the quotation
    MaxGenerated    \* bound on the invoices made of it

ASSUME QuoteBounds == MaxVersions \in Nat \ {0} /\ MaxGenerated \in Nat

VARIABLES
    quote,        \* rows of the quotation, in the order of their creation
    generated,    \* source_quotation of each invoice, in the order of creation
    quoteRequest, \* what each request has read and is about to write
    quotesInTurn

quoteVars == <<quote, generated, quoteRequest, quotesInTurn>>

StorableStatus == {"draft", "sent", "accepted", "rejected", "expired"}

QuoteRow == [no : 1..MaxVersions, parent : 0..MaxVersions, current : BOOLEAN,
             status : StorableStatus \cup {"converted"}, invoice : 0..MaxGenerated]

NoQuoteRequest == [op |-> "none"]

QuoteTypeOK ==
    /\ quote \in Seq(QuoteRow)
    /\ generated \in Seq(1..MaxVersions)
    /\ \A r \in QuoteRequests :
          quoteRequest[r].op # "none" => quoteRequest[r].row \in DOMAIN quote
    /\ quotesInTurn \in BOOLEAN

QuoteInit ==
    /\ quote = <<>> /\ generated = <<>>
    /\ quoteRequest = [r \in QuoteRequests |-> NoQuoteRequest]
    /\ quotesInTurn \in BOOLEAN

--------------------------------------------------------------------------------
NewVersion(no, parent, status) ==
    [no |-> no, parent |-> parent, current |-> TRUE, status |-> status, invoice |-> 0]

CreateQuotation(status) ==
    /\ quote = <<>>
    /\ quote' = <<NewVersion(1, 0, status)>>
    /\ UNCHANGED <<generated, quoteRequest, quotesInTurn>>

\* The editor asks get_quotation_action_state, create_quotation_version nothing.
EditableQuote(row) == row.current /\ row.status = "draft"

MovableFromEnd(row, to) == row.current /\ to # "draft"
Movable(row, to) ==
    /\ row.current
    /\ \/ to = "sent" /\ row.status = "draft"
       \/ to \in {"accepted", "expired"} /\ row.status = "sent"
       \/ to = "rejected" /\ row.status \in {"draft", "sent"}

ConvertibleQuote(row) ==
    /\ row.current /\ row.invoice = 0
    /\ row.status \notin {"rejected", "expired", "converted"}

MayRead(r) == /\ quoteRequest[r] = NoQuoteRequest
              /\ quotesInTurn => \A q \in QuoteRequests : quoteRequest[q] = NoQuoteRequest

ReadVersion(r, v, op, to) ==
    /\ MayRead(r)
    /\ v \in DOMAIN quote
    /\ CASE op = "edit"    -> EditableQuote(quote[v]) /\ to \in StorableStatus
         [] op = "move"    -> Movable(quote[v], to)
         [] op = "convert" -> ConvertibleQuote(quote[v]) /\ to = "converted"
    /\ quoteRequest' = [quoteRequest EXCEPT ![r] = [op |-> op, row |-> v, to |-> to]]
    /\ UNCHANGED <<quote, generated, quotesInTurn>>

QuoteDone(r) == quoteRequest' = [quoteRequest EXCEPT ![r] = NoQuoteRequest]

VersionFree(no) == \A v \in DOMAIN quote : quote[v].no # no

\* create_quotation_version; when another edit took the version it fails.
WriteVersion(r) ==
    LET v == quoteRequest[r].row IN
    /\ quoteRequest[r].op = "edit"
    /\ VersionFree(quote[v].no + 1) /\ Len(quote) < MaxVersions
    /\ quote' = Append([quote EXCEPT ![v].current = FALSE],
                       NewVersion(quote[v].no + 1, v, quoteRequest[r].to))
    /\ QuoteDone(r)
    /\ UNCHANGED <<generated, quotesInTurn>>

\* transition_quotation_status: sent, accepted, rejected, expired.
WriteMove(r) ==
    /\ quoteRequest[r].op = "move"
    /\ quote' = [quote EXCEPT ![quoteRequest[r].row].status = quoteRequest[r].to]
    /\ QuoteDone(r)
    /\ UNCHANGED <<generated, quotesInTurn>>

ConvertedQuote(row, invoice) == [row EXCEPT !.status = "converted", !.invoice = invoice]

WriteConversion(r) ==
    LET v == quoteRequest[r].row IN
    /\ quoteRequest[r].op = "convert" /\ Len(generated) < MaxGenerated
    /\ generated' = Append(generated, v)
    /\ quote' = [quote EXCEPT ![v] = ConvertedQuote(quote[v], Len(generated) + 1)]
    /\ QuoteDone(r)
    /\ UNCHANGED quotesInTurn

\* A customer, a site or an item that is not valid, or a duplicate version.
FailQuoteRequest(r) ==
    /\ quoteRequest[r] # NoQuoteRequest
    /\ QuoteDone(r)
    /\ UNCHANGED <<quote, generated, quotesInTurn>>

QuoteNext ==
    \/ \E status \in StorableStatus : CreateQuotation(status)
    \/ \E r \in QuoteRequests :
          \/ \E v \in DOMAIN quote, op \in {"edit", "move", "convert"},
                to \in StorableStatus \cup {"converted"} : ReadVersion(r, v, op, to)
          \/ WriteVersion(r) \/ WriteMove(r) \/ WriteConversion(r) \/ FailQuoteRequest(r)

QuoteSpec == QuoteInit /\ [][QuoteNext]_quoteVars

--------------------------------------------------------------------------------
(* However edits overlap with edits, status changes and conversions, the       *)
(* versions form one chain whose last one is the only current one              *)
(* (create_quotation_version, uniq_quotation_version_number_per_tenant).       *)
VersionsAreLinear ==
    \A v \in DOMAIN quote : /\ quote[v].no = v /\ quote[v].parent = v - 1
                            /\ quote[v].current <=> v = Len(quote)

(* Every invoice made of a quotation comes from a version that names it, or    *)
(* names one made of the same version later (create_invoice_from_quotation).   *)
ConversionsAreTraceable ==
    /\ \A i \in DOMAIN generated : quote[generated[i]].invoice >= i
    /\ \A v \in DOMAIN quote : quote[v].invoice # 0 => generated[quote[v].invoice] = v

(* One request after the other, a quotation is billed once, over all of its    *)
(* versions.                                                                   *)
QuotedOnceBilledOnce == quotesInTurn => Len(generated) <= 1

(* One request after the other, a rejected, expired or converted quotation     *)
(* gets no other answer, no other version and no other invoice.                *)
AnsweredQuotesStay ==
    [][quotesInTurn /\ quote # <<>> /\ quote[Len(quote)].status \in {"rejected", "expired", "converted"}
         => UNCHANGED <<quote, generated>>]_quoteVars

\* The versions, their status and their invoices agree.
QuotesAgree ==
    QuoteTypeOK /\ VersionsAreLinear /\ ConversionsAreTraceable /\ QuotedOnceBilledOnce

(* A quotation is one chain of versions that is billed once and traceably, and   *)
(* what was answered stays answered.                                          *)
QuotationsAreSound == []QuotesAgree /\ AnsweredQuotesStay
==============================================================================
