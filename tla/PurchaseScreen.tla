----------------------------- MODULE PurchaseScreen -----------------------------
(***************************************************************************)
(* The import dialog of the purchase form (purchase-import.js), its serial      *)
(* check (serial-validation.js) and the answers of purchase_rows_preview.      *)
(*                                                                          *)
(* A request of the dialog carries the revision it was made at and its answer   *)
(* is dropped when the revision has moved since, so raising the revision        *)
(* silences every request: only the requests that are still listened to are     *)
(* kept.  Saving an item, going on to the summary and adding the items first    *)
(* wait for a serial check; any change restarts it, and the call that waited    *)
(* is given up.  Nothing is read again after that wait.                        *)
(***************************************************************************)
EXTENDS Naturals, FiniteSets

CONSTANTS
    Texts, SerialNumbers, NumbersIn,   \* what a row may say, the serial numbers in it
    Files, NoFile,               \* contents of the source field
    Slots,                       \* bound on the requests at once
    MaxRows                      \* bound on the rows of a source

ASSUME ScreenNames == NumbersIn \in [Texts -> SUBSET SerialNumbers] /\ NoFile \notin Files
ASSUME ScreenBounds == MaxRows \in Nat

VARIABLES
    content, mapping,  \* what is in the source field; the choice of its columns
    rows, origin,     \* the rows on the page, the source they were read from
    step, open,       \* page of the dialog, and whether it is shown
    editing,           \* the row in the editor: 0 none, OldRow one that is no row
    busy, locked,     \* busy, and busy when the list was last drawn
    posts,            \* requests whose answer is still listened to
    check, waiting,   \* the call that the serial check of the dialog holds up,
                      \* and whether it asks the server
    overlapped,       \* a request was made while another was under way
    hidden, typed,    \* the form: rows added to it, serial numbers typed in it
    submitCheck       \* the serial numbers its submission asked about

sourceVars == <<content, mapping>>
rowVars == <<rows, origin>>
viewVars == <<step, open, editing>>
requestVars == <<busy, locked, posts, overlapped>>
formVars == <<hidden, typed>>
checkVars == <<check, waiting, submitCheck>>
screenVars == <<sourceVars, rowVars, viewVars, requestVars, formVars, checkVars>>

OldRow == MaxRows + 1
Tables(S) == UNION { [1..n -> S] : n \in 0..MaxRows }
NoRows == [i \in 1..0 |-> 0]
SentRow == [text : Texts, excluded : BOOLEAN]
Row == [text : Texts, excluded : BOOLEAN, valid : BOOLEAN]
Post == [kind : {"none", "source", "columns", "review"}, rows : Tables(SentRow), flag : BOOLEAN]
NoPost == [kind |-> "none", rows |-> NoRows, flag |-> FALSE]
Request(kind, table, flag) == [kind |-> kind, rows |-> table, flag |-> flag]

ScreenTypeOK ==
    /\ content \in Files \cup {NoFile} /\ origin \in Files \cup {NoFile}
    /\ mapping \in {"none", "open", "ready", "stale"}
    /\ rows \in Tables(Row) /\ hidden \in Tables(SentRow)
    /\ step \in 1..3 /\ editing \in {0, OldRow} \cup DOMAIN rows
    /\ {open, busy, locked, overlapped, waiting} \subseteq BOOLEAN
    /\ posts \in [Slots -> Post]
    /\ check \in {"none", "save", "next", "summary", "apply"}
    /\ typed \subseteq SerialNumbers /\ submitCheck \in SUBSET SUBSET SerialNumbers

--------------------------------------------------------------------------------
\* compact: what is sent or added of a row; its verdict is left behind.
Compact == [i \in DOMAIN rows |-> [text |-> rows[i].text, excluded |-> rows[i].excluded]]
Read(texts) == [i \in DOMAIN texts |-> [text |-> texts[i], excluded |-> FALSE]]
Numbers(table, i) == IF table[i].excluded THEN {} ELSE NumbersIn[table[i].text]

\* validate_rows: the catalogue, the units and the serial numbers in stock may
\* refuse any row; a repeated serial number always does.
Passes(table, refused, i) ==
    \/ table[i].excluded
    \/ /\ i \notin refused
       /\ \A j \in 1..(i - 1) : Numbers(table, j) \cap Numbers(table, i) = {}
Checked(table, refused) ==
    [i \in DOMAIN table |-> [text |-> table[i].text, excluded |-> table[i].excluded,
                             valid |-> Passes(table, refused, i)]]

Included == { i \in DOMAIN rows : ~rows[i].excluded }
Attention == { i \in Included : ~rows[i].valid }
Ready == Included # {} /\ Attention = {}

\* duplicates: no serial number twice among the given rows and those typed.
Distinct(table) ==
    \A i \in DOMAIN table :
        /\ Numbers(table, i) \cap typed = {}
        /\ \A j \in DOMAIN table \ {i} : Numbers(table, i) \cap Numbers(table, j) = {}
DialogNumbers == typed \cup UNION { Numbers(rows, i) : i \in DOMAIN rows }
FormNumbers == typed \cup UNION { Numbers(hidden, i) : i \in DOMAIN hidden }

Awaited == { s \in Slots : posts[s] # NoPost }
StillHeard == UNCHANGED posts
Silence == posts' = [s \in Slots |-> NoPost]
Start(request) ==
    \E s \in Slots \ Awaited : posts' = [posts EXCEPT ![s] = request]
StartAlone(request) ==
    \E s \in Slots : posts' = [t \in Slots |-> IF t = s THEN request ELSE NoPost]
Answered(s) == posts' = [posts EXCEPT ![s] = NoPost] /\ busy' = FALSE

\* schedule: what waited is given up.  An event in the dialog reaches the form
\* as well; a click reaches it only when a field of serial numbers comes or goes.
NoCheck == check' = "none" /\ waiting' = FALSE
Restart == NoCheck /\ submitCheck' \in {submitCheck, {}}
Redraw == UNCHANGED checkVars \/ (NoCheck /\ submitCheck' = {})
\* validate of the controller: without a serial number it asks nothing.  Numbers it
\* has verified already are accepted at once: a wait that ends with the next step.
Hold(what) == check' = what /\ waiting' = (DialogNumbers' # {})

\* active = null: the editor goes on showing the row it had.
Detached == IF editing = 0 THEN 0 ELSE OldRow
Drawn == locked' = busy'

ScreenInit ==
    /\ content = NoFile /\ mapping = "none" /\ rows = NoRows /\ origin = NoFile
    /\ step = 1 /\ open = FALSE /\ editing = 0
    /\ busy = FALSE /\ locked = FALSE /\ overlapped = FALSE
    /\ posts = [s \in Slots |-> NoPost]
    /\ check = "none" /\ waiting = FALSE /\ submitCheck = {} /\ hidden = NoRows /\ typed = {}

--------------------------------------------------------------------------------
\* The source is typed, chosen, removed or read in another format (an event), or
\* the other method of entry is selected (a click).
ChooseSource(f) ==
    /\ open /\ step = 1
    /\ content' = f /\ mapping' = "none" /\ rows' = NoRows /\ origin' = NoFile
    /\ editing' = 0 /\ Silence /\ busy' = FALSE /\ Drawn /\ overlapped' = FALSE
    /\ Restart \/ Redraw
    /\ UNCHANGED <<step, open, formVars>>

\* validate(true).
ReviewSource ==
    /\ open /\ step = 1 /\ ~busy
    /\ content # NoFile /\ mapping \in {"none", "ready"}
    /\ Start(Request("source", NoRows, mapping = "ready"))
    /\ busy' = TRUE
    /\ overlapped' = (overlapped \/ Awaited # {} \/ check # "none")
    /\ UNCHANGED <<sourceVars, rowVars, viewVars, locked, formVars, checkVars>>

\* inspectColumns; asked by another choice of the heading it drops the rows first.
AskColumns ==
    /\ open /\ step = 1 /\ ~busy /\ content # NoFile
    /\ StartAlone(Request("columns", NoRows, FALSE))
    /\ busy' = TRUE
    /\ \/ UNCHANGED <<mapping, rowVars, editing, locked, checkVars>>
       \/ /\ mapping # "none" /\ mapping' = "stale"
          /\ rows' = NoRows /\ origin' = NoFile /\ editing' = Detached
          /\ locked' = FALSE /\ Restart
    /\ overlapped' = (overlapped \/ check' # "none")
    /\ UNCHANGED <<content, step, open, formVars>>

\* A column is given another field, or every column none.
ChooseColumns(reset) ==
    /\ open /\ step = 1 /\ mapping # "none"
    /\ mapping' \in IF mapping = "stale" THEN {"stale"}
                    ELSE IF reset THEN {"open"} ELSE {"open", "ready"}
    /\ rows' = NoRows /\ origin' = NoFile /\ editing' = Detached
    /\ Silence /\ busy' = FALSE /\ Drawn
    /\ IF reset THEN UNCHANGED checkVars ELSE Restart
    /\ UNCHANGED <<content, step, open, overlapped, formVars>>

\* renderMapping.
ShowColumns ==
    /\ mapping' \in {"open", "ready"}
    /\ rows' = NoRows /\ origin' = NoFile /\ editing' = Detached /\ step' = 1
    /\ UNCHANGED checkVars

\* parse_input and validate_rows read the source, or ask for a mapping when none
\* was sent.
AnswerSource(s) ==
    /\ posts[s].kind = "source" /\ Answered(s) /\ Drawn
    /\ \/ \E texts \in Tables(Texts) \ {NoRows}, refused \in SUBSET (1..MaxRows) :
              /\ rows' = Checked(Read(texts), refused) /\ origin' = content
              /\ step' = 2 /\ editing' = Detached
              /\ UNCHANGED <<mapping, checkVars>>
       \/ ~posts[s].flag /\ ShowColumns
    /\ UNCHANGED <<content, open, overlapped, formVars>>

AnswerColumns(s) ==
    /\ posts[s].kind = "columns" /\ Answered(s) /\ Drawn /\ ShowColumns
    /\ UNCHANGED <<content, open, overlapped, formVars>>

\* The next row needing attention after the one in the editor, else the first.
NextRow ==
    LET all == { i \in DOMAIN rows' : ~rows'[i].excluded /\ ~rows'[i].valid }
        later == { i \in all : i > editing \/ editing \in {0, OldRow} }
        from == IF later = {} THEN all ELSE later IN
    IF all = {} THEN IF editing \in DOMAIN rows' THEN editing ELSE Detached
    ELSE CHOOSE i \in from : \A j \in from : i <= j

AnswerReview(s) ==
    /\ posts[s].kind = "review" /\ posts[s].rows # NoRows /\ Answered(s) /\ Drawn
    /\ \E refused \in SUBSET (1..MaxRows) : rows' = Checked(posts[s].rows, refused)
    /\ editing' = IF posts[s].flag THEN NextRow
                 ELSE IF editing \in DOMAIN posts[s].rows THEN editing ELSE Detached
    /\ Redraw
    /\ UNCHANGED <<sourceVars, origin, step, open, overlapped, formVars>>

\* No answer, or a refusal of the whole request.
FailPost(s) ==
    /\ posts[s] # NoPost /\ Answered(s)
    /\ UNCHANGED <<sourceVars, rowVars, viewVars, locked, overlapped, formVars, checkVars>>

--------------------------------------------------------------------------------
\* openRow; another filter, page or selection only draws the list again.
OpenRow(i) ==
    /\ open /\ step = 2 /\ i \in DOMAIN rows \cup {editing}
    /\ editing' = i /\ locked' = busy /\ Redraw
    /\ UNCHANGED <<sourceVars, rowVars, step, open, busy, posts, overlapped, formVars>>

\* changed(row).  Including a row again and confirming a match save it at once.
Change(i, text, save) ==
    /\ open /\ step = 2 /\ editing = i
    /\ IF i = OldRow THEN UNCHANGED rows
       ELSE /\ rows[i].excluded => save /\ text = rows[i].text
            /\ rows' = [rows EXCEPT ![i] = [text |-> text, excluded |-> FALSE, valid |-> FALSE]]
    /\ Silence /\ busy' = FALSE /\ Drawn
    /\ UNCHANGED <<sourceVars, origin, viewVars, overlapped, formVars>>
    /\ IF save THEN Hold("save") /\ submitCheck' \in {submitCheck, {}} ELSE Restart

\* The requests are silenced, but busy is left as it is.
Exclude(selected) ==
    /\ open /\ step = 2 /\ ~locked /\ selected \subseteq DOMAIN rows
    /\ rows' = [i \in DOMAIN rows |->
                   IF i \in selected THEN [rows[i] EXCEPT !.excluded = TRUE, !.valid = TRUE]
                   ELSE rows[i]]
    /\ Silence /\ locked' = busy /\ Redraw
    /\ UNCHANGED <<sourceVars, origin, viewVars, busy, overlapped, formVars>>

\* The category and unit of selected new items; then validate(false).
BulkApply(selected, text) ==
    /\ open /\ step = 2 /\ ~locked /\ selected # {} /\ selected \subseteq Included
    /\ rows' = [i \in DOMAIN rows |->
                   IF i \in selected THEN [text |-> text, excluded |-> FALSE, valid |-> FALSE]
                   ELSE rows[i]]
    /\ Silence /\ locked' = busy
    /\ UNCHANGED <<sourceVars, origin, viewVars, busy, overlapped, formVars, submitCheck>>
    /\ IF busy THEN UNCHANGED <<check, waiting>> ELSE Hold("save")

\* The buttons that wait for the serial check: validate(false), the summary, apply.
AskCheck(what) ==
    /\ open /\ ~busy
    /\ \/ /\ what \in {"save", "next"} /\ step = 2
          /\ editing # 0 /\ (editing # OldRow => ~rows[editing].excluded)
       \/ what = "summary" /\ step = 2 /\ Ready
       \/ what = "apply" /\ step = 3 /\ Ready
    /\ UNCHANGED <<sourceVars, rowVars, viewVars, requestVars, formVars, submitCheck>>
    /\ Hold(what)

\* Found taken or repeated, or the workspace would grow too large.
RefuseCheck ==
    /\ check # "none" /\ NoCheck
    /\ UNCHANGED <<sourceVars, rowVars, viewVars, requestVars, formVars, submitCheck>>

\* The check passed: validate(false) sends the rows, whatever is under way by now.
SendReview ==
    /\ check \in {"save", "next"} /\ Distinct(Compact)
    /\ Start(Request("review", Compact, check = "next"))
    /\ busy' = TRUE /\ overlapped' = (overlapped \/ Awaited # {})
    /\ NoCheck
    /\ UNCHANGED <<sourceVars, rowVars, viewVars, locked, formVars, submitCheck>>

ShowSummary ==
    /\ check = "summary" /\ Distinct(Compact)
    /\ step' = 3 /\ NoCheck
    /\ UNCHANGED <<sourceVars, rowVars, open, editing, requestVars, formVars, submitCheck>>

\* apply, after the wait; the form is told that its rows changed.
AddItems ==
    /\ check = "apply" /\ Distinct(Compact)
    /\ hidden' = Compact /\ open' = FALSE
    /\ NoCheck /\ submitCheck' = {}
    /\ UNCHANGED <<sourceVars, rowVars, step, editing, requestVars, typed>>

\* Back (or another source), close, and show again.
Turn ==
    /\ \/ open /\ step > 1 /\ step' = step - 1 /\ UNCHANGED open
       \/ open /\ open' = FALSE /\ UNCHANGED step
       \/ ~open /\ open' = TRUE /\ step' = IF rows = NoRows THEN 1 ELSE 2
    /\ UNCHANGED <<sourceVars, rowVars, editing, requestVars, formVars, checkVars>>

--------------------------------------------------------------------------------
\* Serial numbers of a line are typed, or a line is added or removed; the added
\* rows are cleared.
ChangeForm(numbers, table) ==
    /\ ~open
    /\ typed' = numbers /\ hidden' = table /\ submitCheck' = {}
    /\ UNCHANGED <<sourceVars, rowVars, viewVars, requestVars, check, waiting>>

SubmitForm ==
    /\ ~open /\ submitCheck' = {FormNumbers}
    /\ UNCHANGED <<sourceVars, rowVars, viewVars, requestVars, formVars, check, waiting>>

RefuseSubmit ==
    /\ submitCheck # {} /\ submitCheck' = {}
    /\ UNCHANGED <<sourceVars, rowVars, viewVars, requestVars, formVars, check, waiting>>

\* The form is sent.  It is saved, or comes back with what was entered: the rows
\* that were added open for review.
SendForm ==
    /\ submitCheck # {} /\ Distinct(hidden)
    /\ \/ hidden' = NoRows /\ typed' = {}
       \/ UNCHANGED formVars
    /\ rows' = [i \in DOMAIN hidden' |-> [text |-> hidden'[i].text,
                                          excluded |-> hidden'[i].excluded, valid |-> FALSE]]
    /\ content' = NoFile /\ mapping' = "none" /\ origin' = NoFile
    /\ step' = 1 /\ open' = FALSE /\ editing' = 0
    /\ Silence /\ busy' = FALSE /\ locked' = FALSE /\ overlapped' = FALSE
    /\ NoCheck /\ submitCheck' = {}

\* The buttons and fields of the page, and the answers of the server.
PageStep ==
    \/ \E f \in Files \cup {NoFile} : ChooseSource(f)
    \/ ReviewSource \/ AskColumns \/ \E reset \in BOOLEAN : ChooseColumns(reset)
    \/ \E s \in Slots : AnswerSource(s) \/ AnswerColumns(s) \/ AnswerReview(s) \/ FailPost(s)
    \/ \E i \in 0..OldRow : OpenRow(i)
    \/ \E i \in 1..OldRow, text \in Texts, save \in BOOLEAN : Change(i, text, save)
    \/ \E selected \in SUBSET (1..MaxRows) :
          Exclude(selected) \/ \E text \in Texts : BulkApply(selected, text)
    \/ \E what \in {"save", "next", "summary", "apply"} : AskCheck(what)
    \/ Turn
    \/ \E numbers \in SUBSET SerialNumbers : ChangeForm(numbers, hidden)
    \/ ChangeForm(typed, NoRows)
    \/ SubmitForm \/ RefuseSubmit \/ SendForm

\* A check that asks nothing is over before anything else can happen.
ScreenNext ==
    \/ (check # "none" => waiting) /\ PageStep
    \/ RefuseCheck \/ SendReview \/ ShowSummary \/ AddItems

ScreenSpec == ScreenInit /\ [][ScreenNext]_screenVars

--------------------------------------------------------------------------------
(* Rows shown as ready and included agree: none repeats a serial number of       *)
(* another.  Each verdict was given by one answer for all rows, and every edit,   *)
(* exclusion and inclusion since has kept that true (validate_rows, changed).   *)
ReadyRowsAgree ==
    \A i, j \in Included : i # j /\ rows[i].valid /\ rows[j].valid
        => Numbers(rows, i) \cap Numbers(rows, j) = {}

(* An answer that is still listened to is about the rows as they are now, so it   *)
(* cannot undo an edit made while it was under way (the revision of             *)
(* purchase-import.js); requests that overlap are set apart.                    *)
AnswersAreCurrent ==
    ~overlapped =>
        \A s \in Awaited :
            /\ busy /\ Awaited = {s}
            /\ posts[s].kind = "review" => posts[s].rows = Compact

(* The rows on the page were read from the source that is there now, under the    *)
(* columns as they are chosen now (invalidateSource, renderMapping).           *)
RowsFollowSource ==
    rows # NoRows /\ ~overlapped => origin = content /\ mapping \in {"none", "ready"}

(* The form is sent with the serial numbers that its last check asked about, even *)
(* when the dialog adds rows while that check is under way (schedule).          *)
SubmitChecksAreCurrent == submitCheck \subseteq {FormNumbers}

\* What the properties rest on: while a check is waited for nothing else is under
\* way, so what was looked at before it still holds after it.
WaitsAlone ==
    ~overlapped =>
        /\ check # "none" => ~busy
        /\ check = "apply" => Attention = {}
        /\ \A s \in Awaited : posts[s].kind = "source" => mapping \in {"none", "ready"}

(* Rows that are added to the purchase are all resolved at that moment, though   *)
(* this was last looked at before the serial check (apply).                    *)
ResolvedWhenAdded ==
    [][hidden' # hidden /\ hidden' # NoRows /\ ~overlapped => Attention = {}]_screenVars

(* The document on the import says "All included rows must resolve before Apply". *)
AppliedRowsResolve == [][hidden' # hidden /\ hidden' # NoRows => Attention = {}]_screenVars

PurchaseScreenIsSound ==
    /\ [](ScreenTypeOK /\ ReadyRowsAgree /\ AnswersAreCurrent /\ RowsFollowSource
            /\ SubmitChecksAreCurrent)
    /\ ResolvedWhenAdded
================================================================================
