------------------------------ MODULE ProductCodes ------------------------------
(***************************************************************************)
(* Product codes (SKU): automatic allocation of PRD numbers and codes typed  *)
(* by hand (products/creation.py, products/sku.py), and the batches of new    *)
(* products that can be sent twice (products/workspace.py, products/views.py). *)
(*                                                                          *)
(* Whoever creates products holds the row of the business, so one job runs at *)
(* a time; editing and deleting products takes no such lock and runs between  *)
(* the job's check of a code and its insert.  Products can also be loaded     *)
(* with a PRD code past the allocator (external: fixtures and restores).      *)
(***************************************************************************)
EXTENDS Integers, FiniteSets, Sequences

CONSTANTS
    OwnCodes,     \* codes typed by hand, as numbers
    Keys,         \* keys of the submissions
    Contents,     \* contents of the submissions: sequences of items
    Editors,      \* product forms that may be between their read and their write
    MaxProducts, MaxSku \* bounds on the products and on the numbers of PRD codes

Own(n) == [kind |-> "own", n |-> n]
Prd(n) == [kind |-> "PRD", n |-> n]
Gone   == [kind |-> "gone", n |-> 0]  \* code of a deleted product
Uncoded == [kind |-> "auto", n |-> 0]  \* item: a product without a code
Items  == { Own(n) : n \in OwnCodes } \cup {Uncoded}

ASSUME SkuBounds == MaxProducts \in Nat /\ MaxSku \in Nat
ASSUME ContentsAreItems == Contents \subseteq Seq(Items) \ {<<>>}
ASSUME KeyNames == Keys \cap {"none", "load"} = {}
ASSUME OwnCodeNumbers == OwnCodes \subseteq Nat

VARIABLES
    product,   \* products in order of creation: code, number given, submission
    skuNext,   \* next_number of the counter row, 0 for no row
    job,       \* what the job holding the business has still to do and has made
    batchOf,   \* content recorded for each key, <<>> for none
    editor     \* what each product form is about to write

skuVars == <<product, skuNext, job, batchOf, editor>>

NoJob == [at |-> "none"]
NoEdit == [row |-> 0]
Codes == { Own(n) : n \in OwnCodes } \cup { Prd(n) : n \in 1..MaxSku } \cup {Gone}
ProductRow == [sku : Codes, given : 0..MaxSku, by : Keys \cup {"none", "load"}]

SkuTypeOK ==
    /\ product \in Seq(ProductRow)
    /\ skuNext \in 0..(MaxSku + 1)
    /\ job.at \in {"none", "look", "insert"}
    /\ job # NoJob => job.made \in Seq(ProductRow) /\ job.next \in 0..(MaxSku + 1)
    /\ batchOf \in [Keys -> Contents \cup {<<>>}]
    /\ \A e \in Editors : editor[e].row \in 0..Len(product)

SkuInit ==
    /\ product = <<>> /\ skuNext = 0 /\ job = NoJob
    /\ batchOf = [k \in Keys |-> <<>>]
    /\ editor = [e \in Editors |-> NoEdit]

--------------------------------------------------------------------------------
Live == { p \in DOMAIN product : product[p].sku # Gone }
InUse == { product[p].sku : p \in Live }
Pending == IF job = NoJob THEN {} ELSE { job.made[i].sku : i \in DOMAIN job.made }
Visible == InUse \cup Pending   \* what the job itself sees

Greatest(S) == CHOOSE n \in S : \A m \in S : m <= n
occupied_max == Greatest({0} \cup { c.n : c \in { c \in Visible : c.kind = "PRD" } })

\* A key is consumed once; the same submission again returns what it made.
Fresh(key) == key \in Keys => batchOf[key] = <<>>

\* The business is locked, then the forms are validated.
StartJob(key, content) ==
    /\ job = NoJob
    /\ Fresh(key)
    /\ \A i \in DOMAIN content : content[i] \notin InUse
    /\ job' = [at |-> "look", key |-> key, content |-> content, todo |-> content,
               made |-> <<>>, next |-> 0, recovery |-> 0]
    /\ UNCHANGED <<product, skuNext, batchOf, editor>>

Item == Head(job.todo)
Working(at) == job.at = at /\ job.todo # <<>>

RescanEachTime == occupied_max + 1
\* The counter starts after the highest code in use.
locked_counter == IF skuNext = 0 THEN occupied_max + 1 ELSE skuNext
Number == IF job.next = 0 THEN locked_counter ELSE job.next
Code == IF Item = Uncoded THEN Prd(Number) ELSE Item

Larger(m, n) == IF m >= n THEN m ELSE n

\* Another code instead of one in use, once for each product.
Recover(number) ==
    /\ Item = Uncoded /\ job.recovery = 0
    /\ job' = [job EXCEPT !.at = "look", !.recovery = 1,
                          !.next = Larger(number, occupied_max + 1)]

Look ==
    /\ Working("look") /\ Number <= MaxSku
    /\ IF Code \in Visible THEN Recover(Number)
       ELSE job' = [job EXCEPT !.at = "insert", !.next = IF Item = Uncoded THEN Number ELSE job.next]
    /\ UNCHANGED <<product, skuNext, batchOf, editor>>

\* The unique index of tenant and code has the last word.
Insert ==
    /\ Working("insert")
    /\ IF Code \in Visible THEN Recover(Number + 1)
       ELSE /\ Len(product) + Len(job.made) < MaxProducts
            /\ job' = [job EXCEPT !.at = "look", !.todo = Tail(job.todo), !.recovery = 0,
                  !.next = IF Item = Uncoded THEN Number + 1 ELSE job.next,
                  !.made = Append(job.made, [sku |-> Code, by |-> job.key,
                               given |-> IF Item = Uncoded THEN Number ELSE 0])]
    /\ UNCHANGED <<product, skuNext, batchOf, editor>>

CommitJob ==
    /\ job.at = "look" /\ job.todo = <<>>
    /\ product' = product \o job.made
    /\ skuNext' = IF job.next = 0 THEN skuNext ELSE job.next
    /\ batchOf' = [k \in Keys |-> IF k = job.key THEN job.content ELSE batchOf[k]]
    /\ job' = NoJob
    /\ UNCHANGED editor

\* A code in use, a second conflict, or any other invalid row: all or nothing.
FailJob ==
    /\ job # NoJob
    /\ job' = NoJob
    /\ UNCHANGED <<product, skuNext, batchOf, editor>>

\* A PRD code cannot be typed by hand.
Typeable(code) == code.kind = "own"

ReadProduct(e, p, code) ==
    /\ editor[e] = NoEdit /\ p \in Live
    /\ code = product[p].sku \/ (Typeable(code) /\ code \notin InUse)
    /\ editor' = [editor EXCEPT ![e] = [row |-> p, sku |-> code]]
    /\ UNCHANGED <<product, skuNext, job, batchOf>>

\* All columns are written, to a row deleted meanwhile too: it is inserted again.
WriteProduct(e) ==
    LET p == editor[e].row IN
    /\ editor[e] # NoEdit
    /\ editor[e].sku \notin { product[q].sku : q \in Live \ {p} } \cup Pending
    /\ product' = [product EXCEPT ![p].sku = editor[e].sku]
    /\ editor' = [editor EXCEPT ![e] = NoEdit]
    /\ UNCHANGED <<skuNext, job, batchOf>>

FailEdit(e) ==
    /\ editor[e] # NoEdit
    /\ editor' = [editor EXCEPT ![e] = NoEdit]
    /\ UNCHANGED <<product, skuNext, job, batchOf>>

\* A product without stock that nothing refers to.
DeleteProduct(p) ==
    /\ p \in Live
    /\ product' = [product EXCEPT ![p].sku = Gone]
    /\ UNCHANGED <<skuNext, job, batchOf, editor>>

LoadProduct(n) ==
    /\ Prd(n) \notin Visible
    /\ Len(product) + (IF job = NoJob THEN 0 ELSE Len(job.made)) < MaxProducts
    /\ product' = Append(product, [sku |-> Prd(n), given |-> 0, by |-> "load"])
    /\ UNCHANGED <<skuNext, job, batchOf, editor>>

SkuStep ==
    \/ \E key \in Keys \cup {"none"}, content \in Contents : StartJob(key, content)
    \/ Look \/ Insert \/ CommitJob \/ FailJob
    \/ \E e \in Editors :
          \/ \E p \in DOMAIN product, code \in Codes : ReadProduct(e, p, code)
          \/ WriteProduct(e) \/ FailEdit(e)
    \/ \E p \in DOMAIN product : DeleteProduct(p)
    \/ \E n \in 1..MaxSku : LoadProduct(n)

SkuSpec == SkuInit /\ [][SkuStep]_skuVars

--------------------------------------------------------------------------------
(* A number is given to one product for good: it comes to no other product     *)
(* after a deletion, an edit, a collision or a failed batch, and a PRD code is  *)
(* on no product but the one it was given to or loaded with.                    *)
NumberGivenOnce ==
    /\ \A p, q \in DOMAIN product :
          p # q /\ product[p].given # 0 => product[p].given # product[q].given
    /\ \A p \in Live : product[p].sku.kind = "PRD" =>
          product[p].by = "load" \/ product[p].sku.n = product[p].given

(* A submission makes all its products or none, and makes them once, however    *)
(* often it is sent again and whatever becomes of the products.                 *)
BatchesTakeEffectOnce ==
    \A k \in Keys :
        Cardinality({ p \in DOMAIN product : product[p].by = k }) = Len(batchOf[k])

(* Numbers and submissions are used once.                                      *)
CodesAreSound == SkuTypeOK /\ NumberGivenOnce /\ BatchesTakeEffectOnce
================================================================================
