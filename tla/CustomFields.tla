------------------------------ MODULE CustomFields ------------------------------
(***************************************************************************)
(* Custom fields of one kind of record (custom_fields/models.py, services.py, *)
(* forms.py, forms_model.py, views.py): the definitions a manager edits and    *)
(* the values the forms of customers, products and packages save.              *)
(*                                                                          *)
(* Nothing locks a definition.  Its form checks for values and saves every     *)
(* column later; a form of a record is built from the definitions, checked     *)
(* once more when the record is saved, and then written: FieldRequests are      *)
(* between these steps.  Labels, help texts, order and defaults are left out.   *)
(***************************************************************************)
EXTENDS Naturals

CONSTANTS
    Fields,         \* keys of definitions, unique for a kind of record
    Holders,        \* the records that carry values
    FieldRequests,  \* requests under way
    Drafts          \* what forms of definitions submit

VARIABLES
    def,     \* CustomFieldDefinition rows
    value,   \* CustomFieldValue rows, by field and record
    saved,   \* records there are
    removed, \* records there were; ids are never used twice
    form,    \* requests between their read and their write
    fieldsInTurn  \* fixed: requests never overlap

fieldVars == <<def, value, saved, removed, form, fieldsInTurn>>

Blank == "blank"
\* What a field may be given: any text, or one that reads as a number.
Contents == {"word", "digits"}

\* CustomFieldDefinition.FieldType, by what tells them apart.
FieldKinds == {"text", "number", "choice"}
Column(kind) == IF kind = "number" THEN "value_number" ELSE "value_text"

\* modes: the forms that show the field, show_on_create and show_on_edit.
Definition == [active : BOOLEAN, kind : FieldKinds, required : BOOLEAN,
               options : SUBSET Contents, modes : SUBSET {"create", "edit"}]
ASSUME DraftsAreDefinitions == Drafts \subseteq Definition

Undefined == [active |-> FALSE, kind |-> "none"]

NoValue == [column |-> "none", content |-> Blank]
Values == [column : {"value_text", "value_number"}, content : Contents]

Free == [op |-> "none"]

FieldTypeOK ==
    /\ def \in [Fields -> Definition \cup {Undefined}]
    /\ value \in [Fields -> [Holders -> Values \cup {NoValue}]]
    /\ saved \subseteq Holders /\ removed \subseteq Holders \ saved

FieldInit ==
    /\ def = [f \in Fields |-> Undefined]
    /\ value = [f \in Fields |-> [o \in Holders |-> NoValue]]
    /\ saved = {} /\ removed = {}
    /\ form = [u \in FieldRequests |-> Free]
    /\ fieldsInTurn \in BOOLEAN

Defined(f) == def[f] # Undefined
HasValues(f) == \E o \in Holders : value[f][o] # NoValue

\* In turn, a request starts when no other one is under way.
MayStart == fieldsInTurn => \A u \in FieldRequests : form[u] = Free
Idle(u) == form[u] = Free /\ MayStart

--------------------------------------------------------------------------------
(* Definitions. *)

\* A choice field needs a choice.
WellFormed(d) == d.kind = "choice" => d.options # {}

CreateDefinition(f, d) ==
    /\ MayStart /\ ~Defined(f) /\ WellFormed(d)
    /\ def' = [def EXCEPT ![f] = d]
    /\ UNCHANGED <<value, saved, removed, form, fieldsInTurn>>

\* Checked for values in force only, as a form that asked for active fields would.
KindEditableIfShown(f, d) == \/ ~def[f].active \/ ~HasValues(f)
                             \/ d.kind = def[f].kind
KindEditable(f, d) == HasValues(f) => d.kind = def[f].kind

\* CustomFieldDefinitionForm.clean and CustomFieldDefinition.clean.
CheckDefinition(u, f, d) ==
    /\ Idle(u) /\ Defined(f) /\ WellFormed(d) /\ KindEditable(f, d)
    /\ form' = [form EXCEPT ![u] = [op |-> "define", field |-> f, def |-> d]]
    /\ UNCHANGED <<def, value, saved, removed, fieldsInTurn>>

\* The form saves every column.
WriteDefinition(u) ==
    /\ form[u].op = "define"
    /\ def' = [def EXCEPT ![form[u].field] = form[u].def]
    /\ form' = [form EXCEPT ![u] = Free]
    /\ UNCHANGED <<value, saved, removed, fieldsInTurn>>

Deactivate(f) ==
    /\ MayStart /\ Defined(f) /\ def[f].active
    /\ def' = [def EXCEPT ![f].active = FALSE]
    /\ UNCHANGED <<value, saved, removed, form, fieldsInTurn>>

--------------------------------------------------------------------------------
(* Values. *)

Available(f) == Defined(f) /\ def[f].active
Shown(f, mode) == Available(f) /\ mode \in def[f].modes

Mode(o) == IF o \in saved THEN "edit" ELSE "create"

AcceptsBlank(f, c) ==
    /\ def[f].kind = "number" => c \in {"digits", Blank}
    /\ def[f].kind = "choice" => c \in def[f].options \cup {Blank}

\* _value_to_python and the checks of validate_custom_field_input.
Accepts(f, c) ==
    IF c = Blank THEN ~def[f].required
    ELSE /\ def[f].kind = "number" => c = "digits"
         /\ def[f].kind = "choice" => c \in def[f].options

\* A new record has an id of its own.
Unborn(o) == /\ o \notin saved \cup removed
             /\ \A w \in FieldRequests : form[w].op \in {"submitted", "checked"} => form[w].record # o

\* A form is submitted: it has the fields its mode shows.
SubmitForm(u, o, given) ==
    /\ Idle(u)
    /\ o \in saved \/ Unborn(o)
    /\ DOMAIN given = { f \in Fields : Shown(f, Mode(o)) }
    /\ \A f \in DOMAIN given : Accepts(f, given[f])
    /\ form' = [form EXCEPT ![u] = [op |-> "submitted", record |-> o, given |-> given]]
    /\ UNCHANGED <<def, value, saved, removed, fieldsInTurn>>

\* save_custom_field_values validates again: a field no longer available, or a
\* content no longer accepted, fails the save.
StillAccepted(given) == \A f \in DOMAIN given : Available(f) /\ Accepts(f, given[f])

CheckValues(u) ==
    /\ form[u].op = "submitted" /\ StillAccepted(form[u].given)
    /\ form' = [form EXCEPT ![u] =
                  [op |-> "checked", record |-> form[u].record, given |-> form[u].given,
                   column |-> [f \in DOMAIN form[u].given |-> Column(def[f].kind)]]]
    /\ UNCHANGED <<def, value, saved, removed, fieldsInTurn>>

\* A blank deletes the row of the value; any other content fills the column of the kind and
\* empties the others.
Stored(row, c, column) == IF c = Blank THEN NoValue ELSE [column |-> column, content |-> c]

\* The form of a record that was removed meanwhile inserts it again (Model.save).
WriteValues(u) ==
    /\ form[u].op = "checked"
    /\ LET o == form[u].record  given == form[u].given IN
       /\ value' = [f \in Fields |-> IF f \in DOMAIN given
                      THEN [value[f] EXCEPT ![o] = Stored(@, given[f], form[u].column[f])]
                      ELSE value[f]]
       /\ saved' = saved \cup {o}
       /\ removed' = removed \ {o}
    /\ form' = [form EXCEPT ![u] = Free]
    /\ UNCHANGED <<def, fieldsInTurn>>

\* A product or a package without a history is deleted: its values name it in a
\* text, so that they neither keep it nor go with it.
RemoveRecord(o) ==
    /\ MayStart /\ o \in saved
    /\ saved' = saved \ {o} /\ removed' = removed \cup {o}
    /\ UNCHANGED <<def, value, form, fieldsInTurn>>

\* An error rolls the record back with its values.
FailForm(u) ==
    /\ form[u] # Free
    /\ form' = [form EXCEPT ![u] = Free]
    /\ UNCHANGED <<def, value, saved, removed, fieldsInTurn>>

--------------------------------------------------------------------------------
FieldNext ==
    \/ \E f \in Fields, d \in Drafts : CreateDefinition(f, d)
    \/ \E f \in Fields : Deactivate(f)
    \/ \E o \in Holders : RemoveRecord(o)
    \/ \E u \in FieldRequests :
          \/ \E f \in Fields, d \in Drafts : CheckDefinition(u, f, d)
          \/ \E o \in Holders, S \in SUBSET Fields : \E given \in [S -> Contents \cup {Blank}] :
                SubmitForm(u, o, given)
          \/ WriteDefinition(u) \/ CheckValues(u) \/ WriteValues(u) \/ FailForm(u)

FieldSpec == FieldInit /\ [][FieldNext]_fieldVars

--------------------------------------------------------------------------------
(* Every value sits in the column its field reads, whether the field is shown,     *)
(* hidden or deactivated, and whether its record is there or was removed              *)
(* ("Changing the field type is blocked after values exist.",                         *)
(* custom_fields/models.py:134).  One request after the other only.                   *)
ValuesFitFields ==
    fieldsInTurn => \A f \in Fields, o \in Holders :
        value[f][o] # NoValue => Defined(f) /\ value[f][o].column = Column(def[f].kind)

(* A record saved through its form has what the form requires, and keeps what    *)
(* hidden and deactivated fields hold (prepare_custom_fields_for_form).            *)
SavesAreComplete ==
    [][\A u \in FieldRequests :
          fieldsInTurn /\ WriteValues(u) =>
              \A f \in Fields :
                  LET o == form[u].record IN
                  /\ Shown(f, Mode(o)) /\ def[f].required => value'[f][o] # NoValue
                  /\ ~Shown(f, Mode(o)) => value'[f][o] = value[f][o]]_fieldVars

(* Custom values stay with their definitions however both are edited, and forms    *)
(* save what they require and nothing they hide (CustomFieldDefinition.clean,       *)
(* save_custom_field_values).                                                       *)
FieldsAreSound ==
    /\ [](FieldTypeOK /\ ValuesFitFields)
    /\ SavesAreComplete
==============================================================================
