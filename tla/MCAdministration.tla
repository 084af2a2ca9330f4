---------------------------- MODULE MCAdministration ----------------------------
(***************************************************************************)
(* Instances of WorkReports, CustomFields, CustomerRecords with AssetSnapshots,    *)
(* and HandoverCleanup.  They share no state: an initial choice says which one      *)
(* moves, and the states of the parts add up instead of multiplying.              *)
(***************************************************************************)
EXTENDS WorkReports, CustomFields, AssetSnapshots, HandoverCleanup, TLC

VARIABLE part             \* the component that moves

adminVars == <<vars, fieldVars, recordVars, assetVars, cleanupVars, part>>

Text(f) == [active |-> TRUE, kind |-> f, required |-> FALSE, options |-> {"digits"},
            modes |-> {"create", "edit"}]
MCDrafts == { Text("text"), Text("number"),
              [Text("number") EXCEPT !.active = FALSE],
              [Text("choice") EXCEPT !.required = TRUE, !.modes = {"edit"}] }

\* Every part draws its interchangeable ids from the same two pairs of model values.
MCInterchangeable == Permutations(Reports) \cup Permutations(Technicians)

AdminInit ==
    /\ Init /\ FieldInit /\ RecordInit /\ AssetInit /\ CleanupInit
    /\ part \in {"reports", "fields", "record", "assets", "handover"}
    /\ part # "fields" => fieldsInTurn
    /\ part # "record" => recordsInTurn
    /\ part # "handover" => kind = [r \in Rows |-> "plain"]

\* One customer with a long record, till its trail is full; two with short ones and
\* their assets.
Untold(c) == history[c] = <<>> /\ ~Exists(c)
RecordPart ==
    /\ \/ \E c \in Customers :
             Len(history[c]) < MaxEntries /\ (\A d \in Customers \ {c} : Untold(d)) /\ RecordStep(c)
       \/ \E e \in Editors : SaveCustomer(e) \/ GiveUpEdit(e)
    /\ UNCHANGED assetVars
AssetPart == AssetNext /\ \A c \in Customers : Len(history'[c]) <= 2

AdminNext ==
    /\ \/ part = "reports" /\ Next /\ UNCHANGED <<fieldVars, recordVars, assetVars, cleanupVars>>
       \/ part = "fields" /\ FieldNext /\ UNCHANGED <<vars, recordVars, assetVars, cleanupVars>>
       \/ part = "record" /\ RecordPart /\ UNCHANGED <<vars, fieldVars, cleanupVars>>
       \/ part = "assets" /\ AssetPart /\ UNCHANGED <<vars, fieldVars, cleanupVars>>
       \/ part = "handover" /\ CleanupNext /\ UNCHANGED <<vars, fieldVars, recordVars, assetVars>>
    /\ UNCHANGED part

AdminSpec == AdminInit /\ [][AdminNext]_adminVars
================================================================================
