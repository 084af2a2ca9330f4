----------------------------- MODULE TechnicianPay -----------------------------
(***************************************************************************)
(* What the payment of technicians promises, whatever the batches, voids     *)
(* and replacements behind it: work is paid only once it is approved, once   *)
(* at a time, and only for the amount that was approved.  Several reports    *)
(* may be paid or answered in one step; which of them have to be, the        *)
(* batches of WorkReports say.                                               *)
(***************************************************************************)
EXTENDS Naturals

CONSTANTS Reports, MaxAmount

VARIABLES
    phase,  \* of each report
    due,    \* the agreed amount
    pay,    \* of each report: its payment in force
    agreed  \* reports whose amount is final: a payment was once recorded

Init == /\ phase = [r \in Reports |-> "none"] /\ due = [r \in Reports |-> 0]
        /\ pay = [r \in Reports |-> "unpaid"] /\ agreed = {}

\* One report is written, reviewed or corrected; only a final amount is kept.
Write == /\ \E r \in Reports, a \in 0..MaxAmount :
              /\ \/ phase[r] \in {"none", "DRAFT"} /\ phase' = [phase EXCEPT ![r] = "DRAFT"]
                 \/ phase[r] \in {"REJECTED", "APPROVED"} /\ UNCHANGED phase
              /\ r \notin agreed
              /\ due' = [due EXCEPT ![r] = a]
         /\ UNCHANGED <<pay, agreed>>

Review == /\ \E r \in Reports :
               \/ phase[r] \in {"DRAFT", "REJECTED"} /\ phase' = [phase EXCEPT ![r] = "SUBMITTED"]
               \/ /\ phase[r] = "SUBMITTED"
                  /\ \E to \in {"APPROVED", "REJECTED"} : phase' = [phase EXCEPT ![r] = to]
          /\ UNCHANGED <<due, pay, agreed>>

\* The reports of Together go from one of the states From to state to.
Answer(Together, From, to) ==
    /\ \A r \in Together : pay[r] \in From
    /\ pay' = [r \in Reports |-> IF r \in Together THEN to ELSE pay[r]]

Record == \E S \in SUBSET Reports : /\ \A r \in S : phase[r] = "APPROVED"
                                    /\ Answer(S, {"unpaid"}, "AWAITING")
                                    /\ agreed' = agreed \cup S
                                    /\ UNCHANGED <<phase, due>>

Reply == \E S \in SUBSET Reports, to \in {"CONFIRMED", "DISPUTED"} :
            Answer(S, {"AWAITING"}, to) /\ UNCHANGED <<phase, due, agreed>>

TakeBack == \E S \in SUBSET Reports, from \in {"AWAITING", "CONFIRMED", "DISPUTED"} :
               Answer(S, {from}, "unpaid") /\ UNCHANGED <<phase, due, agreed>>

Next == Write \/ Review \/ Record \/ Reply \/ TakeBack

Spec == Init /\ [][Next]_<<phase, due, pay, agreed>>
==============================================================================
