------------------------------ MODULE MCBackOffice ------------------------------
(***************************************************************************)
(* Instances of ProductCodes, PurchaseImports, Invitations and TeamAccess.   *)
(* They share no state: an initial choice says which one moves,              *)
(* and the states of the parts add up instead of multiplying.                   *)
(***************************************************************************)
EXTENDS ProductCodes, PurchaseImports, Invitations, TeamAccess, TLC

CONSTANTS
    n1,                   \* the staging reference of a new product
    u1, u2, u3, c1, c2, q2, \* users, companies and a request of TeamAccess
    k1, k2, k3, k4        \* keys of sessions

VARIABLE office           \* the component that moves

officeVars == <<skuVars, importVars, inviteVars, accessVars, office>>

MCContents == {<<Uncoded>>, <<Own(1), Uncoded>>}
MCBatches == {{[ref |-> n1, n |-> 1], [ref |-> n1, n |-> 2]},
              {[ref |-> n1, n |-> 1], [ref |-> Known, n |-> 1]}}

MCSymmetry == Permutations(Pages)

\* A superuser without a membership beside two users: a company without a manager,
\* one with two, and a manager whose other membership was deactivated.
Was(active, role) == [there |-> TRUE, active |-> active, role |-> role]
From(tenant, role) == [tenant |-> tenant, role |-> role]
Both(one, two) == c1 :> one @@ c2 :> two
Team(first, second, signedIn) ==
    [superusers |-> {u3},
     membership |-> u3 :> Both(Absent, Absent) @@ u1 :> Both(first, Absent) @@ u2 :> second,
     profile |-> u3 :> From(Nowhere, "sales") @@ u1 :> From(c1, "manager")
                    @@ u2 :> From(Nowhere, "manager"),
     signedIn |-> signedIn]
Everybody == k1 :> u1 @@ k2 :> u2 @@ k3 :> u3 @@ k4 :> Nobody
Alone == k1 :> Nobody @@ k2 :> Nobody @@ k3 :> u3 @@ k4 :> Nobody
TwoManagers == Team(Was(TRUE, "manager"), Both(Was(TRUE, "manager"), Absent), Everybody)
MCFounders ==
    {Team(Absent, Both(Was(TRUE, "sales"), Absent), Everybody), TwoManagers,
     Team(Was(TRUE, "sales"), Both(Was(FALSE, "sales"), Was(TRUE, "manager")), Everybody),
     Team(Absent, Both(Was(TRUE, "manager"), Absent), Alone)}

\* Requests in turn are those of one; a superuser who is alone signs out and in
\* again, under a second key, and starts support twice.  Requests that overlap are
\* the managers'.
Signed == [k \in SessionKeys |-> <<browser[k].at, browser[k].by>>]
AccessPart ==
    /\ AccessNext
    /\ accessInTurn =>
          /\ action'[q2] = NoAction /\ browser'[k4].by \in {Nobody, u3}
          /\ IF browser[k1].by = u1 THEN Signed' = Signed /\ Len(support') <= 1
             ELSE \A k \in {k1, k2} : browser'[k] = Unused
    /\ ~accessInTurn => superusers' = superusers /\ Signed' = Signed
                          /\ \A q \in Actions : action'[q].at # "idle" => action'[q].by # u3

OfficeInit ==
    /\ SkuInit /\ ImportInit /\ InviteInit /\ AccessInit
    /\ office \in {"codes", "imports", "invitations", "access"}
    /\ office # "access" => accessInTurn
    /\ (office # "access" \/ ~accessInTurn) => membership = TwoManagers.membership
    /\ office # "invitations" => account = "unknown"

OfficeNext ==
    \/ /\ office = "codes" /\ SkuStep
       /\ UNCHANGED <<importVars, inviteVars, accessVars, office>>
    \/ /\ office = "imports" /\ ImportNext
       /\ UNCHANGED <<skuVars, inviteVars, accessVars, office>>
    \/ /\ office = "invitations" /\ InviteNext
       /\ UNCHANGED <<skuVars, importVars, accessVars, office>>
    \/ /\ office = "access" /\ AccessPart
       /\ UNCHANGED <<skuVars, importVars, inviteVars, office>>

OfficeSpec == OfficeInit /\ [][OfficeNext]_officeVars
================================================================================
