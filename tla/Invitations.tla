------------------------------ MODULE Invitations ------------------------------
(***************************************************************************)
(* Invitations of one person to several workspaces (users/invitations.py,     *)
(* invite_member, resend_member_activation, accept_workspace_invitation,      *)
(* update_member_access and change_member_status of users/views.py).          *)
(*                                                                          *)
(* The page of an invitation decides from an unlocked read whether the person  *)
(* signs in or chooses a password; the submission locks the invitation, its    *)
(* membership and (to choose a password) the user, and looks again.  Issuing   *)
(* again, the role and the status lock the membership.  The mail goes out      *)
(* after the commit; whether it arrives shows in the pages that are opened.    *)
(***************************************************************************)
EXTENDS Naturals, Sequences

CONSTANTS
    Tenants,     \* tenants that invite the person
    Roles,          \* base roles that can be assigned
    Pages,          \* open pages of invitations
    MaxInvitations  \* bound on the invitations of a membership

ASSUME InvitationBound == MaxInvitations \in Nat
ASSUME RolesGiven == Roles # {}

VARIABLES
    account,     \* the user: unknown, without a usable password, or with one
    member,      \* memberships: there, active, role
    invitation,  \* invitations of each membership in order of creation
    page,        \* what each open page has read
    chosenBy     \* history: invitations through which a password was chosen

inviteVars == <<account, member, invitation, page, chosenBy>>

NoMember == [there |-> FALSE, active |-> FALSE, role |-> CHOOSE role \in Roles : TRUE]
NoPage == [of |-> 0]

Letter == [role : Roles, state : {"pending", "accepted", "revoked"},
           expired : BOOLEAN]

InviteTypeOK ==
    /\ account \in {"unknown", "new", "ready"}
    /\ member \in [Tenants -> [there : BOOLEAN, active : BOOLEAN, role : Roles]]
    /\ invitation \in [Tenants -> Seq(Letter)]
    /\ \A g \in Pages : page[g].of \in 0..MaxInvitations
    /\ chosenBy \subseteq Tenants \X (1..MaxInvitations)

InviteInit ==
    /\ account \in {"unknown", "ready"}
    /\ member = [w \in Tenants |-> NoMember]
    /\ invitation = [w \in Tenants |-> <<>>]
    /\ page = [g \in Pages |-> NoPage]
    /\ chosenBy = {}

--------------------------------------------------------------------------------
Latest(w) == invitation[w][Len(invitation[w])]

\* issue_invitation revokes what is pending.
Issued(w, role) ==
    Append([i \in DOMAIN invitation[w] |->
               IF invitation[w][i].state = "pending"
               THEN [invitation[w][i] EXCEPT !.state = "revoked"] ELSE invitation[w][i]],
           [role |-> role, state |-> "pending", expired |-> FALSE])

\* A person nobody knows gets a user and an active membership.
Invite(w, role) ==
    /\ ~member[w].there
    /\ member' = [member EXCEPT ![w] =
                     [there |-> TRUE, active |-> account = "unknown", role |-> role]]
    /\ account' = IF account = "unknown" THEN "new" ELSE account
    /\ invitation' = [invitation EXCEPT ![w] = Issued(w, role)]
    /\ UNCHANGED <<page, chosenBy>>

\* Only while the latest invitation is neither accepted nor revoked.
Resendable(w) == member[w].there /\ Latest(w).state = "pending"

Resend(w) ==
    /\ Resendable(w) /\ Len(invitation[w]) < MaxInvitations
    /\ invitation' = [invitation EXCEPT ![w] = Issued(w, member[w].role)]
    /\ UNCHANGED <<account, member, page, chosenBy>>

\* expires_at is in the past, of an invitation for which that matters.
Expire(w, i) ==
    /\ i \in DOMAIN invitation[w] /\ ~invitation[w][i].expired
    /\ invitation[w][i].state = "pending"
    /\ invitation' = [invitation EXCEPT ![w][i].expired = TRUE]
    /\ UNCHANGED <<account, member, page, chosenBy>>

AcceptableInAnyRole(w, i) == invitation[w][i].state = "pending" /\ ~invitation[w][i].expired
Acceptable(w, i) ==
    /\ invitation[w][i].state = "pending" /\ ~invitation[w][i].expired
    /\ invitation[w][i].role = member[w].role

OpenPage(g, w, i) ==
    /\ page[g] = NoPage
    /\ i \in DOMAIN invitation[w]
    /\ Acceptable(w, i)
    /\ page' = [page EXCEPT ![g] = [of |-> i, tenant |-> w, chooses |-> account = "new"]]
    /\ UNCHANGED <<account, member, invitation, chosenBy>>

ClosePage(g) == page' = [page EXCEPT ![g] = NoPage]

Accepted(w, i) == invitation' = [invitation EXCEPT ![w][i].state = "accepted"]

\* The invited user is signed in.
Join(g) ==
    LET w == page[g].tenant IN
    /\ page[g] # NoPage /\ ~page[g].chooses
    /\ Acceptable(w, page[g].of)
    /\ member' = [member EXCEPT ![w].active = TRUE]
    /\ Accepted(w, page[g].of)
    /\ ClosePage(g)
    /\ UNCHANGED <<account, chosenBy>>

WithoutPassword == account = "new"

\* The first password, for an active membership.
ChoosePassword(g) ==
    LET w == page[g].tenant IN
    /\ page[g] # NoPage /\ page[g].chooses
    /\ Acceptable(w, page[g].of) /\ member[w].active /\ WithoutPassword
    /\ account' = "ready"
    /\ chosenBy' = chosenBy \cup {<<w, page[g].of>>}
    /\ Accepted(w, page[g].of)
    /\ ClosePage(g)
    /\ UNCHANGED member

\* Left, or no longer valid when submitted.
LeavePage(g) ==
    /\ page[g] # NoPage
    /\ ClosePage(g)
    /\ UNCHANGED <<account, member, invitation, chosenBy>>

ChangeRole(w, role) ==
    /\ member[w].there
    /\ member' = [member EXCEPT ![w].role = role]
    /\ UNCHANGED <<account, invitation, page, chosenBy>>

ChangeStatus(w, active) ==
    /\ member[w].there
    /\ member' = [member EXCEPT ![w].active = active]
    /\ UNCHANGED <<account, invitation, page, chosenBy>>

InviteNext ==
    \/ \E w \in Tenants :
          \/ \E role \in Roles : Invite(w, role) \/ ChangeRole(w, role)
          \/ \E active \in BOOLEAN : ChangeStatus(w, active)
          \/ Resend(w)
          \/ \E i \in 1..MaxInvitations : Expire(w, i)
    \/ \E g \in Pages :
          \/ \E w \in Tenants, i \in 1..MaxInvitations : OpenPage(g, w, i)
          \/ Join(g) \/ ChoosePassword(g) \/ LeavePage(g)

InviteSpec == InviteInit /\ [][InviteNext]_inviteVars

--------------------------------------------------------------------------------
(* However invitations are issued again, opened and submitted, only the latest  *)
(* of a membership is open or accepted, and all before it are revoked.          *)
OneLiveInvitation ==
    \A w \in Tenants : \A i \in DOMAIN invitation[w] :
        (invitation[w][i].state = "revoked") <=> i < Len(invitation[w])

(* Two pages that both offer to choose the first password, of one or of two     *)
(* workspaces, set it once.                                                    *)
PasswordChosenOnce ==
    \A x, y \in chosenBy : x = y

(* An invitation takes effect with the role it was approved for and leaves an   *)
(* active membership, although role and status change while its page is open.   *)
JoinedAsApproved ==
    [][\A w \in Tenants : \A i \in DOMAIN invitation[w] :
          invitation'[w][i].state = "accepted" /\ invitation[w][i].state # "accepted" =>
             invitation[w][i].role = member'[w].role /\ member'[w].active]_inviteVars

(* Who has accepted and was deactivated comes back only by the decision of a     *)
(* manager: no invitation of the workspace does it.                            *)
LeaversStayOut ==
    [][\A w \in Tenants :
          /\ \E i \in DOMAIN invitation[w] : invitation[w][i].state = "accepted"
          /\ ~member[w].active /\ member'[w].active
          => UNCHANGED invitation]_inviteVars

(* One invitation counts, one of all sets the password, and memberships start as    *)
(* approved and end for good.                                                   *)
InvitationsAreSound ==
    []InviteTypeOK /\ []OneLiveInvitation /\ []PasswordChosenOnce
        /\ JoinedAsApproved /\ LeaversStayOut
================================================================================
