------------------------------- MODULE TeamAccess -------------------------------
(***************************************************************************)
(* Who acts in which workspace (users/middleware.py, permissions.py,          *)
(* update_member_access, change_member_status, start_support_access and       *)
(* exit_support_access of users/views.py, bootstrap_super_admin).             *)
(*                                                                          *)
(* The middleware reads the membership of a request once and the handler       *)
(* decides with what was read then; only the member that is changed is         *)
(* locked.  A user may be signed in under several sessions; what a session     *)
(* remembers is one record here, saved by the step that changes it.  Joining     *)
(* through an invitation is in Invitations; writes of the Django admin site      *)
(* are left out, as a superuser may write any row there.                        *)
(***************************************************************************)
EXTENDS Naturals, Sequences, FiniteSets

CONSTANTS
    Users, Companies,
    SessionKeys,    \* keys of sessions, never used twice
    Nobody,         \* no user
    Actions,        \* a request in flight
    ActionCodes,    \* action codes of permissions
    Delegable,      \* those of DELEGABLE_PERMISSIONS
    Nowhere,        \* no tenant
    FirstCompany,   \* the oldest organization
    Founders,       \* memberships, profiles and superusers that scripts and invitations left,
                    \* and who is signed in
    MaxSupport      \* bound on the support sessions ever opened

Scopes == {"own", "all"}
Absent == [there |-> FALSE, active |-> FALSE, role |-> "sales"]

ASSUME AccessAssumption ==
    /\ Delegable \subseteq ActionCodes /\ FirstCompany \in Companies /\ Nowhere \notin Companies
    /\ MaxSupport \in Nat /\ Nobody \notin Users
    /\ Founders \subseteq
          [superusers : SUBSET Users,
           membership : [Users -> [Companies ->
               {Absent} \cup [there : {TRUE}, active : BOOLEAN, role : {"manager", "sales"}]]],
           profile : [Users -> [tenant : Companies \cup {Nowhere}, role : {"manager", "sales"}]],
           signedIn : [SessionKeys -> Users \cup {Nobody}]]

VARIABLES
    membership, \* TenantMembership of each user in each workspace
    grants,     \* TenantPermissionGrant rows of a membership
    profile,    \* UserAccessProfile or the oldest legacy Membership of a user
    superusers, \* users with is_superuser
    browser,    \* sessions: whose, active_tenant_id, support_access_session_id
    support,    \* SupportAccessSession rows in order of creation
    action,     \* requests in flight, with what the middleware read
    accessInTurn \* a request ends before the next one begins

accessVars == <<membership, grants, profile, superusers, browser, support, action, accessInTurn>>

Grant == [code : ActionCodes, scope : Scopes, by : Users]
NoAction == [at |-> "idle"]

AccessTypeOK ==
    /\ \A u \in Users, w \in Companies :
          /\ membership[u][w] \in [there : BOOLEAN, active : BOOLEAN, role : {"super", "manager", "sales"}]
          /\ grants[u][w] \subseteq Grant
    /\ superusers \subseteq Users
    /\ browser \in [SessionKeys -> [at : {"unused", "open", "ended"}, by : Users \cup {Nobody},
                                    tenant : Companies \cup {Nowhere}, support : 0..MaxSupport]]
    /\ support \in Seq([actor : Users, key : SessionKeys, tenant : Companies, open : BOOLEAN])
    /\ \A q \in Actions : action[q].at \in {"idle", "admitted", "opening"}

Unused == [at |-> "unused", by |-> Nobody, tenant |-> Nowhere, support |-> 0]
SignedIn(u) == [at |-> "open", by |-> u, tenant |-> Nowhere, support |-> 0]

AccessInit ==
    /\ \E f \in Founders :
          /\ superusers = f.superusers /\ membership = f.membership /\ profile = f.profile
          /\ browser = [k \in SessionKeys |-> IF f.signedIn[k] = Nobody THEN Unused
                                             ELSE SignedIn(f.signedIn[k])]
    /\ grants = [u \in Users |-> [w \in Companies |-> {}]]
    /\ support = <<>>
    /\ action = [q \in Actions |-> NoAction]
    /\ accessInTurn \in BOOLEAN

--------------------------------------------------------------------------------
ActiveIn(u) == {w \in Companies : membership[u][w].active}

\* The bridge for users of legacy scripts, when no membership is active.
BridgeTenant(u) == IF u \in superusers /\ profile[u].tenant = Nowhere THEN FirstCompany
                   ELSE profile[u].tenant
BridgeRole(u) == IF u \in superusers THEN "super" ELSE profile[u].role

BridgedAnyway(u, w) == ActiveIn(u) = {} /\ w = BridgeTenant(u)
Bridged(u, w) == ActiveIn(u) = {} /\ w = BridgeTenant(u) /\ ~membership[u][w].there

\* The support session that the session of u under key k names, if it is open,
\* its actor's, and was started under that key.
Named(u, k) ==
    {n \in DOMAIN support : n = browser[k].support /\ support[n].actor = u /\ support[n].open}
SupportOf(u, k) == {n \in Named(u, k) : support[n].key = k}

\* A session that was ended meanwhile is not saved.
SaveSession(k, session) ==
    browser' = IF browser[k].at = "open" THEN [browser EXCEPT ![k] = session] ELSE browser

InTurn == accessInTurn => \A q \in Actions : action[q] = NoAction

\* ActiveOrganizationMiddleware.process_request: without a membership it refuses.
Admit(q, k) ==
    LET u      == browser[k].by
        joined == [w \in Companies |-> IF Bridged(u, w)
                      THEN [there |-> TRUE, active |-> TRUE, role |-> BridgeRole(u)]
                      ELSE membership[u][w]]
        mine   == {w \in Companies : joined[w].active}
        Serve(home, tenant) == action' = [action EXCEPT ![q] =
            [at |-> "admitted", by |-> u, key |-> k, home |-> home, role |-> joined[home].role,
             tenant |-> tenant]]
    IN
    /\ action[q] = NoAction /\ browser[k].at = "open" /\ InTurn
    /\ membership' = [membership EXCEPT ![u] = joined]
    /\ \/ mine = {} /\ UNCHANGED <<action, browser>>
       \/ \E home \in mine :
             /\ joined[home].role = "super"
             /\ Serve(home, IF SupportOf(u, k) = {} THEN Nowhere ELSE support[browser[k].support].tenant)
             /\ browser' = [browser EXCEPT ![k].support = IF SupportOf(u, k) = {} THEN 0 ELSE @]
       \/ \E home \in mine :
             /\ \A w \in mine : joined[w].role # "super"
             /\ browser[k].tenant \in mine => home = browser[k].tenant
             /\ Serve(home, home)
             /\ browser' = [browser EXCEPT ![k].tenant = home]
    /\ UNCHANGED <<grants, profile, superusers, support, accessInTurn>>

EndAction(q) == action' = [action EXCEPT ![q] = NoAction]

\* A request that changes nothing here, or is refused.
FinishAction(q) ==
    /\ action[q].at = "admitted" /\ EndAction(q)
    /\ UNCHANGED <<membership, grants, profile, superusers, browser, support, accessInTurn>>

\* require_permission, with the membership the middleware read.
MayManageMembers(q) ==
    /\ action[q].at = "admitted" /\ action[q].tenant # Nowhere
    /\ action[q].role \in {"manager", "super"}

\* The member to change, under its lock: another one, and no super administrator.
Manageable(q, u) ==
    LET m == membership[u][action[q].tenant] IN
    /\ m.there /\ m.role # "super"
    /\ <<u, action[q].tenant>> # <<action[q].by, action[q].home>>

\* validate_delegated_grant looks at the role the member has before the change.
DelegableBy(q, u, code, scope) ==
    /\ action[q].home = action[q].tenant /\ action[q].role = "manager"
    /\ code \in Delegable
    /\ scope = "all" => membership[u][action[q].tenant].role = "manager"

\* Replaces the grants of the member; a manager has none.
UpdateAccess(q, u, role, wanted, scope) ==
    LET w == action[q].tenant
        requested == IF role = "manager" THEN {} ELSE wanted IN
    /\ MayManageMembers(q) /\ Manageable(q, u)
    /\ \A code \in requested : DelegableBy(q, u, code, scope)
    /\ membership' = [membership EXCEPT ![u][w].role = role]
    /\ grants' = [grants EXCEPT ![u][w] =
                     {[code |-> code, scope |-> scope, by |-> action[q].by] : code \in requested}]
    /\ EndAction(q)
    /\ UNCHANGED <<profile, superusers, browser, support, accessInTurn>>

ChangeMember(q, u, active) ==
    /\ MayManageMembers(q) /\ Manageable(q, u)
    /\ membership' = [membership EXCEPT ![u][action[q].tenant].active = active]
    /\ EndAction(q)
    /\ UNCHANGED <<grants, profile, superusers, browser, support, accessInTurn>>

\* _require_super_admin reads the memberships again.
IsSuper(u) == \E w \in ActiveIn(u) : membership[u][w].role = "super"

\* start_support_access ends what is open under the key of the session, and then
\* opens, in two transactions.
EndOpenSupport(q) ==
    /\ action[q].at = "admitted" /\ IsSuper(action[q].by)
    /\ support' = [n \in DOMAIN support |->
                      IF support[n].actor = action[q].by /\ support[n].key = action[q].key
                      THEN [support[n] EXCEPT !.open = FALSE] ELSE support[n]]
    /\ action' = [action EXCEPT ![q].at = "opening"]
    /\ UNCHANGED <<membership, grants, profile, superusers, browser, accessInTurn>>

OpenSupport(q, w) ==
    LET k == action[q].key IN
    /\ action[q].at = "opening" /\ Len(support) < MaxSupport
    /\ support' = Append(support, [actor |-> action[q].by, key |-> k, tenant |-> w, open |-> TRUE])
    /\ SaveSession(k, [browser[k] EXCEPT !.support = Len(support) + 1])
    /\ EndAction(q)
    /\ UNCHANGED <<membership, grants, profile, superusers, accessInTurn>>

\* exit_support_access does not look at the key.
ExitSupport(q) ==
    LET k == action[q].key IN
    /\ action[q].at = "admitted" /\ IsSuper(action[q].by)
    /\ support' = [n \in DOMAIN support |->
                      IF n \in Named(action[q].by, k) THEN [support[n] EXCEPT !.open = FALSE] ELSE support[n]]
    /\ SaveSession(k, [browser[k] EXCEPT !.support = 0])
    /\ EndAction(q)
    /\ UNCHANGED <<membership, grants, profile, superusers, accessInTurn>>

\* Signing in begins a session, signing out ends one and its support stays open.
SignIn(k, u) ==
    /\ InTurn /\ browser[k].at = "unused"
    /\ browser' = [browser EXCEPT ![k] = SignedIn(u)]
    /\ UNCHANGED <<membership, grants, profile, superusers, support, action, accessInTurn>>

SignOut(k) ==
    /\ InTurn /\ browser[k].at = "open"
    /\ browser' = [browser EXCEPT ![k].at = "ended"]
    /\ UNCHANGED <<membership, grants, profile, superusers, support, action, accessInTurn>>

\* The same user signs in again: the session goes on under another key.
SignInAgain(old, k) ==
    /\ InTurn /\ browser[old].at = "open" /\ browser[k].at = "unused"
    /\ browser' = [browser EXCEPT ![old].at = "ended", ![k] = browser[old]]
    /\ UNCHANGED <<membership, grants, profile, superusers, support, action, accessInTurn>>

\* An operator makes a user a superuser; the profile loses its tenant.
Bootstrap(u) ==
    /\ u \notin superusers
    /\ superusers' = superusers \cup {u}
    /\ profile' = [profile EXCEPT ![u].tenant = Nowhere]
    /\ UNCHANGED <<membership, grants, browser, support, action, accessInTurn>>

AccessNext ==
    \/ \E q \in Actions :
          \/ \E k \in SessionKeys : Admit(q, k)
          \/ /\ MayManageMembers(q)
             /\ \E u \in Users :
                   \/ \E role \in {"manager", "sales"}, wanted \in SUBSET ActionCodes, scope \in Scopes :
                         UpdateAccess(q, u, role, wanted, scope)
                   \/ \E active \in BOOLEAN : ChangeMember(q, u, active)
          \/ FinishAction(q) \/ EndOpenSupport(q) \/ ExitSupport(q)
          \/ \E w \in Companies : OpenSupport(q, w)
    \/ \E u \in Users : Bootstrap(u)
    \/ \E k \in SessionKeys :
          \/ SignOut(k) \/ \E u \in Users : SignIn(k, u)
          \/ \E old \in SessionKeys : SignInAgain(old, k)

AccessSpec == AccessInit /\ [][AccessNext]_accessVars

--------------------------------------------------------------------------------
Managers(w) == {u \in Users : membership[u][w].active /\ membership[u][w].role = "manager"}

MayManage(u, k, w) ==
    \/ u \in Managers(w)
    \/ IsSuper(u) /\ \E n \in SupportOf(u, k) : support[n].tenant = w

(* However roles change and whoever changes them, a manager has no grants beside  *)
(* the role, and a grant is a delegable one of another member of the workspace.   *)
GrantsAreVisible ==
    \A u \in Users, w \in Companies : \A g \in grants[u][w] :
        /\ membership[u][w].role # "manager"
        /\ g.code \in Delegable /\ g.by # u /\ membership[g.by][w].there

(* Requests in turn leave one open support session at most under the key of a      *)
(* session, its user's, and the session names it as long as it lasts: it can be     *)
(* left.  Those of keys that are gone stay open for good, and serve nobody.        *)
OneSupportSession ==
    accessInTurn => \A n \in DOMAIN support : support[n].open =>
        /\ browser[support[n].key].at = "open" => n \in Named(browser[support[n].key].by, support[n].key)
        /\ \A m \in DOMAIN support : support[m].open /\ support[m].key = support[n].key => m = n

(* A member is changed, deactivated or brought back only by somebody who at that   *)
(* moment manages the workspace or supports it: not by the bridge, nor through     *)
(* the session of another workspace, when requests do not overlap.                *)
ChangedByManagers ==
    [][accessInTurn => \A u \in Users, w \in Companies :
          membership[u][w].there /\ <<membership[u][w], grants[u][w]>>' # <<membership[u][w], grants[u][w]>>
          => \E q \in Actions : action[q].at # "idle" /\ action[q].tenant = w /\ MayManage(action[q].by, action[q].key, w)]_accessVars

(* Managers never leave their workspace without one: each step of a manager keeps   *)
(* an active manager, when requests do not overlap.                               *)
ManagersRemain ==
    [][accessInTurn => \A w \in Companies :
          Managers(w) # {} /\ Managers(w)' = {} =>
              \E q \in Actions : action[q].at # "idle" /\ action[q].role = "super"]_accessVars

AccessIsSound ==
    []AccessTypeOK /\ []GrantsAreVisible /\ []OneSupportSession /\ ChangedByManagers /\ ManagersRemain
================================================================================
