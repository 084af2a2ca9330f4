---------------------------- MODULE CustomerServices ----------------------------
(***************************************************************************)
(* Sites, Internet services and agreed packages of one Internet customer      *)
(* (customers/services.py, its views, and the package synchronisation of       *)
(* SubscriptionBillingService in billing/services.py).                        *)
(*                                                                          *)
(* Every command locks the customer, some through the service, and so takes   *)
(* effect at once.  Only the account form first decides, without a lock,      *)
(* whether packages are managed by services.  Of the subscriptions the model   *)
(* keeps the active ones.  Left out: texts, dates, service codes, the           *)
(* operational status and customer.packages, which nothing here reads, and the  *)
(* status: that a form makes a customer suspended and gives packages is known   *)
(* before it is submitted.                                                    *)
(***************************************************************************)
EXTENDS Naturals, Sequences, FiniteSets

CONSTANTS
    Packages,
    MaxSites,     \* bound on the sites
    MaxServices   \* bound on the services

ASSUME CustomerBounds == MaxSites \in Nat \ {0} /\ MaxServices \in Nat \ {0}
ASSUME CustomerPackages == IsFiniteSet(Packages)

VARIABLES
    archived,    \* customer.is_deleted
    site,        \* sites in order of creation: primary, packages
    serviceSite, \* site of each service, in order of creation
    agreement,   \* active subscriptions; service 0 for those of the site alone
    accountForm  \* what a submitted account form has read

customerVars == <<archived, site, serviceSite, agreement, accountForm>>

NoForm == [sent |-> FALSE]

Agreement == [service : 0..MaxServices, site : 1..MaxSites, package : Packages,
              owed : BOOLEAN,   \* a period is invoiced or overdue
              kept : BOOLEAN]   \* taken off the list while it was owed

CustomerTypeOK ==
    /\ archived \in BOOLEAN
    /\ site \in Seq([primary : BOOLEAN, packages : SUBSET Packages])
    /\ serviceSite \in Seq(1..MaxSites)
    /\ agreement \subseteq Agreement
    /\ accountForm.sent \in BOOLEAN

--------------------------------------------------------------------------------
At(i) == { a \in agreement : a.site = i }
Of(v) == { a \in agreement : a.service = v /\ v # 0 }
NewAgreement(v, i, p) ==
    [service |-> v, site |-> i, package |-> p, owed |-> FALSE, kept |-> FALSE]

\* create_customer_with_primary_service: a service for each package, at least
\* one.  Older accounts have packages and no service.
CustomerInit ==
    \E P \in SUBSET Packages, older \in BOOLEAN :
        \E order \in { o \in [1..Cardinality(P) -> P] : \A p \in P : \E n \in DOMAIN o : o[n] = p } :
            /\ Cardinality(P) <= MaxServices
            /\ archived = FALSE
            /\ site = <<[primary |-> TRUE, packages |-> P]>>
            /\ serviceSite = IF older THEN <<>>
                             ELSE [v \in 1..(IF P = {} THEN 1 ELSE Cardinality(P)) |-> 1]
            /\ agreement = { NewAgreement(IF older THEN 0 ELSE v, 1, order[v]) : v \in DOMAIN order }
            /\ accountForm = NoForm

\* upsert_site: the form always carries is_primary.
OnlyPrimary(i) == [j \in DOMAIN site |-> [site[j] EXCEPT !.primary = j = i]]
WithPrimary(i, primary) == [site EXCEPT ![i].primary = primary]
SavedSite(i, primary) == IF primary THEN OnlyPrimary(i) ELSE WithPrimary(i, FALSE)

AddSite(primary) ==
    /\ ~archived /\ Len(site) < MaxSites
    /\ site' = Append(IF primary THEN OnlyPrimary(0) ELSE site,
                      [primary |-> primary, packages |-> {}])
    /\ UNCHANGED <<archived, serviceSite, agreement, accountForm>>

EditSite(i, primary) ==
    /\ ~archived
    /\ site' = SavedSite(i, primary)
    /\ UNCHANGED <<archived, serviceSite, agreement, accountForm>>

\* The packages added to and taken from the list of a service's site.
Relist(i, more, less) == site' = [site EXCEPT ![i].packages = (@ \cup more) \ less]

\* add_internet_service, in one transaction with assign_initial_subscription
\* when a package is chosen.
AddService(i, P) ==
    /\ ~archived /\ Len(serviceSite) < MaxServices
    /\ serviceSite' = Append(serviceSite, i)
    /\ agreement' = agreement \cup { NewAgreement(Len(serviceSite) + 1, i, p) : p \in P }
    /\ Relist(i, P, {})
    /\ UNCHANGED <<archived, accountForm>>

Instead(v) == agreement \ Of(v)

UnlistedAlways(v, p) == { a.package : a \in Of(v) }
\* The old package leaves the list unless another agreement at the site has it.
Unlisted(v, p) ==
    { a.package : a \in Of(v) } \ { b.package : b \in At(serviceSite[v]) \ Of(v) }

\* change_service_package; without a current agreement, the first one.
ChangePackage(v, p) ==
    LET i == serviceSite[v] IN
    /\ \A a \in Of(v) : a.package # p
    /\ agreement' = Instead(v) \cup {NewAgreement(v, i, p)}
    /\ Relist(i, {p}, Unlisted(v, p))
    /\ UNCHANGED <<archived, serviceSite, accountForm>>

\* CustomerUpdateView reads.
SendAccountForm(P) ==
    /\ accountForm = NoForm /\ ~archived
    /\ accountForm' = [sent |-> TRUE, managed |-> serviceSite # <<>>,
                       packages |-> IF serviceSite # <<>> THEN {} ELSE P]
    /\ UNCHANGED <<archived, site, serviceSite, agreement>>

\* ensure_primary_site: the first primary site, or the first site.
PrimarySite == IF \E i \in DOMAIN site : site[i].primary
               THEN CHOOSE i \in DOMAIN site : site[i].primary
                       /\ \A j \in DOMAIN site : site[j].primary => i <= j
               ELSE 1

\* sync_customer_package_subscriptions: agreements of the site alone for the
\* packages; all others at the site end, but for what is owed.
Synced(i, P) ==
    { a \in agreement : a.site = i => a.package \in P \/ a.owed }
        \cup { NewAgreement(0, i, p) : p \in { p \in P :
                  \A a \in At(i) : a.service = 0 => a.package # p } }

Marked(i, P, agreements) ==
    { [a EXCEPT !.kept = IF a.site = i THEN a.package \notin P ELSE @] : a \in agreements }

\* upsert_customer
SaveAccount ==
    LET i == PrimarySite
        P == accountForm.packages IN
    /\ accountForm.sent /\ ~archived
    /\ accountForm' = NoForm
    /\ IF accountForm.managed
       THEN /\ site' = OnlyPrimary(i)
            /\ UNCHANGED agreement
       ELSE /\ site' = [OnlyPrimary(i) EXCEPT ![i].packages = P]
            /\ agreement' = Marked(i, P, Synced(i, P))
    /\ UNCHANGED <<archived, serviceSite>>

\* Archived in the meantime.
RefuseAccount ==
    /\ accountForm.sent /\ archived
    /\ accountForm' = NoForm
    /\ UNCHANGED <<archived, site, serviceSite, agreement>>

\* soft_delete_customer and restore_customer.
Archive ==
    /\ archived' = ~archived
    /\ UNCHANGED <<site, serviceSite, agreement, accountForm>>

\* Billing: an invoice is issued or settled, or the subscription is cancelled
\* while nothing is owed (see Subscriptions).
Bill(a, owed) ==
    /\ agreement' = (agreement \ {a}) \cup {[a EXCEPT !.owed = owed]}
    /\ UNCHANGED <<archived, site, serviceSite, accountForm>>

CancelAgreement(a) ==
    /\ ~a.owed
    /\ agreement' = agreement \ {a}
    /\ UNCHANGED <<archived, site, serviceSite, accountForm>>

CustomerNext ==
    \/ \E primary \in BOOLEAN : AddSite(primary) \/ \E i \in DOMAIN site : EditSite(i, primary)
    \/ \E i \in DOMAIN site, P \in SUBSET Packages : Cardinality(P) <= 1 /\ AddService(i, P)
    \/ \E v \in DOMAIN serviceSite, p \in Packages : ChangePackage(v, p)
    \/ \E P \in SUBSET Packages : SendAccountForm(P)
    \/ SaveAccount \/ RefuseAccount \/ Archive
    \/ \E a \in agreement : CancelAgreement(a) \/ \E owed \in BOOLEAN : Bill(a, owed)

CustomerSpec == CustomerInit /\ [][CustomerNext]_customerVars

--------------------------------------------------------------------------------
(* A customer has one primary site at most, however site forms (which carry      *)
(* the flag as their page had it) and account forms follow each other.           *)
OnePrimarySite ==
    \A i, j \in DOMAIN site : site[i].primary /\ site[j].primary => i = j

(* A service is billed for one package: it never has two active subscriptions,    *)
(* also after its package was changed again and again.                          *)
OneAgreementEach ==
    \A a, b \in agreement : a.service = b.service /\ a.service # 0 => a = b

(* The package of an active subscription is on the list of its site, which other  *)
(* services and the account form change too, unless the form took it off the list  *)
(* and left the subscription because of an invoice still open.                  *)
AgreedIsListed ==
    \A a \in agreement : a.package \in site[a.site].packages \/ a.kept

(* Sites, services and agreements agree.                                        *)
CustomerIsSound == CustomerTypeOK /\ OnePrimarySite /\ OneAgreementEach /\ AgreedIsListed
================================================================================
