--------------------------- MODULE BackOfficeProofs ----------------------------
(*****************************************************************************)
(* Proofs about the records of the business, for every set of packages, codes,*)
(* submissions and rows: the account, sites and services of a customer       *)
(* (CustomerServices), the codes of products (ProductCodes), the plans that   *)
(* remove test data (HandoverCleanup), the members and invitations of a team  *)
(* (TeamAccess, Invitations) and rows pasted into purchases (PurchaseImports).*)
(*****************************************************************************)
EXTENDS CustomerServices, ProductCodes, HandoverCleanup, Invitations, TeamAccess, PurchaseImports,
        SequenceTheorems, FiniteSetTheorems, TLAPS

-----------------------------------------------------------------------------
(* The inductive invariant: an agreement of a service is at the site of the     *)
(* service, and what a form sent is what it read.                                *)
SiteRow == [primary : BOOLEAN, packages : SUBSET Packages]

SitesFit ==
    /\ Len(site) \in 1..MaxSites
    /\ Len(serviceSite) <= MaxServices
    /\ \A v \in DOMAIN serviceSite : serviceSite[v] \in DOMAIN site

AgreementsFit ==
    \A a \in agreement :
        /\ a.site \in DOMAIN site
        /\ a.service # 0 => a.service \in DOMAIN serviceSite /\ serviceSite[a.service] = a.site

FormFits ==
    accountForm.sent => accountForm.managed \in BOOLEAN /\ accountForm.packages \in SUBSET Packages

CustomerInv == CustomerIsSound /\ SitesFit /\ AgreementsFit /\ FormFits

USE DEF CustomerIsSound

LEMMA AgreementFields ==
    ASSUME NEW a \in Agreement
    PROVE  /\ a.service \in 0..MaxServices /\ a.site \in 1..MaxSites /\ a.package \in Packages
           /\ a.owed \in BOOLEAN /\ a.kept \in BOOLEAN
           /\ a = [service |-> a.service, site |-> a.site, package |-> a.package,
                   owed |-> a.owed, kept |-> a.kept]
  BY DEF Agreement

LEMMA NewAgreementTyped ==
    ASSUME NEW v \in 0..MaxServices, NEW i \in 1..MaxSites, NEW p \in Packages
    PROVE  /\ NewAgreement(v, i, p) \in Agreement
           /\ NewAgreement(v, i, p).service = v /\ NewAgreement(v, i, p).site = i
           /\ NewAgreement(v, i, p).package = p
  BY DEF Agreement, NewAgreement

LEMMA PrimaryRow ==
    ASSUME NEW next \in SiteRow, NEW b \in BOOLEAN
    PROVE  /\ [next EXCEPT !.primary = b] \in SiteRow
           /\ [next EXCEPT !.primary = b].primary = b
           /\ [next EXCEPT !.primary = b].packages = next.packages
  BY Zenon DEF SiteRow

\* The forms of a site's row that the commands write.
LEMMA SiteRows ==
    ASSUME CustomerTypeOK, NEW i
    PROVE  /\ OnlyPrimary(i) \in Seq(SiteRow) /\ Len(OnlyPrimary(i)) = Len(site)
           /\ DOMAIN OnlyPrimary(i) = DOMAIN site
           /\ \A j \in DOMAIN site : /\ OnlyPrimary(i)[j].primary <=> j = i
                                     /\ OnlyPrimary(i)[j].packages = site[j].packages
  <1>1. site \in Seq(SiteRow)
    BY DEF CustomerTypeOK, SiteRow
  <1>2. ASSUME NEW j \in DOMAIN site
        PROVE  /\ OnlyPrimary(i)[j] \in SiteRow
               /\ OnlyPrimary(i)[j].primary = (j = i)
               /\ OnlyPrimary(i)[j].packages = site[j].packages
    <2>1. site[j] \in SiteRow
      BY <1>1, <1>2
    <2> DEFINE b == j = i
    <2>2. b \in BOOLEAN
      OBVIOUS
    <2>3. OnlyPrimary(i)[j] = [site[j] EXCEPT !.primary = b]
      BY <1>2 DEF OnlyPrimary
    <2> HIDE DEF b
    <2>4. /\ OnlyPrimary(i)[j] \in SiteRow /\ OnlyPrimary(i)[j].primary = b
          /\ OnlyPrimary(i)[j].packages = site[j].packages
      BY <2>1, <2>2, <2>3, PrimaryRow
    <2> QED  BY <2>4 DEF b
  <1>3. DOMAIN site = 1..Len(site) /\ Len(site) \in Nat
    BY <1>1
  <1>4. DOMAIN OnlyPrimary(i) = 1..Len(site)
    BY <1>3 DEF OnlyPrimary
  <1>5. OnlyPrimary(i) = [j \in 1..Len(site) |-> OnlyPrimary(i)[j]]
    BY <1>3 DEF OnlyPrimary
  <1>6. OnlyPrimary(i) \in [1..Len(site) -> SiteRow]
    BY <1>2, <1>3, <1>4, <1>5, Zenon
  <1>7. OnlyPrimary(i) \in Seq(SiteRow) /\ Len(OnlyPrimary(i)) = Len(site)
    BY <1>3, <1>6
  <1> QED  BY <1>2, <1>3, <1>4, <1>7

LEMMA CustomerInitInv == CustomerInit => CustomerInv
  <1> SUFFICES ASSUME CustomerInit PROVE CustomerInv
    OBVIOUS
  <1>1. PICK P \in SUBSET Packages, older \in BOOLEAN :
            \E order \in { o \in [1..Cardinality(P) -> P] : \A p \in P : \E n \in DOMAIN o : o[n] = p } :
                /\ Cardinality(P) <= MaxServices
                /\ archived = FALSE
                /\ site = <<[primary |-> TRUE, packages |-> P]>>
                /\ serviceSite = IF older THEN <<>>
                                 ELSE [v \in 1..(IF P = {} THEN 1 ELSE Cardinality(P)) |-> 1]
                /\ agreement = { NewAgreement(IF older THEN 0 ELSE v, 1, order[v]) : v \in DOMAIN order }
                /\ accountForm = NoForm
    BY DEF CustomerInit
  <1>2. PICK order \in [1..Cardinality(P) -> P] :
                /\ Cardinality(P) <= MaxServices
                /\ archived = FALSE
                /\ site = <<[primary |-> TRUE, packages |-> P]>>
                /\ serviceSite = IF older THEN <<>>
                                 ELSE [v \in 1..(IF P = {} THEN 1 ELSE Cardinality(P)) |-> 1]
                /\ agreement = { NewAgreement(IF older THEN 0 ELSE v, 1, order[v]) : v \in DOMAIN order }
                /\ accountForm = NoForm
    BY <1>1
  <1>3. Cardinality(P) \in Nat
    BY FS_Subset, FS_CardinalityType, CustomerPackages
  <1> DEFINE n == IF P = {} THEN 1 ELSE Cardinality(P)
  <1>4. n \in 1..MaxServices /\ Cardinality(P) <= n /\ MaxServices \in Nat /\ MaxSites \in Nat /\ MaxSites >= 1
    BY <1>2, <1>3, CustomerBounds, FS_EmptySet, FS_Subset, CustomerPackages
  <1>5. /\ serviceSite \in Seq(1..MaxSites) /\ Len(serviceSite) <= MaxServices
        /\ \A v \in DOMAIN serviceSite : serviceSite[v] = 1
        /\ ~older => DOMAIN serviceSite = 1..n
    <2>1. CASE older
      BY <1>2, <1>4, <2>1
    <2>2. CASE ~older
      <3>1. serviceSite = [v \in 1..n |-> 1]
        BY <1>2, <2>2
      <3> HIDE DEF n
      <3> QED  BY <3>1, <1>4
    <2> QED  BY <2>1, <2>2
  <1>6. /\ site \in Seq(SiteRow) /\ Len(site) = 1 /\ DOMAIN site = {1}
        /\ site[1].primary /\ site[1].packages = P
    BY <1>2 DEF SiteRow
  <1> HIDE DEF n
  <1>7. ASSUME NEW a \in agreement
        PROVE  /\ a \in Agreement /\ a.site = 1 /\ a.package \in P
               /\ a.service # 0 => a.service \in DOMAIN serviceSite /\ ~older
    <2>1. PICK v \in 1..Cardinality(P) : a = NewAgreement(IF older THEN 0 ELSE v, 1, order[v])
      BY <1>2, <1>7
    <2>2. order[v] \in P /\ v \in 1..n /\ (IF older THEN 0 ELSE v) \in 0..MaxServices /\ 1 \in 1..MaxSites
      BY <1>2, <1>3, <1>4
    <2>3. /\ a \in Agreement /\ a.site = 1 /\ a.package = order[v]
          /\ a.service = IF older THEN 0 ELSE v
      BY <2>1, <2>2, NewAgreementTyped
    <2> QED  BY <2>2, <2>3, <1>5
  <1>8. OneAgreementEach
    <2> SUFFICES ASSUME NEW a \in agreement, NEW b \in agreement, a.service = b.service, a.service # 0
                 PROVE  a = b
      BY DEF OneAgreementEach
    <2>1. ~older
      BY <1>7
    <2>2. PICK v \in 1..Cardinality(P) : a = NewAgreement(v, 1, order[v])
      BY <1>2, <2>1
    <2>3. PICK w \in 1..Cardinality(P) : b = NewAgreement(w, 1, order[w])
      BY <1>2, <2>1
    <2>4. a.service = v /\ b.service = w
      BY <2>2, <2>3 DEF NewAgreement
    <2> QED  BY <2>2, <2>3, <2>4
  <1>9. CustomerTypeOK
    BY <1>2, <1>5, <1>6, <1>7 DEF CustomerTypeOK, SiteRow, NoForm
  <1>10. OnePrimarySite /\ AgreedIsListed
    BY <1>6, <1>7 DEF OnePrimarySite, AgreedIsListed
  <1>11. SitesFit /\ AgreementsFit
    BY <1>4, <1>5, <1>6, <1>7 DEF SitesFit, AgreementsFit
  <1>12. FormFits
    BY <1>2 DEF FormFits, NoForm
  <1> QED  BY <1>8, <1>9, <1>10, <1>11, <1>12 DEF CustomerInv

LEMMA InvFacts ==
    ASSUME CustomerInv
    PROVE  /\ site \in Seq(SiteRow) /\ Len(site) \in 1..MaxSites /\ DOMAIN site = 1..Len(site)
           /\ serviceSite \in Seq(1..MaxSites) /\ Len(serviceSite) \in 0..MaxServices
           /\ DOMAIN serviceSite = 1..Len(serviceSite)
           /\ \A v \in DOMAIN serviceSite : serviceSite[v] \in DOMAIN site
           /\ MaxSites \in Nat /\ MaxServices \in Nat
           /\ \A a \in agreement : a \in Agreement /\ a.site \in DOMAIN site
  BY CustomerBounds DEF CustomerInv, CustomerTypeOK, SitesFit, AgreementsFit, SiteRow

\* Commands that touch sites only, keeping the lists of packages.
LEMMA SitesStep ==
    ASSUME CustomerInv,
           archived' \in BOOLEAN, site' \in Seq(SiteRow), Len(site') \in 1..MaxSites,
           Len(site) <= Len(site'),
           \A i \in DOMAIN site : site'[i].packages = site[i].packages,
           \A i, j \in DOMAIN site' : site'[i].primary /\ site'[j].primary => i = j,
           UNCHANGED <<serviceSite, agreement>>,
           accountForm' = accountForm \/ accountForm' = NoForm
    PROVE  CustomerInv'
  <1>1. DOMAIN site' = 1..Len(site') /\ DOMAIN site \subseteq DOMAIN site'
    BY InvFacts
  <1>2. CustomerTypeOK'
    <2>1. agreement' \subseteq Agreement /\ serviceSite' \in Seq(1..MaxSites)
      BY InvFacts
    <2>2. accountForm'.sent \in BOOLEAN
      <3>1. NoForm.sent \in BOOLEAN
        BY DEF NoForm
      <3>2. accountForm.sent \in BOOLEAN
        BY DEF CustomerInv, CustomerTypeOK
      <3> QED  BY <3>1, <3>2
    <2>3. site' \in Seq([primary : BOOLEAN, packages : SUBSET Packages])
      BY DEF SiteRow
    <2> QED  BY <2>1, <2>2, <2>3 DEF CustomerTypeOK
  <1>3. OneAgreementEach'
    BY DEF CustomerInv, OneAgreementEach
  <1>4. SitesFit' /\ AgreementsFit'
    BY <1>1 DEF CustomerInv, SitesFit, AgreementsFit
  <1>5. AgreedIsListed'
    BY InvFacts DEF CustomerInv, AgreedIsListed
  <1>6. FormFits' /\ OnePrimarySite'
    BY DEF CustomerInv, FormFits, NoForm, OnePrimarySite
  <1> QED  BY <1>2, <1>3, <1>4, <1>5, <1>6 DEF CustomerInv

LEMMA AddSiteInv ==
    ASSUME CustomerInv, NEW primary \in BOOLEAN, AddSite(primary)
    PROVE  CustomerInv'
  <1> DEFINE rows == IF primary THEN OnlyPrimary(0) ELSE site
             new == [primary |-> primary, packages |-> {}]
  <1>1. /\ rows \in Seq(SiteRow) /\ Len(rows) = Len(site) /\ new \in SiteRow
        /\ \A j \in DOMAIN site : /\ rows[j].packages = site[j].packages
                                  /\ rows[j].primary => ~primary /\ site[j].primary
    <2>1. new \in SiteRow
      BY DEF SiteRow
    <2>2. CASE primary
      <3>1. \A j \in DOMAIN site : j # 0
        BY InvFacts
      <3> QED  BY <2>1, <2>2, <3>1, SiteRows DEF CustomerInv
    <2>3. CASE ~primary
      BY <2>1, <2>3, InvFacts
    <2> QED  BY <2>2, <2>3
  <1>2. site' = Append(rows, new) /\ Len(site) < MaxSites
    BY DEF AddSite
  <1>3. new.primary = primary
    OBVIOUS
  <1> HIDE DEF rows, new
  <1>4. /\ site' \in Seq(SiteRow) /\ Len(site') = Len(site) + 1 /\ DOMAIN site' = 1..(Len(site) + 1)
        /\ \A j \in DOMAIN site : site'[j] = rows[j]
        /\ site'[Len(site) + 1] = new
    BY <1>1, <1>2, InvFacts
  <1>5. \A i, j \in DOMAIN site' : site'[i].primary /\ site'[j].primary => i = j
    <2> SUFFICES ASSUME NEW i \in DOMAIN site', NEW j \in DOMAIN site',
                        site'[i].primary, site'[j].primary
                 PROVE  i = j
      OBVIOUS
    <2>1. \A k \in DOMAIN site' : k \in DOMAIN site \/ k = Len(site) + 1
      BY <1>4, InvFacts
    <2>2. \A k \in DOMAIN site : site'[k].primary => ~primary /\ site[k].primary
      BY <1>1, <1>4
    <2>3. OnePrimarySite
      BY DEF CustomerInv
    <2> QED  BY <1>3, <1>4, <2>1, <2>2, <2>3 DEF OnePrimarySite
  <1>6. \A i \in DOMAIN site : site'[i].packages = site[i].packages
    BY <1>1, <1>4
  <1>7. Len(site') \in 1..MaxSites /\ Len(site) <= Len(site')
    BY <1>2, <1>4, InvFacts
  <1>8. archived' \in BOOLEAN /\ UNCHANGED <<serviceSite, agreement, accountForm>>
    BY DEF AddSite, CustomerInv, CustomerTypeOK
  <1> QED  BY <1>4, <1>5, <1>6, <1>7, <1>8, SitesStep

LEMMA EditSiteInv ==
    ASSUME CustomerInv, NEW i \in DOMAIN site, NEW primary \in BOOLEAN, EditSite(i, primary)
    PROVE  CustomerInv'
  <1>1. archived' \in BOOLEAN /\ UNCHANGED <<serviceSite, agreement, accountForm>>
    BY DEF EditSite, CustomerInv, CustomerTypeOK
  <1>2. CASE primary
    <2>1. site' = OnlyPrimary(i)
      BY <1>2 DEF EditSite, SavedSite
    <2>2. \A j, k \in DOMAIN site' : site'[j].primary /\ site'[k].primary => j = k
      BY <2>1, SiteRows DEF CustomerInv
    <2> QED  BY <1>1, <2>1, <2>2, SiteRows, InvFacts, SitesStep DEF CustomerInv
  <1>3. CASE ~primary
    <2>1. site' = [site EXCEPT ![i] = [site[i] EXCEPT !.primary = FALSE]]
      BY <1>3 DEF EditSite, SavedSite, WithPrimary
    <2>2. /\ [site[i] EXCEPT !.primary = FALSE] \in SiteRow
          /\ [site[i] EXCEPT !.primary = FALSE].primary = FALSE
          /\ [site[i] EXCEPT !.primary = FALSE].packages = site[i].packages
      <3>1. site[i] \in SiteRow
        BY InvFacts
      <3> QED  BY <3>1, PrimaryRow
    <2> DEFINE next == [site[i] EXCEPT !.primary = FALSE]
    <2>3. next \in SiteRow /\ next.primary = FALSE /\ next.packages = site[i].packages
      BY <2>2
    <2>4. site' = [site EXCEPT ![i] = next]
      BY <2>1
    <2> HIDE DEF next
    <2>5. /\ site' \in Seq(SiteRow) /\ Len(site') = Len(site) /\ DOMAIN site' = DOMAIN site
          /\ \A j \in DOMAIN site : site'[j] = IF j = i THEN next ELSE site[j]
      BY <2>3, <2>4, InvFacts
    <2>6. \A j \in DOMAIN site : site'[j].primary => site[j].primary
      BY <2>3, <2>5
    <2>9. \A j \in DOMAIN site : site'[j].packages = site[j].packages
      BY <2>3, <2>5
    <2>7. \A j, k \in DOMAIN site' : site'[j].primary /\ site'[k].primary => j = k
      <3> SUFFICES ASSUME NEW j \in DOMAIN site, NEW k \in DOMAIN site,
                          site'[j].primary, site'[k].primary
                   PROVE  j = k
        BY <2>5
      <3>1. site[j].primary /\ site[k].primary
        BY <2>6
      <3>2. \A l, m \in DOMAIN site : site[l].primary /\ site[m].primary => l = m
        BY DEF CustomerInv, OnePrimarySite
      <3> QED  BY <3>1, <3>2
    <2>8. Len(site') \in 1..MaxSites /\ Len(site) <= Len(site')
      BY <2>5, InvFacts
    <2> QED  BY <1>1, <2>5, <2>7, <2>8, <2>9, SitesStep
  <1> QED  BY <1>2, <1>3

\* What Relist does to the rows of the sites.
LEMMA Relisted ==
    ASSUME CustomerInv, NEW i \in DOMAIN site, NEW more \in SUBSET Packages, NEW less,
           Relist(i, more, less)
    PROVE  /\ site' \in Seq(SiteRow) /\ Len(site') = Len(site) /\ DOMAIN site' = DOMAIN site
           /\ site'[i].packages = (site[i].packages \cup more) \ less
           /\ \A j \in DOMAIN site : j # i => site'[j].packages = site[j].packages
           /\ OnePrimarySite'
  <1> DEFINE next == [site[i] EXCEPT !.packages = (@ \cup more) \ less]
  <1>1. site[i] \in SiteRow
    BY InvFacts
  <1>2. /\ next \in SiteRow /\ next.primary = site[i].primary
        /\ next.packages = (site[i].packages \cup more) \ less
    BY <1>1 DEF SiteRow
  <1>3. site' = [site EXCEPT ![i] = next]
    BY DEF Relist
  <1> HIDE DEF next
  <1>4. /\ site' \in Seq(SiteRow) /\ Len(site') = Len(site) /\ DOMAIN site' = DOMAIN site
        /\ site'[i] = next /\ \A j \in DOMAIN site : j # i => site'[j] = site[j]
    BY <1>2, <1>3, InvFacts
  <1>5. \A j \in DOMAIN site : site'[j].primary = site[j].primary
    BY <1>2, <1>4
  <1>6. OnePrimarySite'
    BY <1>4, <1>5 DEF CustomerInv, OnePrimarySite
  <1> QED  BY <1>2, <1>4, <1>6

LEMMA AtMostOne ==
    ASSUME NEW P \in SUBSET Packages, Cardinality(P) <= 1, NEW p \in P, NEW q \in P
    PROVE  p = q
  <1> SUFFICES ASSUME p # q PROVE FALSE
    OBVIOUS
  <1>1. IsFiniteSet(P) /\ Cardinality(P) \in Nat
    BY CustomerPackages, FS_Subset, FS_CardinalityType
  <1>2. IsFiniteSet({p}) /\ Cardinality({p}) = 1
    BY FS_Singleton
  <1>3. Cardinality({p} \cup {q}) = 2
    <2>1. q \notin {p}
      OBVIOUS
    <2>2. Cardinality({p} \cup {q}) = IF q \in {p} THEN Cardinality({p}) ELSE Cardinality({p}) + 1
      BY <1>2, FS_AddElement, Zenon
    <2> QED  BY <1>2, <2>1, <2>2
  <1>4. {p} \cup {q} \in SUBSET P
    OBVIOUS
  <1>5. Cardinality({p} \cup {q}) <= Cardinality(P)
    BY <1>1, <1>4, FS_Subset
  <1> QED  BY <1>1, <1>3, <1>5

LEMMA AddServiceInv ==
    ASSUME CustomerInv, NEW i \in DOMAIN site, NEW P \in SUBSET Packages, Cardinality(P) <= 1,
           AddService(i, P)
    PROVE  CustomerInv'
  <1> DEFINE v == Len(serviceSite) + 1
  <1>1. /\ v \in 1..MaxServices /\ i \in 1..MaxSites
        /\ serviceSite' = Append(serviceSite, i)
        /\ agreement' = agreement \cup { NewAgreement(v, i, p) : p \in P }
        /\ Relist(i, P, {}) /\ UNCHANGED <<archived, accountForm>>
    BY InvFacts DEF AddService
  <1>2. /\ serviceSite' \in Seq(1..MaxSites) /\ Len(serviceSite') = v
        /\ DOMAIN serviceSite' = 1..v /\ serviceSite'[v] = i
        /\ \A w \in DOMAIN serviceSite : w \in 1..v /\ w # v /\ serviceSite'[w] = serviceSite[w]
    BY <1>1, InvFacts
  <1>3. /\ site' \in Seq(SiteRow) /\ Len(site') = Len(site) /\ DOMAIN site' = DOMAIN site
        /\ site'[i].packages = site[i].packages \cup P
        /\ \A j \in DOMAIN site : j # i => site'[j].packages = site[j].packages
        /\ OnePrimarySite'
    <2>1. (site[i].packages \cup P) \ {} = site[i].packages \cup P
      OBVIOUS
    <2> QED  BY <1>1, <2>1, Relisted
  <1>4. \A a \in agreement : a \in Agreement /\ a.site \in DOMAIN site /\ a.service # v
    BY <1>1, InvFacts, <1>2 DEF CustomerInv, AgreementsFit
  <1>5. ASSUME NEW a \in agreement', a \notin agreement
        PROVE  /\ a \in Agreement /\ a.service = v /\ a.site = i /\ a.package \in P
               /\ a = NewAgreement(v, i, a.package)
    <2>1. PICK p \in P : a = NewAgreement(v, i, p)
      BY <1>1, <1>5
    <2>2. v \in 0..MaxServices
      BY <1>1, InvFacts
    <2> HIDE DEF v
    <2> QED  BY <1>1, <2>1, <2>2, NewAgreementTyped
  <1> HIDE DEF v
  <1>6. OneAgreementEach'
    <2> SUFFICES ASSUME NEW a \in agreement', NEW b \in agreement', a.service = b.service, a.service # 0
                 PROVE  a = b
      BY DEF OneAgreementEach
    <2>1. CASE a \in agreement
      <3>1. b \in agreement
        BY <1>4, <1>5, <2>1
      <3> QED  BY <2>1, <3>1 DEF CustomerInv, OneAgreementEach
    <2>2. CASE a \notin agreement
      <3>1. b \notin agreement
        BY <1>4, <1>5, <2>2
      <3> QED  BY <1>5, <2>2, <3>1, AtMostOne
    <2> QED  BY <2>1, <2>2
  <1>7. AgreementsFit'
    <2> SUFFICES ASSUME NEW a \in agreement'
                 PROVE  /\ a.site \in DOMAIN site'
                        /\ a.service # 0 => a.service \in DOMAIN serviceSite' /\ serviceSite'[a.service] = a.site
      BY DEF AgreementsFit
    <2>1. CASE a \in agreement
      BY <1>2, <1>3, <2>1 DEF CustomerInv, AgreementsFit
    <2>2. CASE a \notin agreement
      BY <1>1, <1>2, <1>3, <1>5, <2>2
    <2> QED  BY <2>1, <2>2
  <1>8. AgreedIsListed'
    <2> SUFFICES ASSUME NEW a \in agreement' PROVE a.package \in site'[a.site].packages \/ a.kept
      BY DEF AgreedIsListed
    <2>1. CASE a \in agreement
      <3>1. a.package \in site[a.site].packages \/ a.kept
        BY <2>1 DEF CustomerInv, AgreedIsListed
      <3>2. site[a.site].packages \subseteq site'[a.site].packages
        BY <1>3, <1>4, <2>1
      <3> QED  BY <3>1, <3>2
    <2>2. CASE a \notin agreement
      BY <1>3, <1>5, <2>2
    <2> QED  BY <2>1, <2>2
  <1>9. CustomerTypeOK'
    <2>1. agreement' \subseteq Agreement
      BY <1>4, <1>5
    <2>2. archived' \in BOOLEAN /\ accountForm'.sent \in BOOLEAN
      BY <1>1 DEF CustomerInv, CustomerTypeOK
    <2> QED  BY <1>2, <1>3, <2>1, <2>2 DEF CustomerTypeOK, SiteRow
  <1>10. SitesFit' /\ FormFits'
    <2>1. Len(site') \in 1..MaxSites /\ Len(serviceSite') <= MaxServices
      BY <1>1, <1>2, <1>3, InvFacts
    <2>2. \A w \in DOMAIN serviceSite' : w = v \/ w \in DOMAIN serviceSite
      BY <1>1, <1>2, InvFacts DEF v
    <2>3. \A w \in DOMAIN serviceSite' : serviceSite'[w] \in DOMAIN site'
      BY <1>2, <1>3, <2>2, InvFacts
    <2> QED  BY <1>1, <2>1, <2>3 DEF SitesFit, FormFits, CustomerInv
  <1> QED  BY <1>3, <1>6, <1>7, <1>8, <1>9, <1>10 DEF CustomerInv

LEMMA ChangePackageInv ==
    ASSUME CustomerInv, NEW v \in DOMAIN serviceSite, NEW p \in Packages, ChangePackage(v, p)
    PROVE  CustomerInv'
  <1> DEFINE i == serviceSite[v]
             less == Unlisted(v, p)
             new == NewAgreement(v, i, p)
  <1>1. /\ \A a \in Of(v) : a.package # p
        /\ agreement' = (agreement \ Of(v)) \cup {new}
        /\ Relist(i, {p}, less) /\ UNCHANGED <<archived, serviceSite, accountForm>>
    BY DEF ChangePackage, Instead
  <1>2. /\ i \in DOMAIN site /\ i \in 1..MaxSites /\ v \in 0..MaxServices /\ v # 0
        /\ new \in Agreement /\ new.service = v /\ new.site = i /\ new.package = p
    <2>1. i \in DOMAIN site /\ i \in 1..MaxSites /\ v \in 0..MaxServices /\ v # 0
      BY InvFacts
    <2> HIDE DEF i
    <2> QED  BY <2>1, NewAgreementTyped
  <1>3. Of(v) = { a \in agreement : a.service = v }
    BY <1>2 DEF Of
  <1>4. p \notin less
    BY <1>1 DEF Unlisted
  <1> HIDE DEF new
  <1>5. /\ site' \in Seq(SiteRow) /\ Len(site') = Len(site) /\ DOMAIN site' = DOMAIN site
        /\ site'[i].packages = (site[i].packages \cup {p}) \ less
        /\ \A j \in DOMAIN site : j # i => site'[j].packages = site[j].packages
        /\ OnePrimarySite'
    <2> HIDE DEF i, less
    <2> QED  BY <1>1, <1>2, Relisted
  <1>6. \A a \in agreement' : a = new \/ (a \in agreement /\ a.service # v)
    BY <1>1, <1>3
  <1>7. OneAgreementEach'
    BY <1>2, <1>6 DEF CustomerInv, OneAgreementEach
  <1>8. AgreementsFit'
    BY <1>1, <1>2, <1>5, <1>6 DEF CustomerInv, AgreementsFit
  <1>9. AgreedIsListed'
    <2> SUFFICES ASSUME NEW a \in agreement' PROVE a.package \in site'[a.site].packages \/ a.kept
      BY DEF AgreedIsListed
    <2>1. CASE a = new
      BY <1>2, <1>4, <1>5, <2>1
    <2>2. CASE a # new
      <3>1. a \in agreement /\ a.service # v
        BY <1>6, <2>2
      <3>2. (a.package \in site[a.site].packages \/ a.kept) /\ a.site \in DOMAIN site
        BY <3>1, InvFacts DEF CustomerInv, AgreedIsListed
      <3>3. a.site = i => a.package \notin less
        BY <3>1, <1>3 DEF Unlisted, At
      <3> QED  BY <1>5, <3>2, <3>3
    <2> QED  BY <2>1, <2>2
  <1>10. CustomerTypeOK'
    <2>1. agreement' \subseteq Agreement
      BY <1>2, <1>6, InvFacts
    <2> QED  BY <1>1, <1>5, <2>1 DEF CustomerInv, CustomerTypeOK, SiteRow
  <1>11. SitesFit' /\ FormFits'
    BY <1>1, <1>5 DEF SitesFit, FormFits, CustomerInv
  <1> QED  BY <1>5, <1>7, <1>8, <1>9, <1>10, <1>11 DEF CustomerInv

LEMMA PrimarySiteExists == CustomerInv => PrimarySite \in DOMAIN site
  <1> SUFFICES ASSUME CustomerInv PROVE PrimarySite \in DOMAIN site
    OBVIOUS
  <1>1. 1 \in DOMAIN site
    BY InvFacts
  <1>2. CASE \E i \in DOMAIN site : site[i].primary
    <2>1. PICK i \in DOMAIN site : site[i].primary
      BY <1>2
    <2>2. \A j \in DOMAIN site : site[j].primary => i <= j
      BY <2>1, InvFacts DEF CustomerInv, OnePrimarySite
    <2> QED  BY <1>2, <2>1, <2>2 DEF PrimarySite
  <1> QED  BY <1>1, <1>2 DEF PrimarySite

\* Agreements after a synchronisation of the packages of a site.
LEMMA SyncedAgreements ==
    ASSUME CustomerInv, NEW i \in DOMAIN site, NEW P \in SUBSET Packages,
           NEW b \in Marked(i, P, Synced(i, P))
    PROVE  \E a \in Agreement :
              /\ a \in agreement \/ (a.service = 0 /\ a.site = i)
              /\ b \in Agreement /\ b = [a EXCEPT !.kept = IF a.site = i THEN a.package \notin P ELSE @]
              /\ b.service = a.service /\ b.site = a.site /\ b.package = a.package
              /\ b.kept = IF a.site = i THEN a.package \notin P ELSE a.kept
  <1>1. PICK a \in Synced(i, P) : b = [a EXCEPT !.kept = IF a.site = i THEN a.package \notin P ELSE @]
    BY DEF Marked
  <1>2. a \in Agreement /\ (a \in agreement \/ (a.service = 0 /\ a.site = i))
    <2>1. CASE a \in agreement
      BY <2>1, InvFacts
    <2>2. CASE a \notin agreement
      <3>1. PICK p \in P : a = NewAgreement(0, i, p)
        BY <2>2 DEF Synced
      <3>2. 0 \in 0..MaxServices /\ i \in 1..MaxSites
        BY InvFacts
      <3> QED  BY <3>1, <3>2, NewAgreementTyped
    <2> QED  BY <2>1, <2>2
  <1> DEFINE k == IF a.site = i THEN a.package \notin P ELSE a.kept
  <1>3. k \in BOOLEAN
    BY <1>2 DEF Agreement
  <1>4. b = [a EXCEPT !.kept = k]
    BY <1>1
  <1> HIDE DEF k
  <1>5. /\ b \in Agreement /\ b.service = a.service /\ b.site = a.site /\ b.package = a.package
        /\ b.kept = k
    BY <1>2, <1>3, <1>4, Zenon DEF Agreement
  <1>6. b.kept = IF a.site = i THEN a.package \notin P ELSE a.kept
    BY <1>5 DEF k
  <1> QED  BY <1>1, <1>2, <1>5, <1>6

LEMMA SaveAccountInv == CustomerInv /\ SaveAccount => CustomerInv'
  <1> SUFFICES ASSUME CustomerInv, SaveAccount PROVE CustomerInv'
    OBVIOUS
  <1> DEFINE i == PrimarySite
             P == accountForm.packages
  <1>1. /\ i \in DOMAIN site /\ P \in SUBSET Packages /\ accountForm' = NoForm
        /\ archived' \in BOOLEAN /\ serviceSite' = serviceSite
    BY PrimarySiteExists DEF SaveAccount, CustomerInv, FormFits, CustomerTypeOK
  <1>2. CASE accountForm.managed
    <2>1. site' = OnlyPrimary(i) /\ agreement' = agreement
      BY <1>2 DEF SaveAccount
    <2> HIDE DEF i, P
    <2>2. /\ site' \in Seq(SiteRow) /\ Len(site') = Len(site)
          /\ \A j \in DOMAIN site : site'[j].packages = site[j].packages
          /\ \A j, k \in DOMAIN site' : site'[j].primary /\ site'[k].primary => j = k
      BY <2>1, SiteRows DEF CustomerInv
    <2> QED  BY <1>1, <2>1, <2>2, InvFacts, SitesStep
  <1>3. CASE ~accountForm.managed
    <2>1. /\ site' = [OnlyPrimary(i) EXCEPT ![i].packages = P]
          /\ agreement' = Marked(i, P, Synced(i, P))
      BY <1>3 DEF SaveAccount
    <2> HIDE DEF i, P
    <2> DEFINE rows == OnlyPrimary(i)
               next == [rows[i] EXCEPT !.packages = P]
    <2>2. /\ rows \in Seq(SiteRow) /\ Len(rows) = Len(site) /\ DOMAIN rows = DOMAIN site
          /\ \A j \in DOMAIN site : /\ rows[j].primary <=> j = i
                                    /\ rows[j].packages = site[j].packages
      BY SiteRows DEF CustomerInv
    <2>3. site' = [rows EXCEPT ![i] = next]
      BY <2>1
    <2> HIDE DEF rows
    <2>4. next \in SiteRow /\ next.primary = rows[i].primary /\ next.packages = P
      <3>1. rows[i] \in SiteRow
        BY <1>1, <2>2
      <3> QED  BY <1>1, <3>1 DEF SiteRow
    <2> HIDE DEF next
    <2>5. /\ site' \in Seq(SiteRow) /\ Len(site') = Len(site) /\ DOMAIN site' = DOMAIN site
          /\ site'[i] = next
          /\ \A j \in DOMAIN site : j # i => site'[j] = rows[j]
      BY <1>1, <2>2, <2>3, <2>4
    <2>6. /\ site'[i].packages = P
          /\ \A j \in DOMAIN site : j # i => site'[j].packages = site[j].packages
      BY <2>2, <2>4, <2>5
    <2>7. OnePrimarySite'
      <3>1. \A j \in DOMAIN site : site'[j].primary => j = i
        BY <2>2, <2>4, <2>5
      <3> QED  BY <2>5, <3>1 DEF OnePrimarySite
    <2>8. ASSUME NEW b \in agreement'
          PROVE  \E a \in Agreement :
              /\ a \in agreement \/ (a.service = 0 /\ a.site = i)
              /\ b \in Agreement /\ b = [a EXCEPT !.kept = IF a.site = i THEN a.package \notin P ELSE @]
              /\ b.service = a.service /\ b.site = a.site /\ b.package = a.package
              /\ b.kept = IF a.site = i THEN a.package \notin P ELSE a.kept
      BY <1>1, <2>1, <2>8, SyncedAgreements
    <2>9. OneAgreementEach'
      <3> SUFFICES ASSUME NEW b \in agreement', NEW c \in agreement', b.service = c.service, b.service # 0
                   PROVE  b = c
        BY DEF OneAgreementEach
      <3>1. PICK a \in Agreement : /\ a \in agreement \/ a.service = 0
                                  /\ b = [a EXCEPT !.kept = IF a.site = i THEN a.package \notin P ELSE @]
                                  /\ b.service = a.service
        BY <2>8
      <3>2. PICK d \in Agreement : /\ d \in agreement \/ d.service = 0
                                  /\ c = [d EXCEPT !.kept = IF d.site = i THEN d.package \notin P ELSE @]
                                  /\ c.service = d.service
        BY <2>8
      <3>3. a = d
        BY <3>1, <3>2 DEF CustomerInv, OneAgreementEach
      <3> QED  BY <3>1, <3>2, <3>3
    <2>10. AgreementsFit'
      <3> SUFFICES ASSUME NEW b \in agreement'
                   PROVE  /\ b.site \in DOMAIN site'
                          /\ b.service # 0 => b.service \in DOMAIN serviceSite' /\ serviceSite'[b.service] = b.site
        BY DEF AgreementsFit
      <3>1. PICK a \in Agreement : /\ a \in agreement \/ (a.service = 0 /\ a.site = i)
                                  /\ b.service = a.service /\ b.site = a.site
        BY <2>8
      <3> QED  BY <1>1, <2>5, <3>1 DEF CustomerInv, AgreementsFit
    <2>11. AgreedIsListed'
      <3> SUFFICES ASSUME NEW b \in agreement' PROVE b.package \in site'[b.site].packages \/ b.kept
        BY DEF AgreedIsListed
      <3>1. PICK a \in Agreement : /\ a \in agreement \/ (a.service = 0 /\ a.site = i)
                                  /\ b.site = a.site /\ b.package = a.package
                                  /\ b.kept = IF a.site = i THEN a.package \notin P ELSE a.kept
        BY <2>8
      <3>2. CASE a.site = i
        BY <2>6, <3>1, <3>2
      <3>3. CASE a.site # i
        <4>1. (a.package \in site[a.site].packages \/ a.kept) /\ a.site \in DOMAIN site
          BY <3>1, <3>3, InvFacts DEF CustomerInv, AgreedIsListed
        <4> QED  BY <2>6, <3>1, <3>3, <4>1
      <3> QED  BY <3>2, <3>3
    <2>12. CustomerTypeOK'
      <3>1. agreement' \subseteq Agreement
        BY <2>8
      <3>2. NoForm.sent \in BOOLEAN
        BY DEF NoForm
      <3> QED  BY <1>1, <2>5, <3>1, <3>2, InvFacts DEF CustomerTypeOK, SiteRow
    <2>13. SitesFit' /\ FormFits'
      BY <1>1, <2>5 DEF SitesFit, FormFits, CustomerInv, NoForm
    <2> QED  BY <2>7, <2>9, <2>10, <2>11, <2>12, <2>13 DEF CustomerInv
  <1> QED  BY <1>2, <1>3

\* Billing changes agreements one by one, and adds none.
LEMMA AgreementsStep ==
    ASSUME CustomerInv, UNCHANGED <<archived, site, serviceSite, accountForm>>,
           NEW a \in agreement, NEW owed \in BOOLEAN,
           \A b \in agreement' : b = [a EXCEPT !.owed = owed] \/ (b \in agreement /\ b # a)
    PROVE  CustomerInv'
  <1> DEFINE c == [a EXCEPT !.owed = owed]
  <1>1. /\ c \in Agreement /\ c.service = a.service /\ c.site = a.site /\ c.package = a.package
        /\ c.kept = a.kept
    <2>1. a \in Agreement
      BY InvFacts
    <2> QED  BY <2>1, Zenon DEF Agreement
  <1>2. \A b \in agreement' : b = c \/ (b \in agreement /\ b # a)
    OBVIOUS
  <1> HIDE DEF c
  <1>3. OneAgreementEach'
    BY <1>1, <1>2 DEF CustomerInv, OneAgreementEach
  <1>4. AgreementsFit'
    BY <1>1, <1>2 DEF CustomerInv, AgreementsFit
  <1>5. AgreedIsListed'
    BY <1>1, <1>2 DEF CustomerInv, AgreedIsListed
  <1>6. CustomerTypeOK'
    <2>1. agreement' \subseteq Agreement
      BY <1>1, <1>2, InvFacts
    <2> QED  BY <2>1 DEF CustomerInv, CustomerTypeOK
  <1>7. OnePrimarySite' /\ SitesFit' /\ FormFits'
    BY DEF CustomerInv, OnePrimarySite, SitesFit, FormFits
  <1> QED  BY <1>3, <1>4, <1>5, <1>6, <1>7 DEF CustomerInv

\* Commands that change the form or the archive flag only.
LEMMA FormStep ==
    ASSUME CustomerInv, UNCHANGED <<site, serviceSite, agreement>>,
           archived' \in BOOLEAN, accountForm'.sent \in BOOLEAN, FormFits'
    PROVE  CustomerInv'
  <1>1. CustomerTypeOK'
    BY DEF CustomerInv, CustomerTypeOK
  <1> QED
    BY <1>1 DEF CustomerInv, OnePrimarySite, OneAgreementEach, AgreedIsListed, SitesFit, AgreementsFit

LEMMA CustomerNextInv == CustomerInv /\ [CustomerNext]_customerVars => CustomerInv'
  <1> SUFFICES ASSUME CustomerInv, [CustomerNext]_customerVars PROVE CustomerInv'
    OBVIOUS
  <1>0. archived \in BOOLEAN /\ accountForm.sent \in BOOLEAN /\ FormFits
    BY DEF CustomerInv, CustomerTypeOK
  <1>1. ASSUME NEW primary \in BOOLEAN, AddSite(primary) PROVE CustomerInv'
    BY <1>1, AddSiteInv
  <1>2. ASSUME NEW primary \in BOOLEAN, NEW i \in DOMAIN site, EditSite(i, primary) PROVE CustomerInv'
    BY <1>2, EditSiteInv
  <1>3. ASSUME NEW i \in DOMAIN site, NEW P \in SUBSET Packages, Cardinality(P) <= 1, AddService(i, P)
        PROVE  CustomerInv'
    BY <1>3, AddServiceInv
  <1>4. ASSUME NEW v \in DOMAIN serviceSite, NEW p \in Packages, ChangePackage(v, p) PROVE CustomerInv'
    BY <1>4, ChangePackageInv
  <1>5. ASSUME NEW P \in SUBSET Packages, SendAccountForm(P) PROVE CustomerInv'
    <2>1. accountForm'.sent \in BOOLEAN /\ FormFits'
      BY <1>5 DEF SendAccountForm, FormFits
    <2> QED  BY <1>0, <1>5, <2>1, FormStep DEF SendAccountForm
  <1>6. ASSUME RefuseAccount PROVE CustomerInv'
    <2>1. accountForm'.sent \in BOOLEAN /\ FormFits'
      BY <1>6 DEF RefuseAccount, FormFits, NoForm
    <2> QED  BY <1>0, <1>6, <2>1, FormStep DEF RefuseAccount
  <1>7. ASSUME Archive PROVE CustomerInv'
    <2>1. accountForm'.sent \in BOOLEAN /\ FormFits' /\ archived' \in BOOLEAN
      BY <1>0, <1>7 DEF Archive, FormFits
    <2> QED  BY <1>7, <2>1, FormStep DEF Archive
  <1>8. ASSUME NEW a \in agreement, CancelAgreement(a) PROVE CustomerInv'
    <2>1. \A b \in agreement' : b \in agreement /\ b # a
      BY <1>8 DEF CancelAgreement
    <2> QED  BY <1>8, <2>1, AgreementsStep DEF CancelAgreement
  <1>9. ASSUME NEW a \in agreement, NEW owed \in BOOLEAN, Bill(a, owed) PROVE CustomerInv'
    <2>1. \A b \in agreement' : b = [a EXCEPT !.owed = owed] \/ (b \in agreement /\ b # a)
      BY <1>9 DEF Bill
    <2> QED  BY <1>9, <2>1, AgreementsStep DEF Bill
  <1>10. CASE UNCHANGED customerVars
    <2>1. FormFits'
      BY <1>10 DEF customerVars, CustomerInv, FormFits
    <2> QED  BY <1>0, <1>10, <2>1, FormStep DEF customerVars
  <1> QED  BY <1>1, <1>2, <1>3, <1>4, <1>5, <1>6, <1>7, <1>8, <1>9, <1>10, SaveAccountInv DEF CustomerNext

(* Whatever sites, services, packages and account forms are saved in whatever     *)
(* order, with forms that were read before a service was added or the account      *)
(* archived: one primary site, one package for each service, and agreements that    *)
(* are on the list of their site or were left because they were owed              *)
(* (customers/services.py, sync_customer_package_subscriptions).                  *)
THEOREM CustomerSound == CustomerSpec => []CustomerIsSound
  <1>1. CustomerInv => CustomerIsSound
    BY DEF CustomerInv
  <1> QED  BY CustomerInitInv, CustomerNextInv, <1>1, PTL DEF CustomerSpec

-----------------------------------------------------------------------------
(* The inductive invariant: a job is a record of its kind that makes what it was     *)
(* sent for, under numbers nothing else has.                                         *)
Jobs == [at : {"look", "insert"}, key : Keys \cup {"none"}, content : Contents, todo : Seq(Items),
         made : Seq(ProductRow), next : 0..(MaxSku + 1), recovery : 0..1]

JobFits(j) ==
    /\ j \in Jobs /\ Fresh(j.key)
    /\ Len(j.made) + Len(j.todo) = Len(j.content)
    /\ j.next # 0 => skuNext <= j.next
    /\ \A i \in DOMAIN j.made :
          /\ j.made[i].by = j.key
          /\ j.made[i].given # 0 => skuNext <= j.made[i].given /\ j.made[i].given < j.next
          /\ j.made[i].sku.kind = "PRD" => j.made[i].sku.n = j.made[i].given
    /\ \A i, k \in DOMAIN j.made :
          i # k /\ j.made[i].given # 0 => j.made[i].given # j.made[k].given
    /\ j.at = "insert" /\ j.todo # <<>> /\ Head(j.todo) = Uncoded => j.next \in 1..MaxSku

ProductsFit ==
    /\ \A p \in DOMAIN product :
          /\ product[p].given # 0 => product[p].given < skuNext
          /\ product[p].sku.kind = "PRD" =>
                product[p].by = "load" \/ product[p].sku.n = product[p].given
    /\ \A p, q \in DOMAIN product :
          p # q /\ product[p].given # 0 => product[p].given # product[q].given

EditorFits(e) ==
    editor[e] = NoEdit \/
        /\ editor[e].row \in DOMAIN product /\ editor[e].sku \in Codes
        /\ editor[e].sku.kind = "PRD" =>
              \/ product[editor[e].row].by = "load"
              \/ editor[e].sku.n = product[editor[e].row].given

SkuInv ==
    /\ SkuTypeOK /\ BatchesTakeEffectOnce /\ ProductsFit
    /\ job = NoJob \/ JobFits(job)
    /\ DOMAIN editor = Editors /\ \A e \in Editors : EditorFits(e)

LEMMA CodesTyped ==
    /\ \A c \in Codes : c.kind \in {"own", "PRD", "gone"} /\ c.n \in Nat /\ (c.kind = "PRD" => c.n \in 1..MaxSku)
    /\ \A i \in Items : i # Uncoded => i \in Codes /\ i.kind = "own"
    /\ \A n \in 1..MaxSku : Prd(n) \in Codes /\ Prd(n).kind = "PRD" /\ Prd(n).n = n
    /\ Gone \in Codes /\ Gone.kind = "gone"
  <1>1. \A n \in 1..MaxSku : Prd(n) \in Codes /\ Prd(n).kind = "PRD" /\ Prd(n).n = n
    BY DEF Codes, Prd
  <1>2. Gone \in Codes /\ Gone.kind = "gone" /\ Gone.n = 0 /\ Uncoded.kind = "auto"
    <2>1. Gone \in Codes
      BY DEF Codes
    <2> QED  BY <2>1 DEF Gone, Uncoded
  <1>3. \A n \in OwnCodes : Own(n) \in Codes /\ Own(n).kind = "own" /\ Own(n).n = n /\ n \in Nat
    BY OwnCodeNumbers DEF Codes, Own
  <1>4. \A i \in Items : i # Uncoded => i \in Codes /\ i.kind = "own"
    <2>1. ASSUME NEW i \in Items, i # Uncoded PROVE i \in { Own(n) : n \in OwnCodes }
      BY <2>1 DEF Items
    <2>2. ASSUME NEW i \in { Own(n) : n \in OwnCodes } PROVE i \in Codes /\ i.kind = "own"
      BY <1>3
    <2> QED  BY <2>1, <2>2
  <1>5. ASSUME NEW c \in Codes
        PROVE  c.kind \in {"own", "PRD", "gone"} /\ c.n \in Nat /\ (c.kind = "PRD" => c.n \in 1..MaxSku)
    <2>1. (\E n \in OwnCodes : c = Own(n)) \/ (\E n \in 1..MaxSku : c = Prd(n)) \/ c = Gone
      BY DEF Codes
    <2> QED  BY <1>1, <1>2, <1>3, <2>1, SkuBounds
  <1> QED  BY <1>1, <1>2, <1>4, <1>5

\* The rows of products and of products being made.
LEMMA RowsTyped ==
    ASSUME NEW rows \in Seq(ProductRow), NEW i \in DOMAIN rows
    PROVE  /\ rows[i] \in ProductRow /\ rows[i].sku \in Codes /\ rows[i].given \in 0..MaxSku
           /\ rows[i].given \in Nat
  <1>1. rows[i] \in ProductRow
    BY ElementOfSeq, LenProperties
  <1> QED  BY <1>1, SkuBounds DEF ProductRow

\* A job at work is a job.
LEMMA AtWork ==
    ASSUME SkuInv, job.at \in {"look", "insert"}
    PROVE  /\ JobFits(job) /\ job \in Jobs /\ job.made \in Seq(ProductRow) /\ job.todo \in Seq(Items)
           /\ job.next \in 0..(MaxSku + 1) /\ job.next \in Nat /\ job.recovery \in 0..1
           /\ job.content \in Contents /\ job.key \in Keys \cup {"none"}
           /\ skuNext \in 0..(MaxSku + 1) /\ skuNext \in Nat
           /\ job.next # 0 => skuNext <= job.next
  <1>1. job # NoJob
    BY DEF NoJob
  <1>2. JobFits(job)
    BY <1>1 DEF SkuInv
  <1>3. job \in Jobs /\ (job.next # 0 => skuNext <= job.next)
    BY <1>2 DEF JobFits
  <1>4. skuNext \in 0..(MaxSku + 1)
    BY DEF SkuInv, SkuTypeOK
  <1> QED  BY <1>2, <1>3, <1>4, SkuBounds DEF Jobs

LEMMA GreatestExists ==
    ASSUME NEW S \in SUBSET (0..MaxSku), S # {}
    PROVE  Greatest(S) \in S /\ \A m \in S : m <= Greatest(S)
  <1> DEFINE T == { MaxSku - n : n \in S }
  <1>0. \A n \in S : n \in Int /\ 0 <= n /\ n <= MaxSku /\ MaxSku - n \in Nat
    BY SkuBounds
  <1>1. T \subseteq Nat /\ T # {}
    BY <1>0
  <1>2. PICK x \in T : \A y \in T : ~(<<y, x>> \in OpToRel(<, Nat))
    BY <1>1, NatLessThanWellFounded, WFMin
  <1>3. PICK n \in S : x = MaxSku - n
    BY <1>2
  <1>4. \A m \in S : m <= n
    <2>1. ASSUME NEW m \in S PROVE m <= n
      <3>1. MaxSku - m \in T
        OBVIOUS
      <3>2. ~(MaxSku - m < x)
        BY <1>1, <1>2, <3>1 DEF OpToRel
      <3> QED  BY <1>0, <1>3, <3>2, SkuBounds
    <2> QED  BY <2>1
  <1>5. \E g \in S : \A m \in S : m <= g
    BY <1>4
  <1> QED  BY <1>5 DEF Greatest

LEMMA OccupiedTyped == SkuInv => occupied_max \in 0..MaxSku
  <1> SUFFICES ASSUME SkuInv PROVE occupied_max \in 0..MaxSku
    OBVIOUS
  <1>1. InUse \subseteq Codes
    BY RowsTyped DEF SkuInv, SkuTypeOK, InUse, Live
  <1>2. Pending \subseteq Codes
    <2>1. CASE job = NoJob
      BY <2>1 DEF Pending
    <2>2. CASE job # NoJob
      <3>1. job.made \in Seq(ProductRow)
        BY <2>2 DEF SkuInv, SkuTypeOK
      <3> QED  BY <2>2, <3>1, RowsTyped DEF Pending
    <2> QED  BY <2>1, <2>2
  <1> DEFINE S == {0} \cup { c.n : c \in { c \in Visible : c.kind = "PRD" } }
  <1>3. S \in SUBSET (0..MaxSku) /\ S # {}
    BY <1>1, <1>2, CodesTyped, SkuBounds DEF Visible
  <1> HIDE DEF S
  <1>4. Greatest(S) \in 0..MaxSku
    BY <1>3, GreatestExists
  <1> QED  BY <1>4 DEF occupied_max, S

LEMMA SkuInitInv == SkuInit => SkuInv
  <1> SUFFICES ASSUME SkuInit PROVE SkuInv
    OBVIOUS
  <1>1. product = <<>> /\ DOMAIN product = {} /\ product \in Seq(ProductRow) /\ Len(product) = 0
    BY DEF SkuInit
  <1>2. SkuTypeOK
    BY <1>1, SkuBounds DEF SkuInit, SkuTypeOK, NoJob, NoEdit
  <1>3. BatchesTakeEffectOnce
    <2>1. ASSUME NEW k \in Keys PROVE Cardinality({ p \in DOMAIN product : product[p].by = k }) = Len(batchOf[k])
      <3>1. { p \in DOMAIN product : product[p].by = k } = {} /\ Len(batchOf[k]) = 0
        BY <1>1 DEF SkuInit
      <3> QED  BY <3>1, FS_EmptySet
    <2> QED  BY <2>1 DEF BatchesTakeEffectOnce
  <1>4. ProductsFit
    BY <1>1 DEF ProductsFit
  <1> QED  BY <1>2, <1>3, <1>4 DEF SkuInit, SkuInv, EditorFits

\* A step of the job: the products, the counter, the batches and the forms stay.
LEMMA JobStep ==
    ASSUME SkuInv, UNCHANGED <<product, skuNext, batchOf, editor>>,
           NEW j, job' = j, j = NoJob \/ JobFits(j)
    PROVE  SkuInv'
  <1>1. j # NoJob => j \in Jobs
    BY DEF JobFits
  <1>2. SkuTypeOK'
    BY <1>1 DEF SkuInv, SkuTypeOK, Jobs, NoJob
  <1>3. BatchesTakeEffectOnce' /\ ProductsFit'
    BY DEF SkuInv, BatchesTakeEffectOnce, ProductsFit
  <1>4. job' = NoJob \/ JobFits(job)'
    BY DEF JobFits, Fresh
  <1>5. DOMAIN editor' = Editors /\ \A e \in Editors : EditorFits(e)'
    BY DEF SkuInv, EditorFits
  <1> QED  BY <1>2, <1>3, <1>4, <1>5 DEF SkuInv

LEMMA SkuStart ==
    ASSUME SkuInv, NEW key \in Keys \cup {"none"}, NEW content \in Contents, StartJob(key, content)
    PROVE  SkuInv'
  <1> DEFINE j == [at |-> "look", key |-> key, content |-> content, todo |-> content,
                   made |-> <<>>, next |-> 0, recovery |-> 0]
  <1>1. content \in Seq(Items) /\ <<>> \in Seq(ProductRow) /\ Len(<<>>) = 0 /\ DOMAIN <<>> = {}
    BY ContentsAreItems
  <1>2. j \in Jobs
    BY <1>1, SkuBounds DEF Jobs
  <1>3. Fresh(key) /\ job' = j /\ UNCHANGED <<product, skuNext, batchOf, editor>>
    BY DEF StartJob
  <1>4. JobFits(j)
    <2>1. Fresh(j.key) /\ Len(j.made) + Len(j.todo) = Len(j.content) /\ j.next = 0 /\ j.at = "look"
      BY <1>1, <1>3
    <2>2. DOMAIN j.made = {}
      BY <1>1
    <2> HIDE DEF j
    <2> QED  BY <1>2, <2>1, <2>2 DEF JobFits
  <1> HIDE DEF j
  <1> QED  BY <1>3, <1>4, JobStep

LEMMA SkuFail == ASSUME SkuInv, FailJob PROVE SkuInv'
  BY JobStep DEF FailJob

\* What the job finds: a number above every number given, and items.
LEMMA JobKnown ==
    ASSUME SkuInv, job.at \in {"look", "insert"}
    PROVE  /\ JobFits(job) /\ job \in Jobs
           /\ Number \in 1..(MaxSku + 1) /\ skuNext <= Number
           /\ job.next # 0 => Number = job.next
           /\ job.next = 0 => \A i \in DOMAIN job.made : job.made[i].given = 0
           /\ job.todo # <<>> => /\ Item \in Items /\ Tail(job.todo) \in Seq(Items)
                                 /\ Len(Tail(job.todo)) = Len(job.todo) - 1
  <1>1. /\ JobFits(job) /\ job \in Jobs /\ job.made \in Seq(ProductRow) /\ job.todo \in Seq(Items)
        /\ job.next \in 0..(MaxSku + 1) /\ skuNext \in 0..(MaxSku + 1) /\ (job.next # 0 => skuNext <= job.next)
    BY AtWork
  <1>2. occupied_max \in 0..MaxSku
    BY OccupiedTyped
  <1>3. Number \in 1..(MaxSku + 1) /\ skuNext <= Number /\ (job.next # 0 => Number = job.next)
    BY <1>1, <1>2, SkuBounds DEF Number, locked_counter
  <1>4. ASSUME job.next = 0, NEW i \in DOMAIN job.made PROVE job.made[i].given = 0
    <2>1. job.made[i].given \in Nat
      BY <1>1, RowsTyped
    <2>2. job.made[i].given # 0 => job.made[i].given < job.next
      BY <1>1 DEF JobFits
    <2> QED  BY <1>4, <2>1, <2>2
  <1>5. job.todo # <<>> => /\ Item \in Items /\ Tail(job.todo) \in Seq(Items)
                           /\ Len(Tail(job.todo)) = Len(job.todo) - 1
    BY <1>1, HeadTailProperties DEF Item
  <1> QED  BY <1>1, <1>3, <1>4, <1>5

\* A job goes on with a number that is not lower, and the same products made.
LEMMA JobGoesOn ==
    ASSUME SkuInv, job.at \in {"look", "insert"}, NEW at \in {"look", "insert"}, NEW recovery \in 0..1,
           NEW next \in 0..(MaxSku + 1), next = job.next \/ Number <= next,
           UNCHANGED <<product, skuNext, batchOf, editor>>,
           at = "insert" /\ job.todo # <<>> /\ Item = Uncoded => next \in 1..MaxSku,
           job' = [job EXCEPT !.at = at, !.recovery = recovery, !.next = next]
    PROVE  SkuInv'
  <1>1. /\ JobFits(job) /\ job \in Jobs /\ Number \in 1..(MaxSku + 1) /\ skuNext <= Number
        /\ job.made \in Seq(ProductRow) /\ job.next \in Nat /\ skuNext \in Nat
        /\ job.next # 0 => skuNext <= job.next
    BY JobKnown, AtWork
  <1>2. /\ job' \in Jobs /\ job'.made = job.made /\ job'.todo = job.todo /\ job'.key = job.key
        /\ job'.content = job.content /\ job'.at = at /\ job'.next = next
    BY <1>1 DEF Jobs
  <1>3. next \in Nat
    BY SkuBounds
  <1>4. next # 0 => skuNext <= next
    BY <1>1, <1>3
  <1>5. ASSUME NEW i \in DOMAIN job.made, job.made[i].given # 0 PROVE job.made[i].given < next
    <2>1. job.made[i].given \in Nat
      BY <1>1, RowsTyped
    <2>2. job.made[i].given < job.next
      BY <1>1, <1>5 DEF JobFits
    <2>3. job.next # 0
      BY <2>1, <2>2
    <2>4. Number = job.next
      BY <2>3, JobKnown
    <2> QED  BY <1>1, <1>3, <2>1, <2>2, <2>4
  <1>6. JobFits(job')
    <2> DEFINE j == job'
    <2>1. /\ j \in Jobs /\ Fresh(j.key) /\ Len(j.made) + Len(j.todo) = Len(j.content)
          /\ j.next # 0 => skuNext <= j.next
      BY <1>1, <1>2, <1>4 DEF JobFits
    <2>2. \A i \in DOMAIN j.made :
             /\ j.made[i].by = j.key
             /\ j.made[i].given # 0 => skuNext <= j.made[i].given /\ j.made[i].given < j.next
             /\ j.made[i].sku.kind = "PRD" => j.made[i].sku.n = j.made[i].given
      BY <1>1, <1>2, <1>5 DEF JobFits
    <2>3. \A i, k \in DOMAIN j.made :
             i # k /\ j.made[i].given # 0 => j.made[i].given # j.made[k].given
      <3>1. \A i, k \in DOMAIN job.made :
               i # k /\ job.made[i].given # 0 => job.made[i].given # job.made[k].given
        BY <1>1 DEF JobFits
      <3> QED  BY <1>2, <3>1
    <2>4. j.at = "insert" /\ j.todo # <<>> /\ Head(j.todo) = Uncoded => j.next \in 1..MaxSku
      BY <1>2 DEF Item
    <2> HIDE DEF j
    <2>5. JobFits(j)
      BY <2>1, <2>2, <2>3, <2>4 DEF JobFits
    <2> QED  BY <2>5 DEF j
  <1> QED  BY <1>6, JobStep

LEMMA SkuRecover ==
    ASSUME SkuInv, job.at \in {"look", "insert"}, NEW number \in {Number, Number + 1}, number <= MaxSku + 1,
           Recover(number), UNCHANGED <<product, skuNext, batchOf, editor>>
    PROVE  SkuInv'
  <1> DEFINE next == Larger(number, occupied_max + 1)
  <1>1. occupied_max \in 0..MaxSku /\ Number \in 1..(MaxSku + 1)
    BY OccupiedTyped, JobKnown
  <1>2. next \in 0..(MaxSku + 1) /\ Number <= next
    BY <1>1, SkuBounds DEF Larger
  <1>3. job' = [job EXCEPT !.at = "look", !.recovery = 1, !.next = next]
    BY DEF Recover
  <1> HIDE DEF next
  <1>4. "look" \in {"look", "insert"} /\ 1 \in 0..1
    OBVIOUS
  <1> QED  BY <1>2, <1>3, <1>4, JobGoesOn

LEMMA SkuLook == ASSUME SkuInv, Look PROVE SkuInv'
  <1>1. /\ job.at = "look" /\ job.todo # <<>> /\ Number <= MaxSku
        /\ UNCHANGED <<product, skuNext, batchOf, editor>>
    BY DEF Look, Working
  <1>2. Number \in 1..(MaxSku + 1) /\ JobFits(job) /\ job \in Jobs
    BY <1>1, JobKnown
  <1>3. CASE Code \in Visible
    <2>1. Recover(Number) /\ Number <= MaxSku + 1
      BY <1>1, <1>2, <1>3, SkuBounds DEF Look
    <2> QED  BY <1>1, <2>1, SkuRecover
  <1>4. CASE Code \notin Visible
    <2> DEFINE next == IF Item = Uncoded THEN Number ELSE job.next
    <2>1. job' = [job EXCEPT !.at = "insert", !.next = next]
      <3>1. ~(Code \in Visible) /\ Look
        BY <1>4
      <3> QED  BY <3>1, SMTT(30) DEF Look
    <2>2. job' = [job EXCEPT !.at = "insert", !.recovery = job.recovery, !.next = next]
      BY <1>2, <2>1 DEF Jobs
    <2>3. next \in 0..(MaxSku + 1) /\ (next = job.next \/ Number <= next) /\ (Item = Uncoded => next \in 1..MaxSku)
      BY <1>1, <1>2, SkuBounds DEF Jobs
    <2>4. job.recovery \in 0..1
      BY <1>2 DEF Jobs
    <2> HIDE DEF next
    <2> QED  BY <1>1, <2>2, <2>3, <2>4, JobGoesOn
  <1> QED  BY <1>3, <1>4

\* One more product is made, with the number it was looked for.
Made(next, new) ==
    /\ next = IF Item = Uncoded THEN Number + 1 ELSE job.next
    /\ new = [sku |-> Code, by |-> job.key, given |-> IF Item = Uncoded THEN Number ELSE 0]
    /\ job' = [job EXCEPT !.at = "look", !.todo = Tail(job.todo), !.recovery = 0,
                          !.next = next, !.made = Append(job.made, new)]

LEMMA SkuMake ==
    ASSUME SkuInv, job.at = "insert", job.todo # <<>>, UNCHANGED <<product, skuNext, batchOf, editor>>,
           NEW next, NEW new, Made(next, new)
    PROVE  SkuInv'
  <1>1. /\ JobFits(job) /\ job \in Jobs /\ job.made \in Seq(ProductRow) /\ job.todo \in Seq(Items)
        /\ job.next \in 0..(MaxSku + 1) /\ job.next \in Nat /\ skuNext \in Nat
        /\ job.next # 0 => skuNext <= job.next
        /\ job.key \in Keys \cup {"none"}
    BY AtWork
  <1>2. /\ Item \in Items /\ Tail(job.todo) \in Seq(Items) /\ Len(Tail(job.todo)) = Len(job.todo) - 1
        /\ Number \in 1..(MaxSku + 1) /\ skuNext <= Number /\ (job.next # 0 => Number = job.next)
    BY <1>1, JobKnown
  <1>3. Item = Uncoded => Number = job.next /\ Number \in 1..MaxSku
    BY <1>1, <1>2 DEF JobFits, Item
  <1>4. next \in 0..(MaxSku + 1) /\ next \in Nat /\ job.next <= next /\ (next = job.next \/ skuNext <= next)
    BY <1>1, <1>2, <1>3, SkuBounds DEF Made
  <1>5. /\ new.by = job.key /\ new.given \in 0..MaxSku /\ new.given \in Nat
        /\ new.given # 0 => skuNext <= new.given /\ job.next <= new.given /\ new.given < next
        /\ new.sku \in Codes /\ (new.sku.kind = "PRD" => new.sku.n = new.given)
        /\ new \in ProductRow
    <2>1. CASE Item = Uncoded
      <3>1. new = [sku |-> Prd(Number), by |-> job.key, given |-> Number] /\ next = Number + 1
        BY <2>1 DEF Code, Made
      <3>2. Prd(Number) \in Codes /\ Prd(Number).n = Number
        BY <1>3, <2>1, CodesTyped
      <3>3. new \in ProductRow
        BY <1>1, <1>3, <2>1, <3>1, <3>2, SkuBounds DEF ProductRow
      <3>4. new.given = Number /\ new.sku = Prd(Number) /\ new.by = job.key
        BY <3>1
      <3>5. Number \in Nat /\ Number <= MaxSku /\ Number < next /\ job.next <= Number
        BY <1>1, <1>2, <1>3, <2>1, <3>1, SkuBounds
      <3> QED  BY <1>2, <1>3, <2>1, <3>2, <3>3, <3>4, <3>5
    <2>2. CASE Item # Uncoded
      <3>1. new = [sku |-> Item, by |-> job.key, given |-> 0]
        BY <2>2 DEF Code, Made
      <3>2. Item \in Codes /\ Item.kind = "own"
        BY <1>2, <2>2, CodesTyped
      <3>3. new \in ProductRow /\ 0 \in 0..MaxSku
        BY <1>1, <3>1, <3>2, SkuBounds DEF ProductRow
      <3> QED  BY <3>1, <3>2, <3>3
    <2> QED  BY <2>1, <2>2
  <1>j. PICK j : j = job'
    OBVIOUS
  <1> DEFINE more == Append(job.made, new)
             n == Len(job.made) + 1
  <1>6. /\ more \in Seq(ProductRow) /\ Len(more) = n /\ DOMAIN more = DOMAIN job.made \cup {n}
        /\ more[n] = new /\ n \notin DOMAIN job.made
        /\ \A i \in DOMAIN job.made : more[i] = job.made[i]
    <2>1. DOMAIN job.made = 1..Len(job.made) /\ Len(job.made) \in Nat
      BY <1>1, LenProperties
    <2>2. more \in Seq(ProductRow) /\ Len(more) = n /\ more[n] = new /\ \A i \in 1..Len(job.made) : more[i] = job.made[i]
      BY <1>1, <1>5, AppendProperties
    <2>3. DOMAIN more = 1..n
      BY <2>2, LenProperties
    <2> QED  BY <2>1, <2>2, <2>3
  <1>7. /\ j \in Jobs /\ j.made = more /\ j.todo = Tail(job.todo) /\ j.key = job.key
        /\ j.content = job.content /\ j.at = "look" /\ j.next = next
    <2>1. PICK m, t : m = more /\ t = Tail(job.todo)
      OBVIOUS
    <2>2. job' = [job EXCEPT !.at = "look", !.todo = t, !.recovery = 0, !.next = next, !.made = m]
      BY <2>1 DEF Made
    <2>3. m \in Seq(ProductRow) /\ t \in Seq(Items)
      BY <1>2, <1>6, <2>1
    <2>4. /\ job' \in Jobs /\ job'.made = m /\ job'.todo = t /\ job'.key = job.key
          /\ job'.content = job.content /\ job'.at = "look" /\ job'.next = next
      <3>1. job' = [at |-> "look", key |-> job.key, content |-> job.content, todo |-> t,
                    made |-> m, next |-> next, recovery |-> 0]
        BY <1>1, <2>2 DEF Jobs
      <3>2. job.key \in Keys \cup {"none"} /\ job.content \in Contents
        BY AtWork
      <3> QED  BY <1>4, <2>3, <3>1, <3>2 DEF Jobs
    <2> HIDE DEF more
    <2> QED  BY <1>j, <2>1, <2>4
  <1> HIDE DEF more, n
  <1>8. Len(j.made) + Len(j.todo) = Len(j.content) /\ Fresh(j.key)
    <2>1. Len(job.made) + Len(job.todo) = Len(job.content) /\ Fresh(job.key)
      BY <1>1 DEF JobFits
    <2>2. Len(job.made) \in Nat /\ Len(job.todo) \in Nat
      BY <1>1, LenProperties
    <2>3. Len(j.made) = Len(job.made) + 1 /\ Len(j.todo) = Len(job.todo) - 1
      BY <1>2, <1>6, <1>7 DEF n
    <2>4. Fresh(j.key) /\ j.content = job.content
      BY <1>7, <2>1
    <2>5. Len(j.made) + Len(j.todo) = Len(job.content)
      <3>1. PICK a \in Nat, b \in Nat : a = Len(job.made) /\ b = Len(job.todo)
        BY <2>2
      <3>2. a + b = Len(job.content) /\ Len(j.made) = a + 1 /\ Len(j.todo) = b - 1
        BY <2>1, <2>3, <3>1
      <3>3. PICK x, y, c : x = Len(j.made) /\ y = Len(j.todo) /\ c = Len(job.content)
        OBVIOUS
      <3>4. x + y = c
        BY <3>2, <3>3
      <3> QED  BY <3>3, <3>4
    <2> QED  BY <2>4, <2>5
  <1>9. j.next # 0 => skuNext <= j.next
    BY <1>1, <1>4, <1>7
  <1>10. ASSUME NEW i \in DOMAIN job.made
         PROVE  /\ job.made[i].given \in Nat /\ job.made[i].by = job.key
                /\ job.made[i].given # 0 => skuNext <= job.made[i].given /\ job.made[i].given < job.next
                /\ job.made[i].sku.kind = "PRD" => job.made[i].sku.n = job.made[i].given
    BY <1>1, RowsTyped DEF JobFits
  <1>11. ASSUME NEW i \in DOMAIN j.made
         PROVE  /\ j.made[i].by = j.key
                /\ j.made[i].given # 0 => skuNext <= j.made[i].given /\ j.made[i].given < j.next
                /\ j.made[i].sku.kind = "PRD" => j.made[i].sku.n = j.made[i].given
    <2>1. CASE i = n
      BY <1>5, <1>6, <1>7, <2>1
    <2>2. CASE i \in DOMAIN job.made
      <3>1. j.made[i] = job.made[i]
        BY <1>6, <1>7, <2>2
      <3>2. job.made[i].given # 0 => job.made[i].given < next
        BY <1>1, <1>4, <1>10, <2>2
      <3> QED  BY <1>7, <1>10, <2>2, <3>1, <3>2
    <2> QED  BY <1>6, <1>7, <2>1, <2>2
  <1>12. ASSUME NEW i \in DOMAIN j.made, NEW k \in DOMAIN j.made, i # k, j.made[i].given # 0
         PROVE  j.made[i].given # j.made[k].given
    <2>1. \A x \in DOMAIN job.made : job.made[x].given \in Nat /\ (job.made[x].given # 0 => job.made[x].given < job.next)
      BY <1>10
    <2>2. CASE i = n
      <3>1. k \in DOMAIN job.made /\ j.made[k] = job.made[k] /\ j.made[i] = new
        BY <1>6, <1>7, <1>12, <2>2
      <3> QED  BY <1>1, <1>5, <1>12, <2>1, <3>1
    <2>3. CASE k = n
      <3>1. i \in DOMAIN job.made /\ j.made[i] = job.made[i] /\ j.made[k] = new
        BY <1>6, <1>7, <1>12, <2>3
      <3> QED  BY <1>1, <1>5, <1>12, <2>1, <3>1
    <2>4. CASE i # n /\ k # n
      <3>1. i \in DOMAIN job.made /\ k \in DOMAIN job.made /\ j.made[i] = job.made[i] /\ j.made[k] = job.made[k]
        BY <1>6, <1>7, <2>4
      <3> QED  BY <1>1, <1>12, <3>1 DEF JobFits
    <2> QED  BY <2>2, <2>3, <2>4
  <1>13. JobFits(j)
    BY <1>7, <1>8, <1>9, <1>11, <1>12 DEF JobFits
  <1> QED  BY <1>j, <1>13, JobStep

LEMMA SkuInsert == ASSUME SkuInv, Insert PROVE SkuInv'
  <1>1. /\ job.at = "insert" /\ job.todo # <<>> /\ UNCHANGED <<product, skuNext, batchOf, editor>>
    BY DEF Insert, Working
  <1>2. CASE Code \in Visible
    <2>1. Recover(Number + 1)
      BY <1>2 DEF Insert
    <2>2. Item = Uncoded
      BY <2>1 DEF Recover
    <2>3. Number \in 1..MaxSku
      BY <1>1, <2>2, JobKnown DEF JobFits, Item
    <2>4. Number + 1 <= MaxSku + 1
      BY <2>3, SkuBounds
    <2> QED  BY <1>1, <2>1, <2>4, SkuRecover
  <1>3. CASE Code \notin Visible
    <2>1. PICK next, new :
            /\ next = IF Item = Uncoded THEN Number + 1 ELSE job.next
            /\ new = [sku |-> Code, by |-> job.key, given |-> IF Item = Uncoded THEN Number ELSE 0]
      OBVIOUS
    <2>2. Made(next, new)
      BY <1>3, <2>1 DEF Insert, Made
    <2> QED  BY <1>1, <2>2, SkuMake
  <1> QED  BY <1>2, <1>3

\* The forms fit rows that keep their places, their numbers and their origins.
RowsKept ==
    /\ DOMAIN product \subseteq DOMAIN product'
    /\ \A p \in DOMAIN product : product'[p].by = product[p].by /\ product'[p].given = product[p].given

LEMMA EditorsKept ==
    ASSUME SkuInv, RowsKept, product' \in Seq(ProductRow),
           DOMAIN editor' = Editors, \A e \in Editors : editor'[e] \in {editor[e], NoEdit}
    PROVE  /\ \A e \in Editors : EditorFits(e)'
           /\ \A e \in Editors : editor'[e].row \in 0..Len(product')
  <1> SUFFICES ASSUME NEW e \in Editors PROVE EditorFits(e)' /\ editor'[e].row \in 0..Len(product')
    OBVIOUS
  <1>1. Len(product') \in Nat /\ DOMAIN product' = 1..Len(product')
    BY LenProperties
  <1>2. CASE editor'[e] = NoEdit
    BY <1>1, <1>2 DEF EditorFits, NoEdit
  <1>3. CASE editor'[e] # NoEdit
    <2>1. editor'[e] = editor[e] /\ EditorFits(e)
      BY <1>3 DEF SkuInv
    <2>2. editor[e].row \in DOMAIN product
      BY <1>3, <2>1 DEF EditorFits
    <2>3. EditorFits(e)'
      BY <1>3, <2>1, <2>2 DEF EditorFits, RowsKept
    <2>4. editor'[e].row \in 1..Len(product')
      BY <1>1, <2>1, <2>2 DEF RowsKept
    <2> QED  BY <1>1, <2>3, <2>4
  <1> QED  BY <1>2, <1>3

\* One row gets another code that is its own.
LEMMA RowRecoded ==
    ASSUME SkuInv, NEW p \in DOMAIN product, NEW sku \in Codes,
           sku.kind = "PRD" => product[p].by = "load" \/ sku.n = product[p].given,
           product' = [product EXCEPT ![p].sku = sku], UNCHANGED <<skuNext, job, batchOf>>,
           DOMAIN editor' = Editors, \A e \in Editors : editor'[e] \in {editor[e], NoEdit}
    PROVE  SkuInv'
  <1>1. /\ product \in Seq(ProductRow) /\ DOMAIN product = 1..Len(product) /\ Len(product) \in Nat
        /\ \A q \in DOMAIN product : product[q] \in ProductRow
    BY RowsTyped, LenProperties DEF SkuInv, SkuTypeOK
  <1>2. PICK new \in ProductRow : /\ product' = [product EXCEPT ![p] = new]
                                  /\ new.sku = sku /\ new.by = product[p].by /\ new.given = product[p].given
    <2> DEFINE new == [product[p] EXCEPT !.sku = sku]
    <2>1. new \in ProductRow /\ new.sku = sku /\ new.by = product[p].by /\ new.given = product[p].given
      BY <1>1 DEF ProductRow
    <2> QED  BY <2>1
  <1>3. product' \in Seq(ProductRow) /\ Len(product') = Len(product) /\ DOMAIN product' = DOMAIN product
    BY <1>1, <1>2, ExceptSeq
  <1>4. product'[p] = new /\ \A q \in DOMAIN product : q # p => product'[q] = product[q]
    BY <1>1, <1>2
  <1>5. RowsKept
    BY <1>2, <1>3, <1>4 DEF RowsKept
  <1>6. BatchesTakeEffectOnce'
    <2>1. ASSUME NEW k \in Keys PROVE { q \in DOMAIN product' : product'[q].by = k } = { q \in DOMAIN product : product[q].by = k }
      BY <1>3, <1>5 DEF RowsKept
    <2> QED  BY <2>1 DEF SkuInv, BatchesTakeEffectOnce
  <1>7. ProductsFit'
    <2>1. \A q \in DOMAIN product : product'[q].by = product[q].by /\ product'[q].given = product[q].given
      BY <1>5 DEF RowsKept
    <2>2. ASSUME NEW q \in DOMAIN product, product'[q].sku.kind = "PRD"
          PROVE  product'[q].by = "load" \/ product'[q].sku.n = product'[q].given
      <3>1. CASE q = p
        BY <1>2, <1>4, <2>2, <3>1
      <3>2. CASE q # p
        BY <1>4, <2>2, <3>2 DEF SkuInv, ProductsFit
      <3> QED  BY <3>1, <3>2
    <2> QED  BY <1>3, <2>1, <2>2 DEF SkuInv, ProductsFit
  <1>8. job' = NoJob \/ JobFits(job)'
    BY DEF SkuInv, JobFits, Fresh
  <1>9. (\A e \in Editors : EditorFits(e)') /\ \A e \in Editors : editor'[e].row \in 0..Len(product')
    BY <1>3, <1>5, EditorsKept
  <1>10. SkuTypeOK'
    BY <1>3, <1>9 DEF SkuInv, SkuTypeOK
  <1> QED  BY <1>6, <1>7, <1>8, <1>9, <1>10 DEF SkuInv

LEMMA SkuDelete == ASSUME SkuInv, NEW p \in DOMAIN product, DeleteProduct(p) PROVE SkuInv'
  <1>1. product' = [product EXCEPT ![p].sku = Gone] /\ UNCHANGED <<skuNext, job, batchOf, editor>>
    BY DEF DeleteProduct
  <1>2. Gone \in Codes /\ Gone.kind # "PRD"
    BY CodesTyped
  <1>3. DOMAIN editor' = Editors /\ \A e \in Editors : editor'[e] \in {editor[e], NoEdit}
    BY <1>1 DEF SkuInv
  <1> QED  BY <1>1, <1>2, <1>3, RowRecoded

LEMMA SkuWrite == ASSUME SkuInv, NEW e \in Editors, WriteProduct(e) PROVE SkuInv'
  <1>1. PICK p, sku : p = editor[e].row /\ sku = editor[e].sku
    OBVIOUS
  <1>2. /\ product' = [product EXCEPT ![p].sku = sku] /\ editor' = [editor EXCEPT ![e] = NoEdit]
        /\ UNCHANGED <<skuNext, job, batchOf>> /\ editor[e] # NoEdit
    BY <1>1 DEF WriteProduct
  <1>3. /\ p \in DOMAIN product /\ sku \in Codes
        /\ sku.kind = "PRD" => product[p].by = "load" \/ sku.n = product[p].given
    BY <1>1, <1>2 DEF SkuInv, EditorFits
  <1>4. DOMAIN editor' = Editors /\ \A d \in Editors : editor'[d] \in {editor[d], NoEdit}
    BY <1>2 DEF SkuInv
  <1> QED  BY <1>2, <1>3, <1>4, RowRecoded

\* The products, the job and the batches stay.
LEMMA EditorStep ==
    ASSUME SkuInv, UNCHANGED <<product, skuNext, job, batchOf>>,
           NEW e \in Editors, NEW form, editor' = [editor EXCEPT ![e] = form],
           EditorFits(e)', form.row \in 0..Len(product)
    PROVE  SkuInv'
  <1>1. DOMAIN editor' = Editors /\ \A d \in Editors : d # e => editor'[d] = editor[d]
    BY DEF SkuInv
  <1>2. \A d \in Editors : EditorFits(d)'
    BY <1>1 DEF SkuInv, EditorFits
  <1>3. SkuTypeOK'
    BY <1>1 DEF SkuInv, SkuTypeOK
  <1>4. BatchesTakeEffectOnce' /\ ProductsFit' /\ (job' = NoJob \/ JobFits(job)')
    BY DEF SkuInv, BatchesTakeEffectOnce, ProductsFit, JobFits, Fresh
  <1> QED  BY <1>1, <1>2, <1>3, <1>4 DEF SkuInv

LEMMA SkuFailEdit == ASSUME SkuInv, NEW e \in Editors, FailEdit(e) PROVE SkuInv'
  <1>1. editor' = [editor EXCEPT ![e] = NoEdit] /\ UNCHANGED <<product, skuNext, job, batchOf>>
    BY DEF FailEdit
  <1>2. Len(product) \in Nat
    BY LenProperties DEF SkuInv, SkuTypeOK
  <1>3. EditorFits(e)' /\ NoEdit.row \in 0..Len(product)
    BY <1>1, <1>2 DEF SkuInv, EditorFits, NoEdit
  <1> QED  BY <1>1, <1>3, EditorStep

LEMMA SkuRead ==
    ASSUME SkuInv, NEW e \in Editors, NEW p \in DOMAIN product, NEW code \in Codes, ReadProduct(e, p, code)
    PROVE  SkuInv'
  <1>1. PICK form : form = [row |-> p, sku |-> code]
    OBVIOUS
  <1>2. /\ editor' = [editor EXCEPT ![e] = form] /\ UNCHANGED <<product, skuNext, job, batchOf>>
        /\ p \in Live /\ (code = product[p].sku \/ code.kind = "own")
    BY <1>1 DEF ReadProduct, Typeable
  <1>3. DOMAIN product = 1..Len(product) /\ Len(product) \in Nat
    BY LenProperties DEF SkuInv, SkuTypeOK
  <1>4. form.row = p /\ form.sku = code /\ editor'[e] = form
    BY <1>1, <1>2 DEF SkuInv
  <1>5. code.kind = "PRD" => product[p].by = "load" \/ code.n = product[p].given
    BY <1>2 DEF SkuInv, ProductsFit
  <1>6. EditorFits(e)'
    BY <1>2, <1>4, <1>5 DEF EditorFits
  <1>7. form.row \in 0..Len(product)
    BY <1>3, <1>4
  <1> QED  BY <1>2, <1>6, <1>7, EditorStep

LEMMA SkuLoad == ASSUME SkuInv, NEW n \in 1..MaxSku, LoadProduct(n) PROVE SkuInv'
  <1>1. PICK new : new = [sku |-> Prd(n), given |-> 0, by |-> "load"]
    OBVIOUS
  <1>2. product' = Append(product, new) /\ UNCHANGED <<skuNext, job, batchOf, editor>>
    BY <1>1 DEF LoadProduct
  <1>3. /\ new \in ProductRow /\ new.given = 0 /\ new.by = "load"
    BY <1>1, CodesTyped, SkuBounds DEF ProductRow
  <1>4. product \in Seq(ProductRow) /\ DOMAIN product = 1..Len(product) /\ Len(product) \in Nat
    BY LenProperties DEF SkuInv, SkuTypeOK
  <1>5. /\ product' \in Seq(ProductRow) /\ Len(product') = Len(product) + 1
        /\ product'[Len(product) + 1] = new /\ \A p \in 1..Len(product) : product'[p] = product[p]
    BY <1>2, <1>3, <1>4, AppendProperties
  <1>6. DOMAIN product' = DOMAIN product \cup {Len(product) + 1} /\ Len(product) + 1 \notin DOMAIN product
    BY <1>4, <1>5, LenProperties
  <1>7. BatchesTakeEffectOnce'
    <2>1. ASSUME NEW k \in Keys PROVE { q \in DOMAIN product' : product'[q].by = k } = { q \in DOMAIN product : product[q].by = k }
      <3>1. k # "load"
        BY KeyNames
      <3> QED  BY <1>3, <1>4, <1>5, <1>6, <3>1
    <2> QED  BY <1>2, <2>1 DEF SkuInv, BatchesTakeEffectOnce
  <1>8. ProductsFit'
    <2>1. ASSUME NEW p \in DOMAIN product'
          PROVE  /\ product'[p].given # 0 => product'[p].given < skuNext'
                 /\ product'[p].sku.kind = "PRD" => product'[p].by = "load" \/ product'[p].sku.n = product'[p].given
      <3>1. CASE p = Len(product) + 1
        BY <1>3, <1>5, <3>1
      <3>2. CASE p \in DOMAIN product
        BY <1>2, <1>4, <1>5, <3>2 DEF SkuInv, ProductsFit
      <3> QED  BY <1>6, <3>1, <3>2
    <2>2. ASSUME NEW p \in DOMAIN product', NEW q \in DOMAIN product', p # q, product'[p].given # 0
          PROVE  product'[p].given # product'[q].given
      <3>1. p \in DOMAIN product /\ product'[p] = product[p]
        BY <1>3, <1>4, <1>5, <1>6, <2>2
      <3>2. CASE q = Len(product) + 1
        BY <1>3, <1>5, <2>2, <3>2
      <3>3. CASE q \in DOMAIN product
        BY <1>4, <1>5, <2>2, <3>1, <3>3 DEF SkuInv, ProductsFit
      <3> QED  BY <1>6, <3>2, <3>3
    <2> QED  BY <2>1, <2>2 DEF ProductsFit
  <1>9. job' = NoJob \/ JobFits(job)'
    BY <1>2 DEF SkuInv, JobFits, Fresh
  <1>10. RowsKept
    BY <1>4, <1>5, <1>6 DEF RowsKept
  <1>11. DOMAIN editor' = Editors /\ \A e \in Editors : editor'[e] \in {editor[e], NoEdit}
    BY <1>2 DEF SkuInv
  <1>12. (\A e \in Editors : EditorFits(e)') /\ \A e \in Editors : editor'[e].row \in 0..Len(product')
    BY <1>5, <1>10, <1>11, EditorsKept
  <1>13. SkuTypeOK'
    BY <1>2, <1>5, <1>12 DEF SkuInv, SkuTypeOK
  <1> QED  BY <1>7, <1>8, <1>9, <1>11, <1>12, <1>13 DEF SkuInv

\* The job's products follow those there are.
LEMMA SkuCommit == ASSUME SkuInv, CommitJob PROVE SkuInv'
  <1>1. PICK made, key, content, next :
          made = job.made /\ key = job.key /\ content = job.content /\ next = job.next
    OBVIOUS
  <1>2. /\ product' = product \o made /\ job' = NoJob /\ UNCHANGED editor
        /\ skuNext' = IF next = 0 THEN skuNext ELSE next
        /\ batchOf' = [k \in Keys |-> IF k = key THEN content ELSE batchOf[k]]
        /\ job.at = "look" /\ job.todo = <<>>
    BY <1>1 DEF CommitJob
  <1>3. /\ made \in Seq(ProductRow) /\ content \in Contents /\ key \in Keys \cup {"none"}
        /\ next \in 0..(MaxSku + 1) /\ next \in Nat /\ skuNext \in Nat /\ skuNext \in 0..(MaxSku + 1)
        /\ next # 0 => skuNext <= next
        /\ JobFits(job)
    BY <1>1, <1>2, AtWork
  <1>4. Len(made) = Len(content)
    <2>1. Len(made) + Len(job.todo) = Len(content)
      BY <1>1, <1>3 DEF JobFits
    <2>2. Len(job.todo) = 0 /\ Len(made) \in Nat
      BY <1>2, <1>3, LenProperties
    <2>3. PICK a \in Nat, b \in Nat : a = Len(made) /\ b = Len(job.todo)
      BY <2>2
    <2>4. a + b = Len(content) /\ b = 0
      BY <2>1, <2>2, <2>3
    <2> QED  BY <2>3, <2>4
  <1>5. PICK old \in Nat, more \in Nat : old = Len(product) /\ more = Len(made)
    BY <1>3, LenProperties DEF SkuInv, SkuTypeOK
  <1>6. product \in Seq(ProductRow) /\ DOMAIN product = 1..old /\ DOMAIN made = 1..more
    BY <1>3, <1>5, LenProperties DEF SkuInv, SkuTypeOK
  <1>7. /\ product' \in Seq(ProductRow) /\ Len(product') = old + more /\ DOMAIN product' = 1..(old + more)
        /\ \A p \in 1..(old + more) : product'[p] = IF p <= old THEN product[p] ELSE made[p - old]
    <2>1. /\ product' \in Seq(ProductRow) /\ Len(product') = Len(product) + Len(made)
          /\ \A p \in 1..(Len(product) + Len(made)) :
                product'[p] = IF p <= Len(product) THEN product[p] ELSE made[p - Len(product)]
      BY <1>2, <1>3, <1>6, ConcatProperties
    <2>2. product' \in Seq(ProductRow) /\ Len(product') = old + more
          /\ \A p \in 1..(old + more) : product'[p] = IF p <= old THEN product[p] ELSE made[p - old]
      BY <1>5, <2>1
    <2> QED  BY <2>2, LenProperties
  <1>8. /\ \A p \in DOMAIN product : p \in DOMAIN product' /\ product'[p] = product[p]
        /\ \A p \in DOMAIN product' \ DOMAIN product : p - old \in DOMAIN made /\ product'[p] = made[p - old]
    BY <1>6, <1>7
  <1>9. /\ \A p \in DOMAIN product : product[p].given \in Nat
        /\ \A i \in DOMAIN made : /\ made[i].given \in Nat /\ made[i].by = key
                                  /\ made[i].given # 0 => skuNext <= made[i].given /\ made[i].given < next
                                  /\ made[i].sku.kind = "PRD" => made[i].sku.n = made[i].given
    BY <1>1, <1>3, <1>6, RowsTyped DEF JobFits
  <1>10. BatchesTakeEffectOnce'
    <2> SUFFICES ASSUME NEW k \in Keys
                 PROVE  Cardinality({ p \in DOMAIN product' : product'[p].by = k }) = Len(batchOf'[k])
      BY DEF BatchesTakeEffectOnce
    <2>1. CASE k # key
      <3>1. { p \in DOMAIN product' : product'[p].by = k } = { p \in DOMAIN product : product[p].by = k }
        BY <1>8, <1>9, <2>1
      <3> QED  BY <1>2, <2>1, <3>1 DEF SkuInv, BatchesTakeEffectOnce
    <2>2. CASE k = key
      <3>1. batchOf[k] = <<>>
        BY <1>1, <1>3, <2>2 DEF JobFits, Fresh
      <3>2. Cardinality({ p \in DOMAIN product : product[p].by = k }) = 0
        BY <3>1 DEF SkuInv, BatchesTakeEffectOnce
      <3>3. { p \in DOMAIN product : product[p].by = k } = {}
        <4>1. IsFiniteSet({ p \in DOMAIN product : product[p].by = k })
          BY <1>6, FS_Interval, FS_Subset
        <4> QED  BY <3>2, <4>1, FS_EmptySet
      <3>4. { p \in DOMAIN product' : product'[p].by = k } = (old + 1)..(old + more)
        <4>1. DOMAIN product' \ DOMAIN product = (old + 1)..(old + more)
          BY <1>6, <1>7
        <4> QED  BY <1>8, <1>9, <2>2, <3>3, <4>1
      <3>5. Cardinality((old + 1)..(old + more)) = more
        <4>1. PICK a \in Int, b \in Int : a = old + 1 /\ b = old + more
          OBVIOUS
        <4>2. Cardinality(a..b) = IF a > b THEN 0 ELSE b - a + 1
          BY FS_Interval
        <4> QED  BY <4>1, <4>2
      <3> QED  BY <1>2, <1>4, <1>5, <2>2, <3>4, <3>5
    <2> QED  BY <2>1, <2>2
  <1>11. skuNext' \in 0..(MaxSku + 1) /\ skuNext <= skuNext' /\ (next # 0 => skuNext' = next)
    BY <1>2, <1>3
  <1>12. ASSUME NEW p \in DOMAIN product'
         PROVE  /\ product'[p].given # 0 => product'[p].given < skuNext'
                /\ product'[p].sku.kind = "PRD" => product'[p].by = "load" \/ product'[p].sku.n = product'[p].given
    <2>1. CASE p \in DOMAIN product
      <3>1. /\ product[p].given # 0 => product[p].given < skuNext
            /\ product[p].sku.kind = "PRD" => product[p].by = "load" \/ product[p].sku.n = product[p].given
        BY <2>1 DEF SkuInv, ProductsFit
      <3> QED  BY <1>3, <1>8, <1>9, <1>11, <2>1, <3>1, SkuBounds
    <2>2. CASE p \notin DOMAIN product
      <3>1. PICK i \in DOMAIN made : product'[p] = made[i]
        BY <1>8, <2>2
      <3>2. made[i].given # 0 => made[i].given < next
        BY <1>9
      <3>3. made[i].given # 0 => next # 0
        BY <1>3, <1>9, <3>2
      <3> QED  BY <1>9, <1>11, <3>1, <3>2, <3>3
    <2> QED  BY <2>1, <2>2
  <1>13. ASSUME NEW p \in DOMAIN product', NEW q \in DOMAIN product', p # q, product'[p].given # 0
         PROVE  product'[p].given # product'[q].given
    <2>0. \A r \in DOMAIN product : product[r].given # 0 => product[r].given < skuNext
      BY DEF SkuInv, ProductsFit
    <2>1. CASE p \in DOMAIN product /\ q \in DOMAIN product
      BY <1>8, <1>13, <2>1 DEF SkuInv, ProductsFit
    <2>2. CASE p \in DOMAIN product /\ q \notin DOMAIN product
      <3>1. PICK i \in DOMAIN made : product'[q] = made[i]
        BY <1>8, <2>2
      <3> QED  BY <1>3, <1>8, <1>9, <1>13, <2>0, <2>2, <3>1
    <2>3. CASE p \notin DOMAIN product /\ q \in DOMAIN product
      <3>1. PICK i \in DOMAIN made : product'[p] = made[i]
        BY <1>8, <2>3
      <3> QED  BY <1>3, <1>8, <1>9, <1>13, <2>0, <2>3, <3>1
    <2>4. CASE p \notin DOMAIN product /\ q \notin DOMAIN product
      <3>1. /\ p - old \in DOMAIN made /\ product'[p] = made[p - old]
            /\ q - old \in DOMAIN made /\ product'[q] = made[q - old]
        BY <1>8, <2>4
      <3>2. p - old # q - old
        BY <1>7, <1>13
      <3>3. \A i, k \in DOMAIN made : i # k /\ made[i].given # 0 => made[i].given # made[k].given
        BY <1>1, <1>3 DEF JobFits
      <3> QED  BY <1>13, <3>1, <3>2, <3>3
    <2> QED  BY <2>1, <2>2, <2>3, <2>4
  <1>14. ProductsFit'
    BY <1>12, <1>13 DEF ProductsFit
  <1>15. RowsKept
    BY <1>8 DEF RowsKept
  <1>16. DOMAIN editor' = Editors /\ \A e \in Editors : editor'[e] \in {editor[e], NoEdit}
    BY <1>2 DEF SkuInv
  <1>17. (\A e \in Editors : EditorFits(e)') /\ \A e \in Editors : editor'[e].row \in 0..Len(product')
    BY <1>7, <1>15, <1>16, EditorsKept
  <1>18. batchOf' \in [Keys -> Contents \cup {<<>>}]
    BY <1>2, <1>3 DEF SkuInv, SkuTypeOK
  <1>19. SkuTypeOK'
    BY <1>2, <1>7, <1>11, <1>17, <1>18 DEF SkuTypeOK, NoJob
  <1> QED  BY <1>2, <1>10, <1>14, <1>16, <1>17, <1>19 DEF SkuInv

LEMMA SkuUnchanged == ASSUME SkuInv, UNCHANGED skuVars PROVE SkuInv'
  BY DEF skuVars, SkuInv, SkuTypeOK, BatchesTakeEffectOnce, ProductsFit, JobFits, Fresh, EditorFits

(* Numbers and submissions are used once, whatever jobs, forms, deletions and loads   *)
(* come between each other (products/creation.py, products/sku.py, products/views.py). *)
THEOREM CodesSound == SkuSpec => []CodesAreSound
  <1>1. ASSUME SkuInv, [SkuStep]_skuVars PROVE SkuInv'
    <2>1. CASE \E key \in Keys \cup {"none"}, content \in Contents : StartJob(key, content)
      BY <1>1, <2>1, SkuStart
    <2>2. CASE Look
      BY <1>1, <2>2, SkuLook
    <2>3. CASE Insert
      BY <1>1, <2>3, SkuInsert
    <2>4. CASE CommitJob
      BY <1>1, <2>4, SkuCommit
    <2>5. CASE FailJob
      BY <1>1, <2>5, SkuFail
    <2>6. CASE \E e \in Editors, p \in DOMAIN product, code \in Codes : ReadProduct(e, p, code)
      BY <1>1, <2>6, SkuRead
    <2>7. CASE \E e \in Editors : WriteProduct(e)
      BY <1>1, <2>7, SkuWrite
    <2>8. CASE \E e \in Editors : FailEdit(e)
      BY <1>1, <2>8, SkuFailEdit
    <2>9. CASE \E p \in DOMAIN product : DeleteProduct(p)
      BY <1>1, <2>9, SkuDelete
    <2>10. CASE \E n \in 1..MaxSku : LoadProduct(n)
      BY <1>1, <2>10, SkuLoad
    <2>11. CASE UNCHANGED skuVars
      BY <1>1, <2>11, SkuUnchanged
    <2> QED  BY <1>1, <2>1, <2>2, <2>3, <2>4, <2>5, <2>6, <2>7, <2>8, <2>9, <2>10, <2>11 DEF SkuStep
  <1>2. SkuInv => CodesAreSound
    <2> SUFFICES ASSUME SkuInv PROVE CodesAreSound
      OBVIOUS
    <2>1. NumberGivenOnce
      BY DEF SkuInv, ProductsFit, NumberGivenOnce, Live
    <2> QED  BY <2>1 DEF SkuInv, CodesAreSound
  <1> QED  BY <1>1, <1>2, SkuInitInv, PTL DEF SkuSpec

-----------------------------------------------------------------------------
(* The inductive invariant: ids are not used again, and a plan that was started    *)
(* stays what it was read from.                                                     *)
GoneStaysGone == Present \cap gone = {}

NamesFit == \A r \in Present : row[r].link # NoRow => MayName(r, row[r].link)

PlansFit ==
    /\ DOMAIN plan = Plans
    /\ \A p \in Plans : plan[p].at # "none" =>
          /\ plan[p].roots \in SUBSET Rows /\ plan[p].roots # {}
          /\ \A r \in plan[p].roots : kind[r] # "value"
    /\ \A p \in applied : plan[p].at = "made"
    /\ apply # NotApplying => plan[apply].at = "made"

CleanupInv == CleanupTypeOK /\ NothingDangles /\ NamesFit /\ GoneStaysGone /\ PlansFit

LEMMA CleanupInitInv == CleanupInit => CleanupInv
  <1> SUFFICES ASSUME CleanupInit PROVE CleanupInv
    OBVIOUS
  <1>1. DOMAIN row = {}
    BY DEF CleanupInit
  <1>2. CleanupTypeOK
    BY <1>1, CleanupBounds DEF CleanupInit, CleanupTypeOK, NoPlan
  <1>3. NothingDangles /\ NamesFit /\ GoneStaysGone /\ PlansFit
    BY <1>1 DEF CleanupInit, NothingDangles, NamesFit, GoneStaysGone, PlansFit, NoPlan, Present
  <1> QED  BY <1>2, <1>3 DEF CleanupInv

\* What the rows around a cleanup look like when its plan has no blocker.
LEMMA CommitFacts ==
    ASSUME CleanupInv, NEW p \in Plans, Commit(p)
    PROVE  LET ids == plan[p].roots IN
           /\ plan[p].at = "made" /\ ids \subseteq Present /\ \A r \in ids : kind[r] # "value"
           /\ DOMAIN plan[p].affected = Selected(ids) /\ ids \subseteq Selected(ids)
           /\ Selected(ids) \subseteq Present
           /\ \A r \in Selected(ids) : plan[p].affected[r] = row[r]
           /\ Blockers(ids, plan[p].operation) = {}
           /\ row' = [r \in Present \ Selected(ids) |-> row[r]]
           /\ gone' = gone \cup Selected(ids)
  <1> DEFINE ids == plan[p].roots
  <1>1. plan[p].at = "made" /\ \A r \in ids : kind[r] # "value"
    BY PlanNames DEF CleanupInv, PlansFit, Commit
  <1>2. Selected(ids) \subseteq Present
    BY DEF Selected, Approved
  <1>3. plan[p].affected = AsRecorded(Selected(ids))
    BY DEF Commit, Unchanged, SameRows, Affected
  <1>4. /\ DOMAIN plan[p].affected = Selected(ids)
        /\ \A r \in Selected(ids) : plan[p].affected[r] = row[r]
    BY <1>2, <1>3 DEF AsRecorded
  <1>5. Blockers(ids, plan[p].operation) = {}
    BY DEF Commit, Unchanged, Surroundings
  <1>6. ids \subseteq Approved(ids)
    BY <1>5 DEF Blockers, Unowned
  <1>7. ids \subseteq Present /\ ids \subseteq Selected(ids)
    BY <1>6 DEF Approved, Selected
  <1>8. /\ row' = [r \in Present \ Selected(ids) |-> row[r]]
        /\ gone' = gone \cup Selected(ids)
    BY <1>4 DEF Commit
  <1> QED  BY <1>1, <1>2, <1>4, <1>5, <1>7, <1>8

\* Rows that stay name none that goes, and their foreign keys rows that stay.
LEMMA StayersStay ==
    ASSUME CleanupInv, NEW p \in Plans, Commit(p), NEW r \in DOMAIN row'
    PROVE  /\ r \in Present /\ r \notin Selected(plan[p].roots)
           /\ row'[r] = row[r] /\ row[r].link \notin Present \ DOMAIN row'
           /\ Keyed(r)' \in DOMAIN row' \cup {NoRow}
  <1> DEFINE ids == plan[p].roots
  <1>1. r \in Present /\ r \notin Selected(ids) /\ row'[r] = row[r] /\ DOMAIN row' = Present \ Selected(ids)
    BY CommitFacts
  <1>2. Keyed(r) \in Present \cup {NoRow}
    BY <1>1 DEF CleanupInv, NothingDangles
  <1>3. Keyed(r) \notin Selected(ids)
    <2>1. r \notin Hanging(ids)
      BY CommitFacts DEF Blockers
    <2> QED  BY <1>1, <2>1 DEF Hanging, Dependents
  <1>4. row[r].link \notin Selected(ids)
    <2>1. CASE kind[r] = "value"
      <3>1. ASSUME row[r].link \in Selected(ids) PROVE FALSE
        <4>1. row[r].link # NoRow /\ kind[row[r].link] # "value"
          BY <1>1, <3>1, CleanupBounds DEF CleanupInv, NamesFit, MayName, Selected, Approved, Present, CleanupTypeOK
        <4>2. row[r].link \in Approved(ids)
          BY <3>1, <4>1 DEF Selected
        <4> QED  BY <1>1, <2>1, <4>2 DEF Selected
      <3> QED  BY <3>1
    <2>2. CASE kind[r] = "snapshot"
      <3>1. r \notin Quoting(ids) /\ Selected(ids) \subseteq Present
        BY CommitFacts DEF Blockers
      <3> QED  BY <1>1, <2>2, <3>1 DEF Quoting
    <2>3. CASE kind[r] \notin Texts
      BY <1>3, <2>3 DEF Keyed
    <2> QED  BY <2>1, <2>2, <2>3 DEF Texts
  <1>5. Keyed(r)' = Keyed(r)
    BY <1>1 DEF Keyed, Commit
  <1> QED  BY <1>1, <1>2, <1>3, <1>4, <1>5

\* A plan that was applied is spent: what it approved is not there any more.
LEMMA PlansAreSpent ==
    ASSUME CleanupInv, NEW p \in Plans, Commit(p)
    PROVE  p \notin applied
  <1>1. plan[p].roots \subseteq Present /\ plan[p].roots # {}
    BY CommitFacts DEF CleanupInv, PlansFit
  <1>2. Present \cap gone = {} /\ (p \in applied => plan[p].roots \subseteq gone)
    BY DEF CleanupInv, GoneStaysGone, NothingDangles
  <1> QED  BY <1>1, <1>2

LEMMA CleanupCommit ==
    ASSUME CleanupInv, NEW p \in Plans, Commit(p)
    PROVE  CleanupInv'
  <1> DEFINE ids == plan[p].roots
  <1>1. /\ UNCHANGED <<kind, session, build, clock, plan>>
        /\ apply' = NotApplying /\ applied' = applied \cup {p}
    BY DEF Commit
  <1>2. /\ DOMAIN row' = Present \ Selected(ids) /\ Selected(ids) \subseteq Present
        /\ gone' = gone \cup Selected(ids) /\ \A r \in DOMAIN row' : row'[r] = row[r]
        /\ ids \subseteq Selected(ids) /\ plan[p].at = "made"
    BY CommitFacts
  <1>3. CleanupTypeOK'
    BY <1>1, <1>2 DEF CleanupInv, CleanupTypeOK, RowOK, Present
  <1>4. NothingDangles'
    <2>1. \A r \in DOMAIN row' : Keyed(r)' \in DOMAIN row' \cup {NoRow}
      BY StayersStay
    <2>2. \A q \in applied' : plan'[q].roots \subseteq gone'
      BY <1>1, <1>2 DEF CleanupInv, NothingDangles
    <2> QED  BY <2>1, <2>2 DEF NothingDangles, Present
  <1>5. GoneStaysGone'
    BY <1>2 DEF CleanupInv, GoneStaysGone, Present
  <1>6. PlansFit'
    BY <1>1, <1>2 DEF CleanupInv, PlansFit
  <1>7. NamesFit'
    BY <1>1, <1>2 DEF CleanupInv, NamesFit, MayName, Products, Present
  <1> QED  BY <1>3, <1>4, <1>5, <1>6, <1>7 DEF CleanupInv

LEMMA CleanupAdd ==
    ASSUME CleanupInv, NEW r \in Rows, NEW link \in Rows \cup {NoRow}, AddRow(r, link)
    PROVE  CleanupInv'
  <1>1. /\ r \notin Present \cup gone /\ link \in Present \cup {NoRow} /\ MayName(r, link)
        /\ DOMAIN row' = Present \cup {r}
        /\ row'[r] = [link |-> link, content |-> 0]
        /\ \A q \in Present : row'[q] = row[q]
        /\ UNCHANGED <<kind, gone, session, build, clock, plan, apply, applied>>
    BY DEF AddRow
  <1>2. row'[r] \in RowOK
    BY <1>1, CleanupBounds DEF RowOK
  <1>3. CleanupTypeOK'
    BY <1>1, <1>2 DEF CleanupInv, CleanupTypeOK, RowOK, Present
  <1>4. NothingDangles' /\ NamesFit'
    <2>1. ASSUME NEW q \in Present' PROVE Keyed(q)' \in Present' \cup {NoRow}
      BY <1>1, <2>1 DEF CleanupInv, NothingDangles, Keyed, Present
    <2>2. \A q \in applied' : plan'[q].roots \subseteq gone'
      BY <1>1 DEF CleanupInv, NothingDangles
    <2>3. NamesFit'
      BY <1>1 DEF CleanupInv, NamesFit, MayName, Products, Present
    <2> QED  BY <2>1, <2>2, <2>3 DEF NothingDangles
  <1>5. GoneStaysGone' /\ PlansFit'
    BY <1>1 DEF CleanupInv, GoneStaysGone, PlansFit, Present
  <1> QED  BY <1>3, <1>4, <1>5 DEF CleanupInv

LEMMA CleanupEdit ==
    ASSUME CleanupInv, NEW r \in Rows, EditRow(r)
    PROVE  CleanupInv'
  <1>0. row[r] \in RowOK /\ r \in Present /\ row[r].content < MaxEdits
    BY DEF CleanupInv, CleanupTypeOK, EditRow, Present
  <1>1. /\ DOMAIN row' = Present
        /\ row'[r] = [row[r] EXCEPT !.content = @ + 1]
        /\ \A q \in Present : q # r => row'[q] = row[q]
        /\ UNCHANGED <<kind, gone, session, build, clock, plan, apply, applied>>
    BY DEF EditRow, Present
  <1>2. row'[r] \in RowOK /\ row'[r].link = row[r].link
    BY <1>0, <1>1, CleanupBounds DEF RowOK
  <1>3. CleanupTypeOK'
    BY <1>1, <1>2 DEF CleanupInv, CleanupTypeOK, RowOK, Present
  <1>4. NothingDangles' /\ NamesFit'
    <2>1. \A q \in Present : row'[q].link = row[q].link
      BY <1>1, <1>2
    <2> QED  BY <1>1, <2>1 DEF CleanupInv, NothingDangles, NamesFit, MayName, Products, Keyed, Present
  <1>5. GoneStaysGone' /\ PlansFit'
    BY <1>1 DEF CleanupInv, GoneStaysGone, PlansFit, Present
  <1> QED  BY <1>3, <1>4, <1>5 DEF CleanupInv

LEMMA CleanupRemove ==
    ASSUME CleanupInv, NEW r \in Rows, RemoveRow(r)
    PROVE  CleanupInv'
  <1>1. /\ r \in Present /\ \A q \in Present : Keyed(q) # r
        /\ DOMAIN row' = Present \ {r}
        /\ \A q \in Present \ {r} : row'[q] = row[q]
        /\ gone' = gone \cup {r}
        /\ UNCHANGED <<kind, session, build, clock, plan, apply, applied>>
    BY DEF RemoveRow
  <1>3. CleanupTypeOK'
    BY <1>1 DEF CleanupInv, CleanupTypeOK, RowOK, Present
  <1>4. NothingDangles' /\ NamesFit'
    <2>1. ASSUME NEW q \in Present' PROVE Keyed(q)' \in Present' \cup {NoRow}
      BY <1>1, <2>1 DEF CleanupInv, NothingDangles, Keyed, Present
    <2>2. \A q \in applied' : plan'[q].roots \subseteq gone'
      BY <1>1 DEF CleanupInv, NothingDangles
    <2>3. NamesFit'
      BY <1>1 DEF CleanupInv, NamesFit, MayName, Products, Present
    <2> QED  BY <2>1, <2>2, <2>3 DEF NothingDangles
  <1>5. GoneStaysGone' /\ PlansFit'
    BY <1>1 DEF CleanupInv, GoneStaysGone, PlansFit, Present
  <1> QED  BY <1>3, <1>4, <1>5 DEF CleanupInv

\* Steps that leave the rows and the audit trail alone.
LEMMA RowsStay ==
    ASSUME CleanupInv, UNCHANGED <<kind, row, gone, applied>>, CleanupTypeOK', PlansFit',
           \A p \in applied : plan'[p].roots = plan[p].roots
    PROVE  CleanupInv'
  BY DEF CleanupInv, NothingDangles, NamesFit, MayName, Products, Keyed, GoneStaysGone, Present

LEMMA CleanupWorld ==
    ASSUME CleanupInv, EndSession \/ Deploy \/ Tick
    PROVE  CleanupInv'
  <1>1. UNCHANGED <<kind, row, gone, plan, apply, applied>>
    BY DEF EndSession, Deploy, Tick
  <1>2. CleanupTypeOK'
    <2>1. session' \in BOOLEAN /\ build' \in 0..1 /\ clock' \in 0..MaxTime
      <3>0. session \in BOOLEAN /\ build \in 0..1 /\ clock \in 0..MaxTime
        BY DEF CleanupInv, CleanupTypeOK
      <3>1. CASE EndSession
        BY <3>0, <3>1, Zenon DEF EndSession
      <3>2. CASE Deploy
        <4>1. session' = session /\ clock' = clock
          BY <3>2 DEF Deploy
        <4>2. build' \in 0..1
          BY <3>2 DEF Deploy
        <4> QED  BY <3>0, <4>1, <4>2, Zenon
      <3>3. CASE Tick
        <4>1. session' = session /\ build' = build
          BY <3>3 DEF Tick
        <4>2. clock' \in 0..MaxTime
          BY <3>0, <3>3, CleanupBounds DEF Tick
        <4> QED  BY <3>0, <4>1, <4>2, Zenon
      <3> QED  BY <3>1, <3>2, <3>3
    <2> QED  BY <1>1, <2>1 DEF CleanupInv, CleanupTypeOK, RowOK
  <1>3. PlansFit'
    BY <1>1 DEF CleanupInv, PlansFit
  <1> QED  BY <1>1, <1>2, <1>3, RowsStay

LEMMA CleanupStartPlan ==
    ASSUME CleanupInv, NEW p \in Plans, NEW ids \in SUBSET Rows, NEW operation \in Operations,
           StartPlan(p, ids, operation)
    PROVE  CleanupInv'
  <1>0. plan[p].at = "none" /\ p \notin applied
    BY DEF StartPlan, NoPlan, CleanupInv, PlansFit
  <1>1. /\ DOMAIN plan' = Plans /\ ids # {} /\ \A r \in ids : kind[r] # "value"
        /\ plan'[p].at = "reading" /\ plan'[p].roots = ids
        /\ \A q \in Plans \ {p} : plan'[q] = plan[q]
        /\ UNCHANGED <<kind, row, gone, session, build, clock, apply, applied>>
    BY DEF StartPlan, CleanupInv, PlansFit
  <1>2. CleanupTypeOK'
    BY <1>1 DEF CleanupInv, CleanupTypeOK, RowOK
  <1>3. PlansFit'
    BY <1>0, <1>1 DEF CleanupInv, PlansFit, CleanupTypeOK
  <1>4. \A q \in applied : plan'[q].roots = plan[q].roots
    BY <1>0, <1>1 DEF CleanupInv, CleanupTypeOK
  <1> QED  BY <1>1, <1>2, <1>3, <1>4, RowsStay

LEMMA CleanupFinishPlan ==
    ASSUME CleanupInv, NEW p \in Plans, FinishPlan(p)
    PROVE  CleanupInv'
  <1>0. plan[p].at = "reading" /\ p \notin applied
    BY DEF FinishPlan, CleanupInv, PlansFit
  <1>1. /\ DOMAIN plan' = Plans
        /\ plan'[p].at = "made" /\ plan'[p].roots = plan[p].roots
        /\ \A q \in Plans \ {p} : plan'[q] = plan[q]
        /\ UNCHANGED <<kind, row, gone, session, build, clock, apply, applied>>
    BY DEF FinishPlan, CleanupInv, PlansFit
  <1>2. CleanupTypeOK'
    BY <1>1 DEF CleanupInv, CleanupTypeOK, RowOK
  <1>3. PlansFit'
    BY <1>0, <1>1 DEF CleanupInv, PlansFit, CleanupTypeOK
  <1>4. \A q \in applied : plan'[q].roots = plan[q].roots
    BY <1>0, <1>1 DEF CleanupInv, CleanupTypeOK
  <1> QED  BY <1>1, <1>2, <1>3, <1>4, RowsStay

LEMMA CleanupApplying ==
    ASSUME CleanupInv, NEW p \in Plans, StartApply(p) \/ Fail(p)
    PROVE  CleanupInv'
  <1>1. /\ UNCHANGED <<kind, row, gone, session, build, clock, plan, applied>>
        /\ apply' = NotApplying \/ (apply' = p /\ plan[p].at = "made")
    BY DEF StartApply, Fail
  <1>2. CleanupTypeOK'
    BY <1>1 DEF CleanupInv, CleanupTypeOK, RowOK
  <1>3. PlansFit'
    BY <1>1 DEF CleanupInv, PlansFit
  <1> QED  BY <1>1, <1>2, <1>3, RowsStay

LEMMA CleanupStep == CleanupInv /\ [CleanupNext]_cleanupVars => CleanupInv'
  <1> SUFFICES ASSUME CleanupInv, [CleanupNext]_cleanupVars PROVE CleanupInv'
    OBVIOUS
  <1>1. ASSUME NEW r \in Rows, NEW link \in Rows \cup {NoRow}, AddRow(r, link) PROVE CleanupInv'
    BY <1>1, CleanupAdd
  <1>2. ASSUME NEW r \in Rows, EditRow(r) PROVE CleanupInv'
    BY <1>2, CleanupEdit
  <1>3. ASSUME NEW r \in Rows, RemoveRow(r) PROVE CleanupInv'
    BY <1>3, CleanupRemove
  <1>4. ASSUME EndSession \/ Deploy \/ Tick PROVE CleanupInv'
    BY <1>4, CleanupWorld
  <1>5. ASSUME NEW p \in Plans, NEW ids \in SUBSET Rows, NEW operation \in Operations,
               StartPlan(p, ids, operation) PROVE CleanupInv'
    BY <1>5, CleanupStartPlan
  <1>6. ASSUME NEW p \in Plans, FinishPlan(p) PROVE CleanupInv'
    BY <1>6, CleanupFinishPlan
  <1>7. ASSUME NEW p \in Plans, StartApply(p) \/ Fail(p) PROVE CleanupInv'
    BY <1>7, CleanupApplying
  <1>8. ASSUME NEW p \in Plans, Commit(p) PROVE CleanupInv'
    BY <1>8, CleanupCommit
  <1>9. CASE UNCHANGED cleanupVars
    BY <1>9 DEF cleanupVars, CleanupInv, CleanupTypeOK, RowOK, NothingDangles, NamesFit, MayName,
                Products, Keyed, GoneStaysGone, PlansFit, Present
  <1> QED  BY <1>1, <1>2, <1>3, <1>4, <1>5, <1>6, <1>7, <1>8, <1>9 DEF CleanupNext

\* A row that goes was reviewed, and its product goes with it.
LEMMA GoersReviewed ==
    ASSUME CleanupInv, NEW p \in Plans, Commit(p), NEW r \in Present, r \notin DOMAIN row'
    PROVE  /\ r \in plan[p].roots \/ (kind[r] = "value" /\ row[r].link \in plan[p].roots)
           /\ kind[r] # "protected" /\ row[r] = plan[p].affected[r]
           /\ Owned(r)
           /\ row[r].link \in Products => row[r].link \notin DOMAIN row'
  <1> DEFINE ids == plan[p].roots
  <1>1. /\ r \in Selected(ids) /\ row[r] = plan[p].affected[r] /\ DOMAIN row' = Present \ Selected(ids)
        /\ Blockers(ids, plan[p].operation) = {}
    BY CommitFacts
  <1>2. r \in ids \/ (kind[r] = "value" /\ row[r].link \in ids)
    BY <1>1 DEF Selected, Approved
  <1>3. kind[r] # "protected"
    BY <1>1 DEF Blockers
  <1>4. Owned(r)
    BY <1>1 DEF Blockers, Unowned
  <1>5. ASSUME row[r].link \in Products PROVE row[r].link \notin DOMAIN row'
    <2>1. row[r].link # NoRow /\ kind[row[r].link] # "value"
      BY <1>5, CleanupBounds DEF Products
    <2>2. row[r].link \notin Halved(ids) /\ r \notin Quoting(ids) /\ r \in Present
      BY <1>1 DEF Blockers
    <2>3. CASE kind[r] = "value"
      <3>1. r \notin ids /\ Approved(ids) \subseteq ids
        BY <2>3, CommitFacts DEF Approved
      <3> QED  BY <1>1, <2>1, <3>1 DEF Selected
    <2>4. CASE kind[r] = "snapshot"
      BY <1>1, <2>2, <2>4 DEF Quoting
    <2>5. CASE kind[r] \notin Texts
      <3>1. row[r].link \in Selected(ids)
        BY <1>1, <1>5, <2>1, <2>2, <2>5 DEF Halved, Endpoints, Keyed
      <3> QED  BY <1>1, <3>1
    <2> QED  BY <2>3, <2>4, <2>5 DEF Texts
  <1> QED  BY <1>1, <1>2, <1>3, <1>4, <1>5

\* The classified policy leaves no product of the tenant.
LEMMA NoProductLeft ==
    ASSUME CleanupInv, NEW p \in Plans, Commit(p), plan[p].operation = "classified_inventory",
           NEW r \in DOMAIN row', r \in Products
    PROVE  ~OfTenant(r)
  <1>1. r \in Present /\ r \notin Selected(plan[p].roots)
    BY StayersStay
  <1>2. Unreviewed(plan[p].roots, "classified_inventory") = {}
    BY CommitFacts DEF Blockers
  <1>3. plan[p].roots \subseteq Selected(plan[p].roots)
    BY CommitFacts
  <1> QED  BY <1>1, <1>2, <1>3 DEF Unreviewed

LEMMA ReviewedOnly ==
    ASSUME CleanupInv, NEW p \in Plans, Commit(p)
    PROVE
          /\ p \notin applied /\ session
          /\ \A r \in Present : r \notin DOMAIN row' =>
                /\ r \in plan[p].roots \/ (kind[r] = "value" /\ row[r].link \in plan[p].roots)
                /\ kind[r] # "protected" /\ row[r] = plan[p].affected[r]
                /\ Owned(r)
                /\ row[r].link \in Products => row[r].link \notin DOMAIN row'
          /\ \A r \in DOMAIN row' : row'[r] = row[r] /\ row[r].link \notin Present \ DOMAIN row'
          /\ plan[p].operation = "classified_inventory" =>
                \A r \in DOMAIN row' : r \in Products => ~OfTenant(r)
  <1>1. p \notin applied
    BY PlansAreSpent
  <1>2. session
    BY DEF Commit, Unchanged
  <1>3. \A r \in DOMAIN row' : row'[r] = row[r] /\ row[r].link \notin Present \ DOMAIN row'
    BY StayersStay
  <1>4. plan[p].operation = "classified_inventory" => \A r \in DOMAIN row' : r \in Products => ~OfTenant(r)
    BY NoProductLeft
  <1> QED  BY <1>1, <1>2, <1>3, <1>4, GoersReviewed

(* A cleanup removes what was reviewed and nothing else, once, and leaves no row    *)
(* that refers to what it removed.                                                  *)
THEOREM CleanupExact == CleanupSpec => CleanupIsExact
  <1>1. CleanupInv => CleanupTypeOK /\ NothingDangles
    BY DEF CleanupInv
  <1>2. CleanupInv /\ [CleanupNext]_cleanupVars =>
      [\A p \in Plans : Commit(p) =>
          /\ p \notin applied /\ session
          /\ \A r \in Present : r \notin DOMAIN row' =>
                /\ r \in plan[p].roots \/ (kind[r] = "value" /\ row[r].link \in plan[p].roots)
                /\ kind[r] # "protected" /\ row[r] = plan[p].affected[r]
                /\ Owned(r)
                /\ row[r].link \in Products => row[r].link \notin DOMAIN row'
          /\ \A r \in DOMAIN row' : row'[r] = row[r] /\ row[r].link \notin Present \ DOMAIN row'
          /\ plan[p].operation = "classified_inventory" =>
                \A r \in DOMAIN row' : r \in Products => ~OfTenant(r)]_cleanupVars
    BY ReviewedOnly
  <1> QED  BY <1>1, <1>2, CleanupInitInv, CleanupStep, PTL DEF CleanupSpec, CleanupIsExact, RemovesWhatWasReviewed

-----------------------------------------------------------------------------
(* The inductive invariant: a page shows an invitation there is, who was never   *)
(* invited has none, and a password chosen makes the account ready.              *)
PageShown == [of : 1..MaxInvitations, tenant : Tenants, chooses : BOOLEAN]

PagesFit ==
    /\ page \in [Pages -> {NoPage} \cup PageShown]
    /\ \A g \in Pages : page[g] # NoPage => page[g].of \in DOMAIN invitation[page[g].tenant]

InvitedMembers ==
    \A w \in Tenants : member[w].there <=> invitation[w] # <<>>

ChosenMeansReady == chosenBy # {} => account = "ready"

InviteInv ==
    /\ InviteTypeOK /\ OneLiveInvitation /\ PasswordChosenOnce
    /\ PagesFit /\ InvitedMembers /\ ChosenMeansReady

LEMMA SomeRole == (CHOOSE role \in Roles : TRUE) \in Roles
  BY RolesGiven

LEMMA LetterFields ==
    ASSUME NEW s \in Seq(Letter), NEW i \in DOMAIN s
    PROVE  /\ s[i] \in Letter /\ i \in 1..Len(s)
           /\ s[i].role \in Roles /\ s[i].expired \in BOOLEAN
           /\ s[i].state \in {"pending", "accepted", "revoked"}
  <1>1. s[i] \in Letter /\ i \in 1..Len(s)
    BY SeqDef, ElementOfSeq
  <1> QED
    BY <1>1 DEF Letter

\* A letter with another state or another date of expiry.
LEMMA LetterChanged ==
    ASSUME NEW x \in Letter, NEW st \in {"pending", "accepted", "revoked"}
    PROVE  /\ [x EXCEPT !.state = st] \in Letter /\ [x EXCEPT !.state = st].state = st
           /\ [x EXCEPT !.state = st].role = x.role
           /\ [x EXCEPT !.expired = TRUE] \in Letter
           /\ [x EXCEPT !.expired = TRUE].state = x.state
           /\ [x EXCEPT !.expired = TRUE].role = x.role
  BY DEF Letter

\* Issuing again, when nothing was accepted, leaves the new invitation alone.
LEMMA IssuedAlone ==
    ASSUME InviteTypeOK, NEW w \in Tenants, NEW role \in Roles,
           \A i \in DOMAIN invitation[w] : invitation[w][i].state # "accepted"
    PROVE  /\ Issued(w, role) \in Seq(Letter)
           /\ Len(Issued(w, role)) = Len(invitation[w]) + 1
           /\ DOMAIN Issued(w, role) = 1..(Len(invitation[w]) + 1)
           /\ \A i \in DOMAIN invitation[w] : Issued(w, role)[i].state = "revoked"
           /\ Issued(w, role)[Len(invitation[w]) + 1].state = "pending"
  <1> DEFINE s == invitation[w]
             old == [i \in DOMAIN s |-> IF s[i].state = "pending"
                                        THEN [s[i] EXCEPT !.state = "revoked"] ELSE s[i]]
             new == [role |-> role, state |-> "pending", expired |-> FALSE]
  <1>1. s \in Seq(Letter) /\ DOMAIN s = 1..Len(s) /\ Len(s) \in Nat
    BY DEF InviteTypeOK
  <1>2. \A i \in DOMAIN s : old[i] \in Letter /\ old[i].state = "revoked"
    <2> TAKE i \in DOMAIN s
    <2>1. s[i] \in Letter /\ s[i].state \in {"pending", "revoked"}
      BY <1>1, LetterFields
    <2>2. CASE s[i].state = "pending"
      BY <2>1, <2>2, LetterChanged
    <2>3. CASE s[i].state # "pending"
      BY <2>1, <2>3
    <2> QED
      BY <2>2, <2>3
  <1>3. old \in Seq(Letter) /\ Len(old) = Len(s) /\ DOMAIN old = 1..Len(s)
    <2> HIDE DEF s
    <2>1. old \in [1..Len(s) -> Letter]
      BY <1>1, <1>2
    <2> QED
      BY <1>1, <2>1, SeqDef, LenProperties
  <1>4. new \in Letter /\ new.state = "pending"
    BY DEF Letter
  <1>5. Issued(w, role) = Append(old, new)
    BY DEF Issued
  <1> HIDE DEF old, new, s
  <1>6. /\ Append(old, new) \in Seq(Letter) /\ Len(Append(old, new)) = Len(s) + 1
        /\ DOMAIN Append(old, new) = 1..(Len(s) + 1)
        /\ \A i \in 1..Len(s) : Append(old, new)[i] = old[i]
        /\ Append(old, new)[Len(s) + 1] = new
    BY <1>1, <1>3, <1>4, AppendProperties
  <1> QED
    BY <1>1, <1>2, <1>4, <1>5, <1>6 DEF s

LEMMA MemberFields ==
    ASSUME InviteTypeOK, NEW w \in Tenants
    PROVE  /\ member[w] \in [there : BOOLEAN, active : BOOLEAN, role : Roles]
           /\ member[w].there \in BOOLEAN /\ member[w].active \in BOOLEAN /\ member[w].role \in Roles
  BY DEF InviteTypeOK

LEMMA PageFields ==
    ASSUME PagesFit, NEW g \in Pages, page[g] # NoPage
    PROVE  /\ page[g] \in PageShown /\ page[g].of \in 1..MaxInvitations
           /\ page[g].tenant \in Tenants /\ page[g].of \in DOMAIN invitation[page[g].tenant]
  BY DEF PagesFit, PageShown

\* Two invitations of a membership that are not revoked are one.
LEMMA OneCounts ==
    ASSUME InviteTypeOK, OneLiveInvitation, NEW w \in Tenants,
           NEW i \in DOMAIN invitation[w], invitation[w][i].state # "revoked"
    PROVE  /\ i = Len(invitation[w])
           /\ \A j \in DOMAIN invitation[w] : invitation[w][j].state # "revoked" => j = i
  <1>1. invitation[w] \in Seq(Letter)
    BY DEF InviteTypeOK
  <1>2. \A j \in DOMAIN invitation[w] : j \in 1..Len(invitation[w])
    BY <1>1
  <1>3. Len(invitation[w]) \in Nat
    BY <1>1
  <1>4. \A j \in DOMAIN invitation[w] :
            invitation[w][j].state # "revoked" => ~(j < Len(invitation[w]))
    BY DEF OneLiveInvitation
  <1> QED
    BY <1>2, <1>3, <1>4

-----------------------------------------------------------------------------
LEMMA InviteInitHolds == InviteInit => InviteInv
  <1> SUFFICES ASSUME InviteInit PROVE InviteInv
    OBVIOUS
  <1>1. NoMember \in [there : BOOLEAN, active : BOOLEAN, role : Roles] /\ ~NoMember.there
    BY SomeRole DEF NoMember
  <1>2. InviteTypeOK
    <2>1. \A g \in Pages : page[g].of = 0
      BY DEF InviteInit, NoPage
    <2>2. invitation \in [Tenants -> Seq(Letter)]
      BY DEF InviteInit
    <2>3. \A g \in Pages : page[g].of \in 0..MaxInvitations
      BY <2>1, InvitationBound
    <2> QED
      BY <1>1, <2>2, <2>3 DEF InviteInit, InviteTypeOK
  <1>3. OneLiveInvitation /\ PasswordChosenOnce
    BY DEF InviteInit, OneLiveInvitation, PasswordChosenOnce
  <1>4. PagesFit
    BY DEF InviteInit, PagesFit
  <1>5. InvitedMembers /\ ChosenMeansReady
    BY <1>1 DEF InviteInit, InvitedMembers, ChosenMeansReady
  <1> QED
    BY <1>2, <1>3, <1>4, <1>5 DEF InviteInv

\* Steps that leave the pages and the password alone and rewrite the invitations of
\* one membership: no page loses the one it shows.
LEMMA RewrittenInvitations ==
    ASSUME InviteInv, NEW w \in Tenants, NEW s \in Seq(Letter),
           invitation' = [invitation EXCEPT ![w] = s],
           Len(invitation[w]) <= Len(s), s # <<>>,
           \A i \in 1..Len(s) : (s[i].state = "revoked") <=> i < Len(s),
           member' \in [Tenants -> [there : BOOLEAN, active : BOOLEAN, role : Roles]],
           member'[w].there,
           \A x \in Tenants \ {w} : member'[x].there <=> member[x].there,
           account' \in {"unknown", "new", "ready"}, account = "ready" => account' = "ready",
           UNCHANGED <<page, chosenBy>>
    PROVE  InviteInv'
  <1>0. invitation \in [Tenants -> Seq(Letter)]
    BY DEF InviteInv, InviteTypeOK
  <1>1. invitation' \in [Tenants -> Seq(Letter)] /\ invitation'[w] = s
    BY <1>0
  <1>2. \A x \in Tenants : x # w => invitation'[x] = invitation[x]
    BY <1>0
  <1>3. InviteTypeOK'
    BY <1>1 DEF InviteInv, InviteTypeOK
  <1>4. OneLiveInvitation'
    <2> SUFFICES ASSUME NEW x \in Tenants, NEW i \in DOMAIN invitation'[x]
                 PROVE  (invitation'[x][i].state = "revoked") <=> i < Len(invitation'[x])
      BY DEF OneLiveInvitation
    <2>1. CASE x = w
      BY <1>1, <2>1
    <2>2. CASE x # w
      BY <1>2, <2>2 DEF InviteInv, OneLiveInvitation
    <2> QED
      BY <2>1, <2>2
  <1>5. PagesFit'
    <2>1. \A g \in Pages : page[g] # NoPage => page[g].of \in DOMAIN invitation'[page[g].tenant]
      <3> SUFFICES ASSUME NEW g \in Pages, page[g] # NoPage
                   PROVE  page[g].of \in DOMAIN invitation'[page[g].tenant]
        OBVIOUS
      <3>1. page[g].tenant \in Tenants /\ page[g].of \in DOMAIN invitation[page[g].tenant]
        BY PageFields DEF InviteInv
      <3>2. CASE page[g].tenant = w
        <4>1. DOMAIN invitation[w] = 1..Len(invitation[w]) /\ Len(invitation[w]) \in Nat
          BY <1>0
        <4>2. DOMAIN s = 1..Len(s) /\ Len(s) \in Nat
          OBVIOUS
        <4> QED
          BY <1>1, <3>1, <3>2, <4>1, <4>2
      <3>3. CASE page[g].tenant # w
        BY <1>2, <3>1, <3>3
      <3> QED
        BY <3>2, <3>3
    <2> QED
      BY <2>1 DEF InviteInv, PagesFit
  <1>6. InvitedMembers'
    BY <1>1, <1>2 DEF InviteInv, InvitedMembers
  <1>7. PasswordChosenOnce' /\ ChosenMeansReady'
    BY DEF InviteInv, PasswordChosenOnce, ChosenMeansReady
  <1> QED
    BY <1>3, <1>4, <1>5, <1>6, <1>7 DEF InviteInv

\* Steps that change one letter without revoking it: expiry and acceptance.
LEMMA OneLetterChanged ==
    ASSUME InviteInv, NEW w \in Tenants, NEW i \in DOMAIN invitation[w],
           NEW x \in Letter, x.state # "revoked", invitation[w][i].state # "revoked"
    PROVE  LET s == [invitation[w] EXCEPT ![i] = x] IN
           /\ s \in Seq(Letter) /\ Len(s) = Len(invitation[w]) /\ s # <<>> /\ s[i] = x
           /\ \A j \in DOMAIN invitation[w] : j # i => s[j] = invitation[w][j]
           /\ \A j \in 1..Len(s) : (s[j].state = "revoked") <=> j < Len(s)
           /\ DOMAIN s = DOMAIN invitation[w]
  <1> DEFINE s == [invitation[w] EXCEPT ![i] = x]
  <1>0. invitation[w] \in Seq(Letter)
    BY DEF InviteInv, InviteTypeOK
  <1>1. /\ s \in Seq(Letter) /\ Len(s) = Len(invitation[w]) /\ s[i] = x
        /\ \A j \in DOMAIN invitation[w] : j # i => s[j] = invitation[w][j]
        /\ DOMAIN s = DOMAIN invitation[w]
    BY <1>0, ExceptSeq
  <1>2. DOMAIN s = 1..Len(s) /\ Len(s) \in Nat
    BY <1>1
  <1>3. s # <<>>
    BY <1>1
  <1>4. \A j \in 1..Len(s) : (s[j].state = "revoked") <=> j < Len(s)
    <2> SUFFICES ASSUME NEW j \in 1..Len(s)
                 PROVE  (s[j].state = "revoked") <=> j < Len(s)
      OBVIOUS
    <2>1. (invitation[w][j].state = "revoked") <=> j < Len(invitation[w])
      BY <1>1, <1>2 DEF InviteInv, OneLiveInvitation
    <2>2. CASE j = i
      BY <1>1, <2>1, <2>2
    <2>3. CASE j # i
      BY <1>1, <1>2, <2>1, <2>3
    <2> QED
      BY <2>2, <2>3
  <1> QED
    BY <1>1, <1>3, <1>4

-----------------------------------------------------------------------------
\* What a step does to acceptance: nothing is accepted, or the latest invitation of
\* one membership is, with the role it was issued for.
AsApproved ==
    \A w \in Tenants : \A i \in DOMAIN invitation[w] :
        invitation'[w][i].state = "accepted" /\ invitation[w][i].state # "accepted" =>
            invitation[w][i].role = member'[w].role /\ member'[w].active

StayedOut ==
    \A w \in Tenants :
        /\ \E i \in DOMAIN invitation[w] : invitation[w][i].state = "accepted"
        /\ ~member[w].active /\ member'[w].active
        => UNCHANGED invitation

LEMMA InviteStep ==
    ASSUME InviteInv, NEW w \in Tenants, NEW role \in Roles, Invite(w, role)
    PROVE  InviteInv' /\ AsApproved /\ StayedOut
  <1>1. invitation[w] = <<>> /\ invitation \in [Tenants -> Seq(Letter)]
    BY DEF Invite, InviteInv, InvitedMembers, InviteTypeOK
  <1>2. DOMAIN invitation[w] = {} /\ Len(invitation[w]) = 0
    BY <1>1
  <1>3. /\ Issued(w, role) \in Seq(Letter) /\ Len(Issued(w, role)) = 1
        /\ Issued(w, role)[1].state = "pending"
    <2>1. \A i \in DOMAIN invitation[w] : invitation[w][i].state # "accepted"
      BY <1>2
    <2>2. InviteTypeOK
      BY DEF InviteInv
    <2>3. /\ Issued(w, role) \in Seq(Letter)
          /\ Len(Issued(w, role)) = Len(invitation[w]) + 1
          /\ Issued(w, role)[Len(invitation[w]) + 1].state = "pending"
      BY <2>1, <2>2, IssuedAlone
    <2> QED
      BY <1>2, <2>3
  <1>4. \A i \in 1..Len(Issued(w, role)) :
            (Issued(w, role)[i].state = "revoked") <=> i < Len(Issued(w, role))
    BY <1>3
  <1>5. /\ member' \in [Tenants -> [there : BOOLEAN, active : BOOLEAN, role : Roles]]
        /\ member'[w].there
        /\ \A x \in Tenants \ {w} : member'[x] = member[x]
    BY DEF Invite, InviteInv, InviteTypeOK
  <1>6. account' \in {"unknown", "new", "ready"} /\ (account = "ready" => account' = "ready")
    BY DEF Invite, InviteInv, InviteTypeOK
  <1>7. invitation' = [invitation EXCEPT ![w] = Issued(w, role)] /\ UNCHANGED <<page, chosenBy>>
    BY DEF Invite
  <1>8. Issued(w, role) # <<>> /\ Len(invitation[w]) <= Len(Issued(w, role))
    <2> DEFINE s == Issued(w, role)
    <2>1. s \in Seq(Letter) /\ Len(s) = 1
      BY <1>3
    <2> HIDE DEF s
    <2>2. s # <<>>
      BY <2>1
    <2> QED
      BY <1>2, <2>1, <2>2 DEF s
  <1>9. InviteInv'
    BY <1>3, <1>4, <1>5, <1>6, <1>7, <1>8, RewrittenInvitations
  <1>10. \A x \in Tenants : x # w => invitation'[x] = invitation[x] /\ member'[x] = member[x]
    BY <1>1, <1>5, <1>7
  <1> QED
    BY <1>2, <1>9, <1>10 DEF AsApproved, StayedOut

LEMMA ResendStep ==
    ASSUME InviteInv, NEW w \in Tenants, Resend(w)
    PROVE  InviteInv' /\ AsApproved /\ StayedOut
  <1>1. invitation \in [Tenants -> Seq(Letter)] /\ invitation[w] # <<>>
    BY DEF Resend, Resendable, InviteInv, InvitedMembers, InviteTypeOK
  <1>2. /\ Len(invitation[w]) \in Nat \ {0} /\ Len(invitation[w]) \in DOMAIN invitation[w]
        /\ DOMAIN invitation[w] = 1..Len(invitation[w])
    BY <1>1
  <1>3. \A i \in DOMAIN invitation[w] : invitation[w][i].state # "accepted"
    <2>1. invitation[w][Len(invitation[w])].state = "pending"
      BY DEF Resend, Resendable, Latest
    <2>2. \A i \in DOMAIN invitation[w] :
              invitation[w][i].state # "revoked" => i = Len(invitation[w])
      BY <1>2, <2>1, OneCounts DEF InviteInv
    <2> QED
      BY <2>1, <2>2
  <1>4. member[w].role \in Roles /\ member[w].there
    BY MemberFields DEF InviteInv, Resend, Resendable
  <1> DEFINE s == Issued(w, member[w].role)
  <1>5. /\ s \in Seq(Letter) /\ Len(s) = Len(invitation[w]) + 1
        /\ \A i \in DOMAIN invitation[w] : s[i].state = "revoked"
        /\ s[Len(invitation[w]) + 1].state = "pending"
    BY <1>3, <1>4, IssuedAlone DEF InviteInv
  <1>6. invitation' = [invitation EXCEPT ![w] = s] /\ UNCHANGED <<account, member, page, chosenBy>>
    BY DEF Resend
  <1> HIDE DEF s
  <1>7. \A i \in 1..Len(s) : (s[i].state = "revoked") <=> i < Len(s)
    <2> SUFFICES ASSUME NEW i \in 1..Len(s)
                 PROVE  (s[i].state = "revoked") <=> i < Len(s)
      OBVIOUS
    <2>1. CASE i = Len(s)
      BY <1>2, <1>5, <2>1
    <2>2. CASE i # Len(s)
      <3>1. i \in DOMAIN invitation[w] /\ i < Len(s)
        BY <1>2, <1>5, <2>2
      <3> QED
        BY <1>5, <3>1
    <2> QED
      BY <2>1, <2>2
  <1>8. s # <<>> /\ Len(invitation[w]) <= Len(s)
    BY <1>2, <1>5
  <1>9. InviteInv'
    <2>1. /\ member' \in [Tenants -> [there : BOOLEAN, active : BOOLEAN, role : Roles]]
          /\ account' \in {"unknown", "new", "ready"} /\ account' = account /\ member' = member
      BY <1>6 DEF InviteInv, InviteTypeOK
    <2> QED
      BY <1>4, <1>5, <1>6, <1>7, <1>8, <2>1, RewrittenInvitations
  <1>10. AsApproved
    <2> SUFFICES ASSUME NEW x \in Tenants, NEW i \in DOMAIN invitation[x],
                        invitation'[x][i].state = "accepted"
                 PROVE  invitation[x][i].state = "accepted"
      BY DEF AsApproved
    <2>1. x # w
      BY <1>1, <1>5, <1>6
    <2> QED
      BY <1>1, <1>6, <2>1
  <1>11. StayedOut
    BY <1>6 DEF StayedOut
  <1> QED
    BY <1>9, <1>10, <1>11

LEMMA ExpireStep ==
    ASSUME InviteInv, NEW w \in Tenants, NEW i \in 1..MaxInvitations, Expire(w, i)
    PROVE  InviteInv' /\ AsApproved /\ StayedOut
  <1>1. invitation \in [Tenants -> Seq(Letter)] /\ i \in DOMAIN invitation[w]
    BY DEF Expire, InviteInv, InviteTypeOK
  <1>2. invitation[w][i].state = "pending" /\ invitation[w][i] \in Letter
    BY <1>1, LetterFields DEF Expire
  <1> DEFINE x == [invitation[w][i] EXCEPT !.expired = TRUE]
             s == [invitation[w] EXCEPT ![i] = x]
  <1>3. x \in Letter /\ x.state = "pending"
    BY <1>2, LetterChanged
  <1>4. invitation' = [invitation EXCEPT ![w] = s] /\ UNCHANGED <<account, member, page, chosenBy>>
    BY <1>1 DEF Expire
  <1> HIDE DEF x
  <1>5. /\ s \in Seq(Letter) /\ Len(s) = Len(invitation[w]) /\ s # <<>> /\ s[i] = x
        /\ \A j \in DOMAIN invitation[w] : j # i => s[j] = invitation[w][j]
        /\ \A j \in 1..Len(s) : (s[j].state = "revoked") <=> j < Len(s)
    BY <1>1, <1>2, <1>3, OneLetterChanged
  <1> HIDE DEF s
  <1>6. Len(invitation[w]) <= Len(s)
    BY <1>1, <1>5
  <1>7. invitation[w] # <<>> /\ member[w].there
    BY <1>1 DEF InviteInv, InvitedMembers
  <1>8. InviteInv'
    <2>1. /\ member' \in [Tenants -> [there : BOOLEAN, active : BOOLEAN, role : Roles]]
          /\ account' \in {"unknown", "new", "ready"} /\ account' = account /\ member' = member
      BY <1>4 DEF InviteInv, InviteTypeOK
    <2> QED
      BY <1>4, <1>5, <1>6, <1>7, <2>1, RewrittenInvitations
  <1>9. AsApproved
    <2> SUFFICES ASSUME NEW y \in Tenants, NEW j \in DOMAIN invitation[y],
                        invitation'[y][j].state = "accepted"
                 PROVE  invitation[y][j].state = "accepted"
      BY DEF AsApproved
    <2>1. CASE y = w
      BY <1>1, <1>3, <1>4, <1>5, <2>1
    <2>2. CASE y # w
      BY <1>1, <1>4, <2>2
    <2> QED
      BY <2>1, <2>2
  <1>10. StayedOut
    BY <1>4 DEF StayedOut
  <1> QED
    BY <1>8, <1>9, <1>10

\* Accepting what is acceptable: the latest invitation, pending until now.
LEMMA AcceptStep ==
    ASSUME InviteInv, NEW w \in Tenants, NEW i \in DOMAIN invitation[w],
           Acceptable(w, i), Accepted(w, i),
           member' \in [Tenants -> [there : BOOLEAN, active : BOOLEAN, role : Roles]],
           \A x \in Tenants : member'[x].there = member[x].there /\ member'[x].role = member[x].role,
           \A x \in Tenants \ {w} : member'[x] = member[x],
           member'[w].active,
           account' \in {"unknown", "new", "ready"}, account = "ready" => account' = "ready"
    PROVE  /\ UNCHANGED <<page, chosenBy>> => InviteInv'
           /\ invitation' \in [Tenants -> Seq(Letter)]
           /\ OneLiveInvitation' /\ InvitedMembers'
           /\ \A x \in Tenants : DOMAIN invitation'[x] = DOMAIN invitation[x]
           /\ AsApproved /\ StayedOut
  <1>1. invitation \in [Tenants -> Seq(Letter)]
    BY DEF InviteInv, InviteTypeOK
  <1>2. /\ invitation[w][i].state = "pending" /\ invitation[w][i] \in Letter
        /\ invitation[w][i].role = member[w].role
    BY <1>1, LetterFields DEF Acceptable
  <1> DEFINE x == [invitation[w][i] EXCEPT !.state = "accepted"]
             s == [invitation[w] EXCEPT ![i] = x]
  <1>3. x \in Letter /\ x.state = "accepted"
    BY <1>2, LetterChanged
  <1>4. invitation' = [invitation EXCEPT ![w] = s]
    BY <1>1 DEF Accepted
  <1> HIDE DEF x
  <1>5. /\ s \in Seq(Letter) /\ Len(s) = Len(invitation[w]) /\ s # <<>> /\ s[i] = x
        /\ \A j \in DOMAIN invitation[w] : j # i => s[j] = invitation[w][j]
        /\ \A j \in 1..Len(s) : (s[j].state = "revoked") <=> j < Len(s)
        /\ DOMAIN s = DOMAIN invitation[w]
    BY <1>1, <1>2, <1>3, OneLetterChanged
  <1> HIDE DEF s
  <1>6. Len(invitation[w]) <= Len(s)
    BY <1>1, <1>5
  <1>7. invitation[w] # <<>> /\ member[w].there
    BY <1>1 DEF InviteInv, InvitedMembers
  <1>8. /\ invitation' \in [Tenants -> Seq(Letter)] /\ invitation'[w] = s
        /\ \A y \in Tenants : y # w => invitation'[y] = invitation[y]
    BY <1>1, <1>4, <1>5
  <1>9. UNCHANGED <<page, chosenBy>> => InviteInv'
    BY <1>4, <1>5, <1>6, <1>7, RewrittenInvitations
  <1>10. OneLiveInvitation'
    <2> SUFFICES ASSUME NEW y \in Tenants, NEW j \in DOMAIN invitation'[y]
                 PROVE  (invitation'[y][j].state = "revoked") <=> j < Len(invitation'[y])
      BY DEF OneLiveInvitation
    <2>1. CASE y = w
      BY <1>5, <1>8, <2>1
    <2>2. CASE y # w
      <3>1. invitation'[y] = invitation[y]
        BY <1>8, <2>2
      <3> QED
        BY <3>1 DEF InviteInv, OneLiveInvitation
    <2> QED
      BY <2>1, <2>2
  <1>11. InvitedMembers'
    BY <1>5, <1>7, <1>8 DEF InviteInv, InvitedMembers
  <1>12. AsApproved
    <2> SUFFICES ASSUME NEW y \in Tenants, NEW j \in DOMAIN invitation[y],
                        invitation'[y][j].state = "accepted", invitation[y][j].state # "accepted"
                 PROVE  invitation[y][j].role = member'[y].role /\ member'[y].active
      BY DEF AsApproved
    <2>1. y = w /\ j = i
      BY <1>5, <1>8
    <2> QED
      BY <1>2, <2>1
  <1>13. StayedOut
    <2> SUFFICES ASSUME NEW y \in Tenants, NEW j \in DOMAIN invitation[y],
                        invitation[y][j].state = "accepted", ~member[y].active, member'[y].active
                 PROVE  FALSE
      BY DEF StayedOut
    <2>1. y = w
      OBVIOUS
    <2>2. j = i
      BY <1>2, <2>1, OneCounts DEF InviteInv
    <2> QED
      BY <1>2, <2>1, <2>2
  <1> QED
    BY <1>5, <1>8, <1>9, <1>10, <1>11, <1>12, <1>13

LEMMA OpenPageStep ==
    ASSUME InviteInv, NEW g \in Pages, NEW w \in Tenants, NEW i \in 1..MaxInvitations,
           OpenPage(g, w, i)
    PROVE  InviteInv' /\ AsApproved /\ StayedOut
  <1> DEFINE shown == [of |-> i, tenant |-> w, chooses |-> account = "new"]
  <1>1. shown \in PageShown /\ shown.of = i /\ shown.tenant = w
    BY DEF PageShown
  <1>2. page' = [page EXCEPT ![g] = shown] /\ UNCHANGED <<account, member, invitation, chosenBy>>
        /\ i \in DOMAIN invitation[w]
    BY DEF OpenPage
  <1> HIDE DEF shown
  <1>3. PagesFit'
    BY <1>1, <1>2 DEF InviteInv, PagesFit
  <1>4. InviteTypeOK'
    <2>1. \A h \in Pages : page'[h].of \in 0..MaxInvitations
      BY <1>1, <1>2 DEF InviteInv, InviteTypeOK, PagesFit
    <2> QED
      BY <1>2, <2>1 DEF InviteInv, InviteTypeOK
  <1> QED
    BY <1>2, <1>3, <1>4 DEF InviteInv, OneLiveInvitation, PasswordChosenOnce, InvitedMembers,
                            ChosenMeansReady, AsApproved, StayedOut

\* A page that closes, whatever else the step does to the letters and the password.
LEMMA ClosedPage ==
    ASSUME InviteInv, NEW g \in Pages, ClosePage(g),
           \A x \in Tenants : DOMAIN invitation'[x] = DOMAIN invitation[x]
    PROVE  PagesFit' /\ \A h \in Pages : page'[h].of \in 0..MaxInvitations
  <1>1. page' = [page EXCEPT ![g] = NoPage] /\ page \in [Pages -> {NoPage} \cup PageShown]
    BY DEF ClosePage, InviteInv, PagesFit
  <1>2. \A h \in Pages : page'[h] # NoPage => page'[h] = page[h]
    BY <1>1
  <1>3. \A h \in Pages : page'[h] # NoPage => page'[h].of \in DOMAIN invitation'[page'[h].tenant]
    BY <1>2, PageFields DEF InviteInv
  <1>4. NoPage.of \in 0..MaxInvitations
    BY InvitationBound DEF NoPage
  <1>5. \A h \in Pages : page'[h].of \in 0..MaxInvitations
    BY <1>1, <1>2, <1>4 DEF InviteInv, InviteTypeOK
  <1> QED
    BY <1>1, <1>3, <1>5 DEF PagesFit

LEMMA LeavePageStep ==
    ASSUME InviteInv, NEW g \in Pages, LeavePage(g)
    PROVE  InviteInv' /\ AsApproved /\ StayedOut
  <1>1. ClosePage(g) /\ UNCHANGED <<account, member, invitation, chosenBy>>
    BY DEF LeavePage
  <1>2. PagesFit' /\ \A h \in Pages : page'[h].of \in 0..MaxInvitations
    BY <1>1, ClosedPage
  <1> QED
    BY <1>1, <1>2 DEF InviteInv, InviteTypeOK, OneLiveInvitation, PasswordChosenOnce,
                      InvitedMembers, ChosenMeansReady, AsApproved, StayedOut

LEMMA JoinStep ==
    ASSUME InviteInv, NEW g \in Pages, Join(g)
    PROVE  InviteInv' /\ AsApproved /\ StayedOut
  <1> DEFINE w == page[g].tenant
             i == page[g].of
  <1>1. w \in Tenants /\ i \in DOMAIN invitation[w]
    BY PageFields DEF Join, InviteInv
  <1>2. /\ Acceptable(w, i) /\ Accepted(w, i) /\ ClosePage(g) /\ UNCHANGED <<account, chosenBy>>
        /\ member' = [member EXCEPT ![w].active = TRUE]
    BY DEF Join
  <1> HIDE DEF w, i
  <1>3. member \in [Tenants -> [there : BOOLEAN, active : BOOLEAN, role : Roles]]
    BY DEF InviteInv, InviteTypeOK
  <1>4. /\ member' \in [Tenants -> [there : BOOLEAN, active : BOOLEAN, role : Roles]]
        /\ \A x \in Tenants : member'[x].there = member[x].there /\ member'[x].role = member[x].role
        /\ \A x \in Tenants \ {w} : member'[x] = member[x]
        /\ member'[w].active
    BY <1>1, <1>2, <1>3
  <1>5. account' \in {"unknown", "new", "ready"} /\ (account = "ready" => account' = "ready")
    BY <1>2 DEF InviteInv, InviteTypeOK
  <1>6. /\ invitation' \in [Tenants -> Seq(Letter)]
        /\ OneLiveInvitation' /\ InvitedMembers'
        /\ \A x \in Tenants : DOMAIN invitation'[x] = DOMAIN invitation[x]
        /\ AsApproved /\ StayedOut
    BY <1>1, <1>2, <1>4, <1>5, AcceptStep
  <1>7. PagesFit' /\ \A h \in Pages : page'[h].of \in 0..MaxInvitations
    BY <1>2, <1>6, ClosedPage
  <1>8. InviteTypeOK' /\ PasswordChosenOnce' /\ ChosenMeansReady'
    BY <1>2, <1>4, <1>6, <1>7 DEF InviteInv, InviteTypeOK, PasswordChosenOnce, ChosenMeansReady
  <1> QED
    BY <1>6, <1>7, <1>8 DEF InviteInv

LEMMA ChoosePasswordStep ==
    ASSUME InviteInv, NEW g \in Pages, ChoosePassword(g)
    PROVE  InviteInv' /\ AsApproved /\ StayedOut
  <1> DEFINE w == page[g].tenant
             i == page[g].of
  <1>1. w \in Tenants /\ i \in DOMAIN invitation[w] /\ i \in 1..MaxInvitations
    BY PageFields DEF ChoosePassword, InviteInv
  <1>2. /\ Acceptable(w, i) /\ Accepted(w, i) /\ ClosePage(g) /\ UNCHANGED member
        /\ member[w].active /\ account = "new" /\ account' = "ready"
        /\ chosenBy' = chosenBy \cup {<<w, i>>}
    BY DEF ChoosePassword, WithoutPassword
  <1> HIDE DEF w, i
  <1>3. /\ member' \in [Tenants -> [there : BOOLEAN, active : BOOLEAN, role : Roles]]
        /\ \A x \in Tenants : member'[x] = member[x]
    BY <1>2 DEF InviteInv, InviteTypeOK
  <1>4. member'[w].active
    BY <1>1, <1>2, <1>3
  <1>5. /\ invitation' \in [Tenants -> Seq(Letter)]
        /\ OneLiveInvitation' /\ InvitedMembers'
        /\ \A x \in Tenants : DOMAIN invitation'[x] = DOMAIN invitation[x]
        /\ AsApproved /\ StayedOut
    BY <1>1, <1>2, <1>3, <1>4, AcceptStep
  <1>6. PagesFit' /\ \A h \in Pages : page'[h].of \in 0..MaxInvitations
    BY <1>2, <1>5, ClosedPage
  <1>7. chosenBy = {}
    BY <1>2 DEF InviteInv, ChosenMeansReady
  <1>8. chosenBy' = {<<w, i>>} /\ chosenBy' \subseteq Tenants \X (1..MaxInvitations)
    BY <1>1, <1>2, <1>7
  <1>9. InviteTypeOK'
    BY <1>2, <1>3, <1>5, <1>6, <1>8 DEF InviteTypeOK
  <1>10. PasswordChosenOnce' /\ ChosenMeansReady'
    BY <1>2, <1>8 DEF PasswordChosenOnce, ChosenMeansReady
  <1> QED
    BY <1>5, <1>6, <1>9, <1>10 DEF InviteInv

LEMMA ChangeStep ==
    ASSUME InviteInv, NEW w \in Tenants, NEW role \in Roles, NEW active \in BOOLEAN,
           ChangeRole(w, role) \/ ChangeStatus(w, active)
    PROVE  InviteInv' /\ AsApproved /\ StayedOut
  <1>1. UNCHANGED <<account, invitation, page, chosenBy>>
    BY DEF ChangeRole, ChangeStatus
  <1>2. /\ member' \in [Tenants -> [there : BOOLEAN, active : BOOLEAN, role : Roles]]
        /\ \A x \in Tenants : member'[x].there = member[x].there
    BY DEF ChangeRole, ChangeStatus, InviteInv, InviteTypeOK
  <1>3. InviteTypeOK' /\ InvitedMembers'
    BY <1>1, <1>2 DEF InviteInv, InviteTypeOK, InvitedMembers
  <1> QED
    BY <1>1, <1>3 DEF InviteInv, OneLiveInvitation, PasswordChosenOnce, PagesFit,
                      ChosenMeansReady, AsApproved, StayedOut

LEMMA InviteInvStep ==
    InviteInv /\ [InviteNext]_inviteVars => InviteInv' /\ AsApproved /\ StayedOut
  <1> SUFFICES ASSUME InviteInv, [InviteNext]_inviteVars
               PROVE  InviteInv' /\ AsApproved /\ StayedOut
    OBVIOUS
  <1>1. CASE UNCHANGED inviteVars
    BY <1>1 DEF inviteVars, InviteInv, InviteTypeOK, OneLiveInvitation, PasswordChosenOnce, PagesFit,
                InvitedMembers, ChosenMeansReady, AsApproved, StayedOut
  <1>2. CASE InviteNext
    <2>1. CASE \E w \in Tenants, role \in Roles : Invite(w, role)
      BY <2>1, InviteStep
    <2>2. CASE \E w \in Tenants, role \in Roles, active \in BOOLEAN :
                   ChangeRole(w, role) \/ ChangeStatus(w, active)
      BY <2>2, ChangeStep
    <2>3. CASE \E w \in Tenants : Resend(w)
      BY <2>3, ResendStep
    <2>4. CASE \E w \in Tenants, i \in 1..MaxInvitations : Expire(w, i)
      BY <2>4, ExpireStep
    <2>5. CASE \E g \in Pages, w \in Tenants, i \in 1..MaxInvitations : OpenPage(g, w, i)
      BY <2>5, OpenPageStep
    <2>6. CASE \E g \in Pages : Join(g)
      BY <2>6, JoinStep
    <2>7. CASE \E g \in Pages : ChoosePassword(g)
      BY <2>7, ChoosePasswordStep
    <2>8. CASE \E g \in Pages : LeavePage(g)
      BY <2>8, LeavePageStep
    <2> QED
      BY <1>2, <2>1, <2>2, <2>3, <2>4, <2>5, <2>6, <2>7, <2>8, RolesGiven DEF InviteNext
  <1> QED
    BY <1>1, <1>2

\* However invitations are issued, opened and submitted, only the latest one of a
\* membership counts, the first password is chosen once, and a membership starts as
\* it was approved and does not come back by itself (users/invitations.py).
THEOREM InvitationsSound == InviteSpec => InvitationsAreSound
  <1>1. InviteInit => InviteInv
    BY InviteInitHolds
  <1>2. InviteInv /\ [InviteNext]_inviteVars => InviteInv'
    BY InviteInvStep
  <1>3. InviteInv => InviteTypeOK /\ OneLiveInvitation /\ PasswordChosenOnce
    BY DEF InviteInv
  <1>4. InviteInv /\ [InviteNext]_inviteVars =>
            [\A w \in Tenants : \A i \in DOMAIN invitation[w] :
                invitation'[w][i].state = "accepted" /\ invitation[w][i].state # "accepted" =>
                    invitation[w][i].role = member'[w].role /\ member'[w].active]_inviteVars
    BY InviteInvStep DEF AsApproved
  <1>5. InviteInv /\ [InviteNext]_inviteVars =>
            [\A w \in Tenants :
                /\ \E i \in DOMAIN invitation[w] : invitation[w][i].state = "accepted"
                /\ ~member[w].active /\ member'[w].active
                => UNCHANGED invitation]_inviteVars
    BY InviteInvStep DEF StayedOut
  <1> QED
    BY <1>1, <1>2, <1>3, <1>4, <1>5, PTL
       DEF InviteSpec, InvitationsAreSound, JoinedAsApproved, LeaversStayOut

-----------------------------------------------------------------------------
(* The inductive invariant: grants are those of a membership there is, a request  *)
(* belongs to somebody who is a member, what is kept under the key of a session is *)
(* its user's, and a request that runs alone finds what the middleware read.       *)
Seat == [there : BOOLEAN, active : BOOLEAN, role : {"super", "manager", "sales"}]
Session == [actor : Users, key : SessionKeys, tenant : Companies, open : BOOLEAN]
SessionData == [at : {"unused", "open", "ended"}, by : Users \cup {Nobody},
                tenant : Companies \cup {Nowhere}, support : 0..MaxSupport]
Request == [at : {"admitted", "opening"}, by : Users, key : SessionKeys, home : Companies,
            role : {"super", "manager", "sales"}, tenant : Companies \cup {Nowhere}]

AccessTyped ==
    /\ membership \in [Users -> [Companies -> Seat]]
    /\ grants \in [Users -> [Companies -> SUBSET Grant]]
    /\ profile \in [Users -> [tenant : Companies \cup {Nowhere}, role : {"manager", "sales"}]]
    /\ superusers \subseteq Users
    /\ browser \in [SessionKeys -> SessionData]
    /\ support \in Seq(Session) /\ Len(support) <= MaxSupport
    /\ action \in [Actions -> {NoAction} \cup Request]
    /\ accessInTurn \in BOOLEAN

SeatsAreThere ==
    \A u \in Users, w \in Companies :
        /\ membership[u][w].active => membership[u][w].there
        /\ grants[u][w] # {} => membership[u][w].there

RequestsAreMembers ==
    \A q \in Actions : action[q] # NoAction => membership[action[q].by][action[q].home].there

OwnersFit ==
    /\ \A n \in DOMAIN support :
          browser[support[n].key].at # "unused" /\ support[n].actor = browser[support[n].key].by
    /\ \A q \in Actions : action[q] # NoAction =>
          browser[action[q].key].at # "unused" /\ action[q].by = browser[action[q].key].by
    /\ \A k \in SessionKeys : browser[k].at # "unused" => browser[k].by \in Users

OneAtATime ==
    accessInTurn => \A p, q \in Actions : action[p] # NoAction /\ action[q] # NoAction => p = q

OpeningIsAlone ==
    accessInTurn => \A q \in Actions : action[q].at = "opening" =>
        \A n \in DOMAIN support : support[n].key = action[q].key => ~support[n].open

\* What the middleware read, of a request.
AsRead(a) ==
    /\ membership[a.by][a.home].active /\ membership[a.by][a.home].role = a.role
    /\ browser[a.key].at = "open"
    /\ a.role = "super" /\ a.at = "admitted" /\ a.tenant # Nowhere =>
           \E n \in SupportOf(a.by, a.key) : support[n].tenant = a.tenant
    /\ a.role # "super" => a.tenant = a.home

StillAsRead == accessInTurn => \A q \in Actions : action[q] # NoAction => AsRead(action[q])

AccessInv ==
    /\ AccessTyped /\ SeatsAreThere /\ GrantsAreVisible /\ OneSupportSession
    /\ RequestsAreMembers /\ OwnersFit /\ OneAtATime /\ OpeningIsAlone /\ StillAsRead

\* What a step may do to the members of a workspace.
ByManager(w) ==
    \E q \in Actions : action[q].at # "idle" /\ action[q].tenant = w /\ MayManage(action[q].by, action[q].key, w)
Changed ==
    accessInTurn => \A u \in Users, w \in Companies :
        membership[u][w].there /\ <<membership[u][w], grants[u][w]>>' # <<membership[u][w], grants[u][w]>>
        => ByManager(w)
Remained ==
    accessInTurn => \A w \in Companies :
        Managers(w) # {} /\ Managers(w)' = {} =>
            \E q \in Actions : action[q].at # "idle" /\ action[q].role = "super"

LEMMA SeatFields ==
    ASSUME AccessTyped, NEW u \in Users, NEW w \in Companies
    PROVE  /\ membership[u][w] \in Seat /\ membership[u][w].there \in BOOLEAN
           /\ membership[u][w].active \in BOOLEAN
           /\ membership[u][w].role \in {"super", "manager", "sales"}
  BY DEF AccessTyped, Seat

LEMMA RequestFields ==
    ASSUME AccessTyped, NEW q \in Actions, action[q].at # "idle"
    PROVE  /\ action[q] \in Request /\ action[q] # NoAction
           /\ action[q].at \in {"admitted", "opening"} /\ action[q].by \in Users
           /\ action[q].home \in Companies /\ action[q].tenant \in Companies \cup {Nowhere}
           /\ action[q].key \in SessionKeys /\ action[q].role \in {"super", "manager", "sales"}
  BY DEF AccessTyped, Request, NoAction

LEMMA IdleOrNot ==
    ASSUME AccessTyped, NEW q \in Actions
    PROVE  action[q] = NoAction <=> action[q].at = "idle"
  <1>1. action[q] = NoAction => action[q].at = "idle"
    BY DEF NoAction
  <1>2. action[q] \in Request => action[q].at # "idle"
    BY DEF Request
  <1>3. action[q] \in {NoAction} \cup Request
    BY DEF AccessTyped
  <1> QED
    BY <1>1, <1>2, <1>3

LEMMA SessionFields ==
    ASSUME AccessTyped, NEW n \in DOMAIN support
    PROVE  /\ support[n] \in Session /\ support[n].actor \in Users
           /\ support[n].key \in SessionKeys
           /\ support[n].tenant \in Companies /\ support[n].open \in BOOLEAN
           /\ n \in 1..Len(support)
  <1>1. support[n] \in Session /\ n \in 1..Len(support)
    BY SeqDef, ElementOfSeq DEF AccessTyped
  <1> QED
    BY <1>1 DEF Session

LEMMA TypedIsTypeOK == AccessTyped => AccessTypeOK
  <1> SUFFICES ASSUME AccessTyped PROVE AccessTypeOK
    OBVIOUS
  <1>1. \A u \in Users, w \in Companies : membership[u][w] \in Seat /\ grants[u][w] \subseteq Grant
    BY DEF AccessTyped
  <1>2. \A q \in Actions : action[q].at \in {"idle", "admitted", "opening"}
    BY DEF AccessTyped, Request, NoAction
  <1> QED
    BY <1>1, <1>2 DEF AccessTypeOK, AccessTyped, Seat, Session, SessionData

-----------------------------------------------------------------------------
LEMMA AccessInitHolds == AccessInit => AccessInv
  <1> SUFFICES ASSUME AccessInit PROVE AccessInv
    OBVIOUS
  <1> PICK f \in Founders :
          /\ superusers = f.superusers /\ membership = f.membership /\ profile = f.profile
          /\ browser = [k \in SessionKeys |-> IF f.signedIn[k] = Nobody THEN Unused
                                             ELSE SignedIn(f.signedIn[k])]
    BY DEF AccessInit
  <1> DEFINE Past == {Absent} \cup [there : {TRUE}, active : BOOLEAN, role : {"manager", "sales"}]
  <1>1. /\ superusers \subseteq Users
        /\ membership \in [Users -> [Companies -> Past]]
        /\ profile \in [Users -> [tenant : Companies \cup {Nowhere}, role : {"manager", "sales"}]]
    BY AccessAssumption
  <1>2. \A m \in Past : m \in Seat /\ (m.active => m.there)
    <2>1. Absent \in Seat /\ ~Absent.active
      BY DEF Seat, Absent
    <2>2. \A m \in [there : {TRUE}, active : BOOLEAN, role : {"manager", "sales"}] : m \in Seat /\ m.there
      BY DEF Seat
    <2> QED
      BY <2>1, <2>2
  <1> HIDE DEF Past
  <1>3. membership \in [Users -> [Companies -> Seat]]
    BY <1>1, <1>2
  <1>4. \A q \in Actions : action[q] = NoAction
    BY DEF AccessInit
  <1>5. AccessTyped
    <2>1. browser \in [SessionKeys -> SessionData]
      <3>1. Unused \in SessionData /\ \A u \in Users : SignedIn(u) \in SessionData
        BY AccessAssumption DEF Unused, SignedIn, SessionData
      <3>2. \A k \in SessionKeys : f.signedIn[k] # Nobody => f.signedIn[k] \in Users
        BY AccessAssumption
      <3> QED
        BY <3>1, <3>2
    <2>2. support \in Seq(Session) /\ Len(support) = 0
      BY DEF AccessInit
    <2>3. Len(support) <= MaxSupport
      BY <2>2, AccessAssumption
    <2> QED
      BY <1>1, <1>3, <2>1, <2>2, <2>3 DEF AccessInit, AccessTyped
  <1>6. \A u \in Users, w \in Companies : grants[u][w] = {}
    BY DEF AccessInit
  <1>7. SeatsAreThere
    BY <1>1, <1>2, <1>6 DEF SeatsAreThere
  <1>8. GrantsAreVisible
    BY <1>6 DEF GrantsAreVisible
  <1>9. DOMAIN support = {}
    BY DEF AccessInit
  <1>10. \A k \in SessionKeys : browser[k].at # "unused" => browser[k].by \in Users
    <2>1. \A k \in SessionKeys : f.signedIn[k] # Nobody => f.signedIn[k] \in Users
      BY AccessAssumption
    <2> QED
      BY <2>1 DEF Unused, SignedIn
  <1>11. OwnersFit
    BY <1>4, <1>9, <1>10 DEF OwnersFit
  <1> QED
    BY <1>4, <1>5, <1>7, <1>8, <1>9, <1>11 DEF AccessInv, OneSupportSession, RequestsAreMembers,
       OneAtATime, OpeningIsAlone, StillAsRead

-----------------------------------------------------------------------------
\* Requests that change nobody's seat: what stays true whatever else they do.
LEMMA SeatsUntouched ==
    ASSUME AccessInv, UNCHANGED <<membership, grants>>
    PROVE  SeatsAreThere' /\ GrantsAreVisible' /\ Changed /\ Remained
  BY DEF AccessInv, SeatsAreThere, GrantsAreVisible, Changed, Remained, Managers

\* Sessions that begin, end or are saved: a session that was ever used keeps its user.
SessionsStay ==
    \A k \in SessionKeys : browser[k].at # "unused" =>
        browser'[k].at # "unused" /\ browser'[k].by = browser[k].by

LEMMA OwnersStay ==
    ASSUME AccessInv, SessionsStay,
           \A k \in SessionKeys : browser'[k].at # "unused" => browser'[k].by \in Users,
           \A n \in DOMAIN support' :
               \/ /\ n \in DOMAIN support
                  /\ support'[n].key = support[n].key /\ support'[n].actor = support[n].actor
               \/ /\ support'[n].key \in SessionKeys /\ browser[support'[n].key].at # "unused"
                  /\ support'[n].actor = browser[support'[n].key].by,
           \A p \in Actions : action'[p] # NoAction =>
               \/ /\ action[p] # NoAction
                  /\ action'[p].key = action[p].key /\ action'[p].by = action[p].by
               \/ /\ action'[p].key \in SessionKeys /\ browser[action'[p].key].at # "unused"
                  /\ action'[p].by = browser[action'[p].key].by
    PROVE  OwnersFit'
  <1>1. ASSUME NEW n \in DOMAIN support'
        PROVE  browser'[support'[n].key].at # "unused" /\ support'[n].actor = browser'[support'[n].key].by
    <2>1. ASSUME n \in DOMAIN support, support'[n].key = support[n].key,
                 support'[n].actor = support[n].actor
          PROVE  /\ support'[n].key \in SessionKeys /\ browser[support'[n].key].at # "unused"
                 /\ support'[n].actor = browser[support'[n].key].by
      BY <2>1, SessionFields DEF AccessInv, OwnersFit
    <2> QED
      BY <1>1, <2>1 DEF SessionsStay
  <1>2. ASSUME NEW p \in Actions, action'[p] # NoAction
        PROVE  browser'[action'[p].key].at # "unused" /\ action'[p].by = browser'[action'[p].key].by
    <2>1. ASSUME action[p] # NoAction, action'[p].key = action[p].key, action'[p].by = action[p].by
          PROVE  /\ action'[p].key \in SessionKeys /\ browser[action'[p].key].at # "unused"
                 /\ action'[p].by = browser[action'[p].key].by
      BY <2>1, IdleOrNot, RequestFields DEF AccessInv, OwnersFit
    <2> QED
      BY <1>2, <2>1 DEF SessionsStay
  <1> QED
    BY <1>1, <1>2 DEF OwnersFit

\* A session that is saved with another tenant or support session.
LEMMA SavedSession ==
    ASSUME AccessInv, NEW k \in SessionKeys, NEW data \in SessionData,
           data.at = browser[k].at, data.by = browser[k].by, SaveSession(k, data)
    PROVE  /\ browser' \in [SessionKeys -> SessionData] /\ SessionsStay
           /\ browser[k].at = "open" => browser'[k] = data
           /\ \A j \in SessionKeys : j # k => browser'[j] = browser[j]
           /\ \A j \in SessionKeys : browser'[j].at = browser[j].at /\ browser'[j].by = browser[j].by
           /\ \A j \in SessionKeys : browser'[j].at # "unused" => browser'[j].by \in Users
  <1>1. browser \in [SessionKeys -> SessionData]
    BY DEF AccessInv, AccessTyped
  <1>2. /\ browser' \in [SessionKeys -> SessionData]
        /\ browser[k].at = "open" => browser'[k] = data
        /\ \A j \in SessionKeys : j # k => browser'[j] = browser[j]
    BY <1>1 DEF SaveSession
  <1>3. browser'[k] = data \/ browser'[k] = browser[k]
    BY <1>1 DEF SaveSession
  <1>4. \A j \in SessionKeys : browser'[j].at = browser[j].at /\ browser'[j].by = browser[j].by
    BY <1>2, <1>3
  <1> QED
    BY <1>2, <1>4 DEF SessionsStay, AccessInv, OwnersFit

\* The end of a request, whatever else it does.
LEMMA EndedRequest ==
    ASSUME AccessInv, NEW q \in Actions, EndAction(q), UNCHANGED accessInTurn
    PROVE  /\ action' \in [Actions -> {NoAction} \cup Request]
           /\ \A p \in Actions : action'[p] # NoAction => action'[p] = action[p]
           /\ \A p \in Actions : action'[p].at = "opening" => action'[p] = action[p] /\ p # q
           /\ action'[q] = NoAction /\ OneAtATime'
           /\ accessInTurn /\ action[q] # NoAction => \A p \in Actions : action'[p] = NoAction
  <1>1. action \in [Actions -> {NoAction} \cup Request]
    BY DEF AccessInv, AccessTyped
  <1>2. action' = [action EXCEPT ![q] = NoAction]
    BY DEF EndAction
  <1>3. NoAction.at # "opening"
    BY DEF NoAction
  <1>4. \A p \in Actions : action'[p] # NoAction => action'[p] = action[p] /\ p # q
    BY <1>1, <1>2
  <1>5. \A p \in Actions : action'[p].at = "opening" => action'[p] = action[p] /\ p # q
    BY <1>3, <1>4
  <1>6. OneAtATime'
    BY <1>4 DEF AccessInv, OneAtATime
  <1>7. ASSUME accessInTurn, action[q] # NoAction PROVE \A p \in Actions : action'[p] = NoAction
    BY <1>4, <1>7 DEF AccessInv, OneAtATime
  <1> QED
    BY <1>1, <1>2, <1>4, <1>5, <1>6, <1>7

\* What the middleware makes of the memberships: who was there keeps the seat.
Joined(u) ==
    [w \in Companies |-> IF Bridged(u, w)
                         THEN [there |-> TRUE, active |-> TRUE, role |-> BridgeRole(u)]
                         ELSE membership[u][w]]

LEMMA JoinedSeats ==
    ASSUME AccessInv, NEW u \in Users
    PROVE  /\ Joined(u) \in [Companies -> Seat]
           /\ \A w \in Companies : membership[u][w].there => Joined(u)[w] = membership[u][w]
           /\ \A w \in Companies : Joined(u)[w].active => Joined(u)[w].there
  <1>1. BridgeRole(u) \in {"super", "manager", "sales"}
    BY DEF BridgeRole, AccessInv, AccessTyped
  <1>2. [there |-> TRUE, active |-> TRUE, role |-> BridgeRole(u)] \in Seat
    BY <1>1 DEF Seat
  <1>3. \A w \in Companies : membership[u][w] \in Seat
    BY DEF AccessInv, AccessTyped
  <1>4. Joined(u) \in [Companies -> Seat]
    BY <1>2, <1>3 DEF Joined
  <1>5. \A w \in Companies : membership[u][w].there => Joined(u)[w] = membership[u][w]
    BY DEF Joined, Bridged
  <1>6. \A w \in Companies : Joined(u)[w].active => Joined(u)[w].there
    <2> SUFFICES ASSUME NEW w \in Companies, Joined(u)[w].active PROVE Joined(u)[w].there
      OBVIOUS
    <2>1. CASE Bridged(u, w)
      BY <2>1 DEF Joined
    <2>2. CASE ~Bridged(u, w)
      BY <2>2 DEF Joined, AccessInv, SeatsAreThere
    <2> QED
      BY <2>1, <2>2
  <1> QED
    BY <1>4, <1>5, <1>6

\* A user who joins by the bridge: seats, grants and managers stay as they were.
LEMMA JoinedUser ==
    ASSUME AccessInv, NEW u \in Users, membership' = [membership EXCEPT ![u] = Joined(u)],
           UNCHANGED <<grants, accessInTurn>>
    PROVE  /\ membership' \in [Users -> [Companies -> Seat]]
           /\ membership'[u] = Joined(u)
           /\ \A v \in Users, w \in Companies :
                 membership[v][w].there => membership'[v][w] = membership[v][w]
           /\ SeatsAreThere' /\ GrantsAreVisible' /\ Changed /\ Remained
  <1>1. membership \in [Users -> [Companies -> Seat]]
    BY DEF AccessInv, AccessTyped
  <1>2. membership' \in [Users -> [Companies -> Seat]] /\ membership'[u] = Joined(u)
    BY <1>1, JoinedSeats
  <1>3. \A v \in Users : v # u => membership'[v] = membership[v]
    BY <1>1
  <1>4. \A v \in Users, w \in Companies :
            membership[v][w].there => membership'[v][w] = membership[v][w]
    BY <1>2, <1>3, JoinedSeats
  <1>5. SeatsAreThere'
    <2>1. \A v \in Users, w \in Companies : membership'[v][w].active => membership'[v][w].there
      BY <1>2, <1>3, JoinedSeats DEF AccessInv, SeatsAreThere
    <2>2. \A v \in Users, w \in Companies : grants[v][w] # {} => membership'[v][w].there
      BY <1>4 DEF AccessInv, SeatsAreThere
    <2> QED
      BY <2>1, <2>2 DEF SeatsAreThere
  <1>6. GrantsAreVisible'
    <2> SUFFICES ASSUME NEW v \in Users, NEW w \in Companies, NEW g \in grants[v][w]
                 PROVE  /\ membership'[v][w].role # "manager"
                        /\ g.code \in Delegable /\ g.by # v /\ membership'[g.by][w].there
      BY DEF GrantsAreVisible
    <2>1. /\ membership[v][w].role # "manager" /\ g.code \in Delegable /\ g.by # v
          /\ membership[g.by][w].there /\ membership[v][w].there
      BY DEF AccessInv, GrantsAreVisible, SeatsAreThere
    <2>2. g.by \in Users
      BY DEF AccessInv, AccessTyped, Grant
    <2> QED
      BY <1>4, <2>1, <2>2
  <1>7. Changed
    BY <1>4 DEF Changed
  <1>8. Remained
    <2> SUFFICES ASSUME NEW w \in Companies, Managers(w) # {} PROVE Managers(w)' # {}
      BY DEF Remained
    <2>1. PICK m \in Users : membership[m][w].active /\ membership[m][w].role = "manager"
      BY DEF Managers
    <2>2. membership'[m][w] = membership[m][w]
      BY <1>4, <2>1 DEF AccessInv, SeatsAreThere
    <2> QED
      BY <2>1, <2>2 DEF Managers
  <1> QED
    BY <1>2, <1>4, <1>5, <1>6, <1>7, <1>8

\* Who runs alone: the request a step belongs to finds what it read, the rest is idle.
LEMMA AloneAsRead ==
    ASSUME AccessInv, NEW q \in Actions, action[q].at # "idle", accessInTurn
    PROVE  AsRead(action[q]) /\ \A p \in Actions \ {q} : action[p] = NoAction
  BY IdleOrNot DEF AccessInv, StillAsRead, OneAtATime

\* The requests that are served: the home is a seat taken.
LEMMA AdmitStep ==
    ASSUME AccessInv, NEW q \in Actions, NEW k \in SessionKeys, Admit(q, k)
    PROVE  AccessInv' /\ Changed /\ Remained
  <1> DEFINE u == browser[k].by
  <1>u. browser[k].at = "open" /\ u \in Users
    BY DEF Admit, AccessInv, OwnersFit
  <1> DEFINE mine == {w \in Companies : Joined(u)[w].active}
             seen == IF SupportOf(u, k) = {} THEN Nowhere ELSE support[browser[k].support].tenant
             served(home, tenant) == [at |-> "admitted", by |-> u, key |-> k, home |-> home,
                                      role |-> Joined(u)[home].role, tenant |-> tenant]
  <1>1. /\ action[q] = NoAction
        /\ accessInTurn => \A p \in Actions : action[p] = NoAction
        /\ membership' = [membership EXCEPT ![u] = Joined(u)]
        /\ UNCHANGED <<grants, profile, superusers, support, accessInTurn>>
    BY DEF Admit, Joined, InTurn
  <1>2. \/ mine = {} /\ UNCHANGED <<action, browser>>
        \/ \E home \in mine :
              /\ Joined(u)[home].role = "super"
              /\ action' = [action EXCEPT ![q] = served(home, seen)]
              /\ browser' = [browser EXCEPT ![k].support = IF SupportOf(u, k) = {} THEN 0 ELSE @]
        \/ \E home \in mine :
              /\ Joined(u)[home].role # "super"
              /\ action' = [action EXCEPT ![q] = served(home, home)]
              /\ browser' = [browser EXCEPT ![k].tenant = home]
    BY Zenon DEF Admit, Joined
  <1>3. /\ membership' \in [Users -> [Companies -> Seat]]
        /\ membership'[u] = Joined(u)
        /\ \A v \in Users, w \in Companies :
              membership[v][w].there => membership'[v][w] = membership[v][w]
        /\ SeatsAreThere' /\ GrantsAreVisible' /\ Changed /\ Remained
    BY <1>1, <1>u, JoinedUser
  <1>4. SupportOf(u, k) \subseteq DOMAIN support /\ \A n \in SupportOf(u, k) : n = browser[k].support
    BY DEF SupportOf, Named
  <1>5. seen \in Companies \cup {Nowhere}
    <2>1. CASE SupportOf(u, k) = {}
      BY <2>1
    <2>2. CASE SupportOf(u, k) # {}
      <3>1. browser[k].support \in DOMAIN support
        BY <1>4, <2>2
      <3> QED
        BY <2>2, <3>1, SessionFields DEF AccessInv
    <2> QED
      BY <2>1, <2>2
  <1>6. /\ browser' \in [SessionKeys -> SessionData]
        /\ \A j \in SessionKeys : browser'[j].at = browser[j].at /\ browser'[j].by = browser[j].by
        /\ \A j \in SessionKeys :
              \/ browser'[j].support = browser[j].support
              \/ j = k /\ SupportOf(u, k) = {} /\ browser'[j].support = 0
    <2>1. browser \in [SessionKeys -> SessionData] /\ 0 \in 0..MaxSupport
      BY AccessAssumption DEF AccessInv, AccessTyped
    <2>2. CASE UNCHANGED browser
      BY <2>1, <2>2
    <2>3. CASE browser' = [browser EXCEPT ![k].support = IF SupportOf(u, k) = {} THEN 0 ELSE @]
      BY <2>1, <2>3 DEF SessionData
    <2>4. CASE \E home \in Companies : browser' = [browser EXCEPT ![k].tenant = home]
      BY <2>1, <2>4 DEF SessionData
    <2> QED
      BY <1>2, <2>2, <2>3, <2>4
  <1>7. SupportOf(u, k)' = SupportOf(u, k)
    <2>0. u' = u
      BY <1>6
    <2>1. CASE browser'[k].support = browser[k].support
      BY <1>1, <2>0, <2>1 DEF SupportOf, Named
    <2>2. CASE SupportOf(u, k) = {} /\ browser'[k].support = 0
      <3>1. 0 \notin DOMAIN support
        BY SessionFields DEF AccessInv
      <3> QED
        BY <1>1, <2>0, <2>2, <3>1 DEF SupportOf, Named
    <2> QED
      BY <1>6, <2>1, <2>2
  <1>8. OneSupportSession'
    <2> SUFFICES ASSUME accessInTurn, NEW n \in DOMAIN support, support[n].open
                 PROVE  /\ browser'[support[n].key].at = "open" =>
                               n \in Named(browser[support[n].key].by, support[n].key)'
                        /\ \A m \in DOMAIN support :
                               support[m].open /\ support[m].key = support[n].key => m = n
      BY <1>1 DEF OneSupportSession
    <2>1. support[n].key \in SessionKeys
      BY SessionFields DEF AccessInv
    <2>2. /\ browser[support[n].key].at = "open" =>
                 n \in Named(browser[support[n].key].by, support[n].key)
          /\ \A m \in DOMAIN support : support[m].open /\ support[m].key = support[n].key => m = n
      BY DEF AccessInv, OneSupportSession
    <2>3. ASSUME browser'[support[n].key].at = "open"
          PROVE  n \in Named(browser[support[n].key].by, support[n].key)'
      <3>1. /\ browser[support[n].key].support = n
            /\ support[n].actor = browser[support[n].key].by
        BY <1>6, <2>1, <2>2, <2>3 DEF Named
      <3>2. support[n].key = k => n \in SupportOf(u, k)
        BY <3>1 DEF SupportOf, Named
      <3>3. browser'[support[n].key].support = n
        BY <1>6, <2>1, <3>1, <3>2
      <3> QED
        BY <1>1, <1>6, <2>1, <3>1, <3>3 DEF Named
    <2> QED
      BY <2>2, <2>3
  <1>12. /\ SessionsStay /\ \A j \in SessionKeys : browser'[j].at # "unused" => browser'[j].by \in Users
    BY <1>6 DEF SessionsStay, AccessInv, OwnersFit
  <1>9. ASSUME UNCHANGED action
        PROVE  AccessInv'
    <2>1. AccessTyped'
      BY <1>1, <1>3, <1>6, <1>9 DEF AccessInv, AccessTyped
    <2>2. RequestsAreMembers'
      <3> SUFFICES ASSUME NEW p \in Actions, action[p] # NoAction
                   PROVE  membership'[action[p].by][action[p].home].there
        BY <1>9 DEF RequestsAreMembers
      <3>1. action[p].by \in Users /\ action[p].home \in Companies
        BY IdleOrNot, RequestFields DEF AccessInv
      <3> QED
        BY <1>3, <3>1 DEF AccessInv, RequestsAreMembers
    <2>3. OneAtATime' /\ OpeningIsAlone'
      BY <1>1, <1>9 DEF AccessInv, OneAtATime, OpeningIsAlone
    <2>4. StillAsRead'
      BY <1>1, <1>9 DEF StillAsRead
    <2>5. OwnersFit'
      BY <1>1, <1>9, <1>12, OwnersStay
    <2> QED
      BY <1>3, <1>8, <2>1, <2>2, <2>3, <2>4, <2>5 DEF AccessInv
  <1>10. ASSUME NEW home \in mine, NEW tenant \in Companies \cup {Nowhere},
                action' = [action EXCEPT ![q] = served(home, tenant)],
                \/ Joined(u)[home].role = "super" /\ tenant = seen
                \/ Joined(u)[home].role # "super" /\ tenant = home
         PROVE  AccessInv'
    <2> DEFINE a == served(home, tenant)
    <2>1. Joined(u)[home] \in Seat /\ Joined(u)[home].role \in {"super", "manager", "sales"}
      BY <1>u, JoinedSeats DEF Seat
    <2>2. /\ a \in Request /\ a.at = "admitted" /\ a.by = u /\ a.key = k /\ a.home = home
          /\ a.tenant = tenant /\ a.role = Joined(u)[home].role /\ a # NoAction
      BY <1>u, <2>1 DEF Request, NoAction
    <2> HIDE DEF a
    <2>3. action' \in [Actions -> {NoAction} \cup Request] /\ action'[q] = a
          /\ \A p \in Actions : p # q => action'[p] = action[p]
      BY <1>10, <2>2 DEF AccessInv, AccessTyped, a
    <2>4. AccessTyped'
      BY <1>1, <1>3, <1>6, <2>3 DEF AccessInv, AccessTyped
    <2>5. RequestsAreMembers'
      <3> SUFFICES ASSUME NEW p \in Actions, action'[p] # NoAction
                   PROVE  membership'[action'[p].by][action'[p].home].there
        BY DEF RequestsAreMembers
      <3>1. CASE p = q
        BY <1>u, <1>3, <2>2, <2>3, <3>1, JoinedSeats
      <3>2. CASE p # q
        <4>1. action'[p] = action[p]
          BY <2>3, <3>2
        <4>2. action[p].by \in Users /\ action[p].home \in Companies
          BY <4>1, IdleOrNot, RequestFields DEF AccessInv
        <4>3. membership[action[p].by][action[p].home].there
          BY <4>1 DEF AccessInv, RequestsAreMembers
        <4> QED
          BY <1>3, <4>1, <4>2, <4>3
      <3> QED
        BY <3>1, <3>2
    <2>6. OneAtATime' /\ OpeningIsAlone'
      <3>1. NoAction.at # "opening"
        BY DEF NoAction
      <3> QED
        BY <1>1, <2>2, <2>3, <3>1 DEF OneAtATime, OpeningIsAlone
    <2>7. StillAsRead'
      <3> SUFFICES ASSUME accessInTurn, NEW p \in Actions, action'[p] # NoAction
                   PROVE  AsRead(action[p])'
        BY <1>1 DEF StillAsRead
      <3>1. p = q /\ action'[p] = a
        BY <1>1, <2>3
      <3>2. membership'[u][home].active /\ membership'[u][home].role = a.role
        BY <1>3, <2>2
      <3>3. a.role = "super" /\ a.tenant # Nowhere =>
                \E n \in SupportOf(u, k)' : support[n].tenant = a.tenant
        <4> SUFFICES ASSUME a.role = "super", a.tenant # Nowhere
                     PROVE  \E n \in SupportOf(u, k) : support[n].tenant = a.tenant
          BY <1>7
        <4>1. tenant = seen
          BY <1>10, <2>2
        <4>2. SupportOf(u, k) # {}
          BY <2>2, <4>1
        <4> QED
          BY <1>4, <2>2, <4>1, <4>2
      <3>4. a.role # "super" => a.tenant = a.home
        BY <1>10, <2>2
      <3>5. browser'[k].at = "open" /\ u' = u
        BY <1>u, <1>6
      <3> HIDE DEF u
      <3> QED
        BY <1>1, <2>2, <3>1, <3>2, <3>3, <3>4, <3>5 DEF AsRead
    <2>8. OwnersFit'
      <3>1. a.key = k /\ browser[a.key].at # "unused" /\ a.by = browser[a.key].by
        BY <1>u, <2>2
      <3>2. \A p \in Actions : action'[p] # NoAction =>
                \/ /\ action[p] # NoAction
                   /\ action'[p].key = action[p].key /\ action'[p].by = action[p].by
                \/ /\ action'[p].key \in SessionKeys /\ browser[action'[p].key].at # "unused"
                   /\ action'[p].by = browser[action'[p].key].by
        BY <2>3, <3>1
      <3> QED
        BY <1>1, <1>12, <3>2, OwnersStay
    <2> QED
      BY <1>3, <1>8, <2>4, <2>5, <2>6, <2>7, <2>8 DEF AccessInv
  <1>11. AccessInv'
    <2>1. mine \subseteq Companies
      OBVIOUS
    <2>2. CASE UNCHANGED action
      BY <1>9, <2>2
    <2>3. CASE \E home \in mine :
                  /\ Joined(u)[home].role = "super"
                  /\ action' = [action EXCEPT ![q] = served(home, seen)]
      <3> PICK home \in mine :
              /\ Joined(u)[home].role = "super"
              /\ action' = [action EXCEPT ![q] = served(home, seen)]
        BY <2>3
      <3> HIDE DEF mine, seen, served
      <3> QED
        BY <1>5, <1>10
    <2>4. CASE \E home \in mine :
                  /\ Joined(u)[home].role # "super"
                  /\ action' = [action EXCEPT ![q] = served(home, home)]
      BY <1>10, <2>1, <2>4
    <2> HIDE DEF mine, seen, served
    <2> QED
      BY <1>2, <2>2, <2>3, <2>4
  <1> QED
    BY <1>3, <1>11

\* Requests that end and leave everybody's seat and session alone.
LEMMA FinishStep ==
    ASSUME AccessInv, NEW q \in Actions, FinishAction(q)
    PROVE  AccessInv' /\ Changed /\ Remained
  <1>1. EndAction(q) /\ UNCHANGED <<membership, grants, profile, superusers, browser, support, accessInTurn>>
    BY DEF FinishAction
  <1>2. /\ action' \in [Actions -> {NoAction} \cup Request] /\ OneAtATime'
        /\ \A p \in Actions : action'[p] # NoAction => action'[p] = action[p]
        /\ \A p \in Actions : action'[p].at = "opening" => action'[p] = action[p]
    BY <1>1, EndedRequest
  <1>3. SeatsAreThere' /\ GrantsAreVisible' /\ Changed /\ Remained
    BY <1>1, SeatsUntouched
  <1>4. AccessTyped'
    BY <1>1, <1>2 DEF AccessInv, AccessTyped
  <1>5. RequestsAreMembers' /\ OpeningIsAlone' /\ OneSupportSession'
    BY <1>1, <1>2 DEF AccessInv, RequestsAreMembers, OpeningIsAlone, OneSupportSession, Named
  <1>7. OwnersFit'
    BY <1>1, <1>2 DEF AccessInv, OwnersFit
  <1>6. StillAsRead'
    <2> SUFFICES ASSUME accessInTurn, NEW p \in Actions, action'[p] # NoAction
                 PROVE  AsRead(action[p])'
      BY <1>1 DEF StillAsRead
    <2>1. action'[p] = action[p] /\ AsRead(action[p])
      BY <1>2 DEF AccessInv, StillAsRead
    <2> QED
      BY <1>1, <2>1 DEF AsRead, SupportOf, Named
  <1> QED
    BY <1>2, <1>3, <1>4, <1>5, <1>6, <1>7 DEF AccessInv

\* A request that manages, alone: its user does manage the workspace.
LEMMA ManagesAlone ==
    ASSUME AccessInv, NEW q \in Actions, MayManageMembers(q), accessInTurn
    PROVE  /\ MayManage(action[q].by, action[q].key, action[q].tenant)
           /\ action[q].role = "manager" => action[q].by \in Managers(action[q].tenant)
                                          /\ action[q].tenant = action[q].home
  <1> DEFINE a == action[q]
  <1>1. /\ a.at = "admitted" /\ a.at # "idle" /\ a.tenant # Nowhere /\ a.role \in {"manager", "super"}
    BY DEF MayManageMembers
  <1>2. a.by \in Users /\ a.home \in Companies
    BY <1>1, RequestFields DEF AccessInv
  <1>3. AsRead(a)
    BY <1>1, AloneAsRead
  <1>4. a.role = "manager" => a.by \in Managers(a.tenant) /\ a.tenant = a.home
    BY <1>2, <1>3 DEF AsRead, Managers
  <1>5. a.role = "super" => IsSuper(a.by) /\ \E n \in SupportOf(a.by, a.key) : support[n].tenant = a.tenant
    BY <1>1, <1>2, <1>3 DEF AsRead, IsSuper, ActiveIn
  <1> QED
    BY <1>1, <1>4, <1>5 DEF MayManage

\* A request that manages the seat of another one: what is left to show of it.
LEMMA ManagedSeat ==
    ASSUME AccessInv, NEW q \in Actions, NEW u \in Users, NEW w \in Companies, w = action[q].tenant,
           MayManageMembers(q), Manageable(q, u), EndAction(q),
           NEW seat \in Seat, seat.there,
           NEW given \in SUBSET Grant,
           membership' \in [Users -> [Companies -> Seat]], membership'[u][w] = seat,
           grants' \in [Users -> [Companies -> SUBSET Grant]], grants'[u][w] = given,
           \A v \in Users, x \in Companies : <<v, x>> # <<u, w>> =>
               membership'[v][x] = membership[v][x] /\ grants'[v][x] = grants[v][x],
           \A g \in given : /\ seat.role # "manager" /\ g.code \in Delegable /\ g.by # u
                            /\ membership[g.by][w].there,
           UNCHANGED <<profile, superusers, browser, support, accessInTurn>>
    PROVE  AccessInv' /\ Changed /\ Remained
  <1>1. /\ w \in Companies /\ action[q].by \in Users /\ action[q].home \in Companies
        /\ action[q].at # "idle" /\ action[q] # NoAction
    BY RequestFields DEF AccessInv, MayManageMembers
  <1>2. membership[u][w].there /\ <<u, w>> # <<action[q].by, action[q].home>>
    BY DEF Manageable
  <1>4. \A v \in Users, x \in Companies :
            <<v, x>> # <<u, w>> => membership'[v][x] = membership[v][x]
    OBVIOUS
  <1>5. \A v \in Users, x \in Companies : <<v, x>> # <<u, w>> => grants'[v][x] = grants[v][x]
    OBVIOUS
  <1>6. \A v \in Users, x \in Companies : membership[v][x].there => membership'[v][x].there
    BY <1>4, <1>2
  <1>7. SeatsAreThere'
    <2> SUFFICES ASSUME NEW v \in Users, NEW x \in Companies
                 PROVE  /\ membership'[v][x].active => membership'[v][x].there
                        /\ grants'[v][x] # {} => membership'[v][x].there
      BY DEF SeatsAreThere
    <2>1. CASE <<v, x>> = <<u, w>>
      BY <1>4, <2>1
    <2>2. CASE <<v, x>> # <<u, w>>
      BY <1>4, <1>5, <2>2 DEF AccessInv, SeatsAreThere
    <2> QED
      BY <2>1, <2>2
  <1>8. GrantsAreVisible'
    <2> SUFFICES ASSUME NEW v \in Users, NEW x \in Companies, NEW g \in grants'[v][x]
                 PROVE  /\ membership'[v][x].role # "manager" /\ g.code \in Delegable
                        /\ g.by # v /\ membership'[g.by][x].there
      BY DEF GrantsAreVisible
    <2>1. g.by \in Users
      BY <1>5 DEF Grant
    <2>2. CASE <<v, x>> = <<u, w>>
      BY <1>4, <1>5, <1>6, <2>1, <2>2
    <2>3. CASE <<v, x>> # <<u, w>>
      <3>1. grants'[v][x] = grants[v][x] /\ membership'[v][x] = membership[v][x]
        BY <1>4, <1>5, <2>3
      <3> QED
        BY <1>6, <2>1, <3>1 DEF AccessInv, GrantsAreVisible
    <2> QED
      BY <2>2, <2>3
  <1>9. /\ action' \in [Actions -> {NoAction} \cup Request] /\ OneAtATime'
        /\ \A p \in Actions : action'[p] # NoAction => action'[p] = action[p]
        /\ \A p \in Actions : action'[p].at = "opening" => action'[p] = action[p]
        /\ accessInTurn => \A p \in Actions : action'[p] = NoAction
    BY <1>1, EndedRequest
  <1>10. AccessTyped'
    BY <1>4, <1>5, <1>9 DEF AccessInv, AccessTyped
  <1>11. RequestsAreMembers'
    <2> SUFFICES ASSUME NEW p \in Actions, action'[p] # NoAction
                 PROVE  membership'[action'[p].by][action'[p].home].there
      BY DEF RequestsAreMembers
    <2>1. action'[p] = action[p]
      BY <1>9
    <2>2. action[p].by \in Users /\ action[p].home \in Companies
      BY <2>1, IdleOrNot, RequestFields DEF AccessInv
    <2> QED
      BY <1>6, <2>1, <2>2 DEF AccessInv, RequestsAreMembers
  <1>12. OpeningIsAlone' /\ OneSupportSession' /\ StillAsRead' /\ OwnersFit'
    BY <1>9 DEF AccessInv, OpeningIsAlone, OneSupportSession, StillAsRead, Named, OwnersFit
  <1>13. Changed
    <2> SUFFICES ASSUME accessInTurn, NEW v \in Users, NEW x \in Companies,
                        <<membership'[v][x], grants'[v][x]>> # <<membership[v][x], grants[v][x]>>
                 PROVE  ByManager(x)
      BY DEF Changed
    <2>1. x = w
      BY <1>4, <1>5
    <2>2. MayManage(action[q].by, action[q].key, w)
      BY ManagesAlone
    <2> QED
      BY <1>1, <2>1, <2>2 DEF ByManager
  <1>14. Remained
    <2> SUFFICES ASSUME accessInTurn, NEW x \in Companies, Managers(x) # {}, Managers(x)' = {},
                        action[q].role # "super"
                 PROVE  FALSE
      BY <1>1 DEF Remained
    <2>1. action[q].role = "manager"
      BY DEF MayManageMembers
    <2>2. action[q].by \in Managers(w) /\ w = action[q].home
      BY <2>1, ManagesAlone
    <2>3. action[q].by # u
      BY <1>2, <2>2
    <2>4. CASE x = w
      BY <1>1, <1>4, <2>2, <2>3, <2>4 DEF Managers
    <2>5. CASE x # w
      BY <1>4, <2>5 DEF Managers
    <2> QED
      BY <2>4, <2>5
  <1> QED
    BY <1>7, <1>8, <1>9, <1>10, <1>11, <1>12, <1>13, <1>14 DEF AccessInv

LEMMA UpdateAccessStep ==
    ASSUME AccessInv, NEW q \in Actions, NEW u \in Users, NEW role \in {"manager", "sales"},
           NEW wanted \in SUBSET ActionCodes, NEW scope \in Scopes,
           UpdateAccess(q, u, role, wanted, scope)
    PROVE  AccessInv' /\ Changed /\ Remained
  <1> DEFINE w == action[q].tenant
             requested == IF role = "manager" THEN {} ELSE wanted
             seat == [membership[u][w] EXCEPT !.role = role]
             given == {[code |-> code, scope |-> scope, by |-> action[q].by] : code \in requested}
  <1>1. /\ MayManageMembers(q) /\ Manageable(q, u) /\ EndAction(q)
        /\ \A code \in requested : DelegableBy(q, u, code, scope)
        /\ membership' = [membership EXCEPT ![u][w].role = role]
        /\ grants' = [grants EXCEPT ![u][w] = given]
        /\ UNCHANGED <<profile, superusers, browser, support, accessInTurn>>
    BY DEF UpdateAccess
  <1>2. /\ w \in Companies /\ action[q].by \in Users /\ action[q] # NoAction
    BY <1>1, RequestFields DEF AccessInv, MayManageMembers
  <1>3. membership[u][w].there /\ membership[u][w] \in Seat
    BY <1>1, <1>2, SeatFields DEF Manageable, AccessInv
  <1>4. seat \in Seat /\ seat.there /\ seat.role = role
    BY <1>3 DEF Seat
  <1>5. membership' = [membership EXCEPT ![u][w] = seat]
    BY <1>1, <1>2 DEF AccessInv, AccessTyped
  <1>6. given \in SUBSET Grant /\ grants' = [grants EXCEPT ![u][w] = given]
    BY <1>1, <1>2 DEF Grant
  <1>7. ASSUME NEW g \in given
        PROVE  /\ seat.role # "manager" /\ g.code \in Delegable /\ g.by # u
               /\ membership[g.by][w].there
    <2>1. PICK code \in requested : g = [code |-> code, scope |-> scope, by |-> action[q].by]
      OBVIOUS
    <2>2. role # "manager"
      BY <2>1
    <2>3. code \in Delegable /\ action[q].home = w
      BY <1>1 DEF DelegableBy
    <2>4. action[q].by # u
      BY <1>1, <2>3 DEF Manageable
    <2>5. membership[action[q].by][w].there
      BY <1>2, <2>3 DEF AccessInv, RequestsAreMembers
    <2> QED
      BY <1>4, <2>1, <2>2, <2>3, <2>4, <2>5
  <1>8. w = action[q].tenant
    OBVIOUS
  <1>10. /\ membership' \in [Users -> [Companies -> Seat]] /\ membership'[u][w] = seat
         /\ grants' \in [Users -> [Companies -> SUBSET Grant]] /\ grants'[u][w] = given
         /\ \A v \in Users, x \in Companies : <<v, x>> # <<u, w>> =>
                membership'[v][x] = membership[v][x] /\ grants'[v][x] = grants[v][x]
    <2> HIDE DEF given, seat, w
    <2>1. /\ membership \in [Users -> [Companies -> Seat]]
          /\ grants \in [Users -> [Companies -> SUBSET Grant]]
      BY DEF AccessInv, AccessTyped
    <2>2. /\ membership' \in [Users -> [Companies -> Seat]] /\ membership'[u][w] = seat
          /\ \A v \in Users, x \in Companies :
                 <<v, x>> # <<u, w>> => membership'[v][x] = membership[v][x]
      BY <1>2, <1>4, <1>5, <2>1
    <2>3. /\ grants' \in [Users -> [Companies -> SUBSET Grant]] /\ grants'[u][w] = given
          /\ \A v \in Users, x \in Companies : <<v, x>> # <<u, w>> => grants'[v][x] = grants[v][x]
      BY <1>2, <1>6, <2>1
    <2> QED
      BY <2>2, <2>3
  <1>9. /\ MayManageMembers(q) /\ Manageable(q, u) /\ EndAction(q)
        /\ UNCHANGED <<profile, superusers, browser, support, accessInTurn>>
    BY <1>1
  <1> HIDE DEF given, seat, w
  <1> QED
    BY <1>2, <1>4, <1>6, <1>7, <1>8, <1>9, <1>10, ManagedSeat

LEMMA ChangeMemberStep ==
    ASSUME AccessInv, NEW q \in Actions, NEW u \in Users, NEW active \in BOOLEAN,
           MayManageMembers(q), ChangeMember(q, u, active)
    PROVE  AccessInv' /\ Changed /\ Remained
  <1> DEFINE w == action[q].tenant
             seat == [membership[u][w] EXCEPT !.active = active]
             given == grants[u][w]
  <1>1. /\ Manageable(q, u) /\ EndAction(q)
        /\ membership' = [membership EXCEPT ![u][w].active = active]
        /\ UNCHANGED <<grants, profile, superusers, browser, support, accessInTurn>>
    BY DEF ChangeMember
  <1>2. /\ w \in Companies /\ action[q].by \in Users
    BY RequestFields DEF AccessInv, MayManageMembers
  <1>3. membership[u][w].there /\ membership[u][w] \in Seat
    BY <1>1, <1>2, SeatFields DEF Manageable, AccessInv
  <1>4. seat \in Seat /\ seat.there /\ seat.role = membership[u][w].role
    BY <1>3 DEF Seat
  <1>5. membership' = [membership EXCEPT ![u][w] = seat]
    BY <1>1, <1>2 DEF AccessInv, AccessTyped
  <1>6. given \in SUBSET Grant /\ grants' = [grants EXCEPT ![u][w] = given]
    BY <1>1, <1>2 DEF AccessInv, AccessTyped
  <1>7. \A g \in given : /\ seat.role # "manager" /\ g.code \in Delegable /\ g.by # u
                         /\ membership[g.by][w].there
    BY <1>2, <1>4 DEF AccessInv, GrantsAreVisible
  <1>8. w = action[q].tenant
    OBVIOUS
  <1>10. /\ membership' \in [Users -> [Companies -> Seat]] /\ membership'[u][w] = seat
         /\ grants' \in [Users -> [Companies -> SUBSET Grant]] /\ grants'[u][w] = given
         /\ \A v \in Users, x \in Companies : <<v, x>> # <<u, w>> =>
                membership'[v][x] = membership[v][x] /\ grants'[v][x] = grants[v][x]
    <2> HIDE DEF given, seat, w
    <2>1. /\ membership \in [Users -> [Companies -> Seat]]
          /\ grants \in [Users -> [Companies -> SUBSET Grant]]
      BY DEF AccessInv, AccessTyped
    <2>2. /\ membership' \in [Users -> [Companies -> Seat]] /\ membership'[u][w] = seat
          /\ \A v \in Users, x \in Companies :
                 <<v, x>> # <<u, w>> => membership'[v][x] = membership[v][x]
      BY <1>2, <1>4, <1>5, <2>1
    <2>3. /\ grants' \in [Users -> [Companies -> SUBSET Grant]] /\ grants'[u][w] = given
          /\ \A v \in Users, x \in Companies : <<v, x>> # <<u, w>> => grants'[v][x] = grants[v][x]
      BY <1>2, <1>6, <2>1
    <2> QED
      BY <2>2, <2>3
  <1>9. /\ MayManageMembers(q) /\ Manageable(q, u) /\ EndAction(q)
        /\ UNCHANGED <<profile, superusers, browser, support, accessInTurn>>
    BY <1>1
  <1> HIDE DEF given, seat, w
  <1> QED
    BY <1>2, <1>4, <1>6, <1>7, <1>8, <1>9, <1>10, ManagedSeat

-----------------------------------------------------------------------------
\* Support sessions that close.
LEMMA ClosedSessions ==
    ASSUME AccessInv, NEW departed,
           support' = [n \in DOMAIN support |->
                          IF n \in departed THEN [support[n] EXCEPT !.open = FALSE] ELSE support[n]]
    PROVE  /\ support' \in Seq(Session) /\ Len(support') = Len(support)
           /\ DOMAIN support' = DOMAIN support
           /\ \A n \in DOMAIN support :
                 /\ support'[n].actor = support[n].actor /\ support'[n].key = support[n].key
                 /\ support'[n].tenant = support[n].tenant
                 /\ support'[n].open <=> support[n].open /\ n \notin departed
  <1>1. support \in Seq(Session) /\ DOMAIN support = 1..Len(support) /\ Len(support) \in Nat
    BY DEF AccessInv, AccessTyped
  <1>2. \A n \in DOMAIN support :
            /\ support'[n] \in Session
            /\ support'[n].actor = support[n].actor /\ support'[n].key = support[n].key
            /\ support'[n].tenant = support[n].tenant
            /\ support'[n].open <=> support[n].open /\ n \notin departed
    <2> SUFFICES ASSUME NEW n \in DOMAIN support
                 PROVE  /\ support'[n] \in Session
                        /\ support'[n].actor = support[n].actor /\ support'[n].key = support[n].key
                        /\ support'[n].tenant = support[n].tenant
                        /\ support'[n].open <=> support[n].open /\ n \notin departed
      OBVIOUS
    <2>1. support[n] \in Session
      BY SessionFields DEF AccessInv
    <2>2. support'[n] = IF n \in departed THEN [support[n] EXCEPT !.open = FALSE] ELSE support[n]
      OBVIOUS
    <2> QED
      BY <2>1, <2>2 DEF Session
  <1>3. support' \in [1..Len(support) -> Session]
    BY <1>1, <1>2
  <1>4. support' \in Seq(Session) /\ Len(support') = Len(support)
    BY <1>1, <1>3, SeqDef, LenProperties
  <1> QED
    BY <1>1, <1>2, <1>3, <1>4

LEMMA EndOpenStep ==
    ASSUME AccessInv, NEW q \in Actions, EndOpenSupport(q)
    PROVE  AccessInv' /\ Changed /\ Remained
  <1> DEFINE k == action[q].key
             departed == {n \in DOMAIN support : support[n].actor = action[q].by /\ support[n].key = k}
             a == [action[q] EXCEPT !.at = "opening"]
  <1>1. /\ action[q].at = "admitted" /\ action[q].at # "idle"
        /\ action' = [action EXCEPT ![q].at = "opening"]
        /\ UNCHANGED <<membership, grants, profile, superusers, browser, accessInTurn>>
    BY DEF EndOpenSupport
  <1>2. support' = [n \in DOMAIN support |->
                       IF n \in departed THEN [support[n] EXCEPT !.open = FALSE] ELSE support[n]]
    BY DEF EndOpenSupport
  <1>3. action[q] \in Request /\ action[q] # NoAction
    BY <1>1, RequestFields DEF AccessInv
  <1>4. /\ a \in Request /\ a # NoAction /\ a.at = "opening" /\ a.by = action[q].by /\ a.key = k
        /\ a.home = action[q].home /\ a.role = action[q].role /\ a.tenant = action[q].tenant
    BY <1>3 DEF Request, NoAction
  <1> HIDE DEF a, departed
  <1>5. /\ action' \in [Actions -> {NoAction} \cup Request] /\ action'[q] = a
        /\ \A p \in Actions : p # q => action'[p] = action[p]
    BY <1>1, <1>4 DEF AccessInv, AccessTyped, a
  <1>6. /\ support' \in Seq(Session) /\ Len(support') = Len(support)
        /\ DOMAIN support' = DOMAIN support
        /\ \A n \in DOMAIN support :
              /\ support'[n].actor = support[n].actor /\ support'[n].key = support[n].key
              /\ support'[n].tenant = support[n].tenant
              /\ support'[n].open <=> support[n].open /\ n \notin departed
    BY <1>2, ClosedSessions
  <1>7. SeatsAreThere' /\ GrantsAreVisible' /\ Changed /\ Remained
    BY <1>1, SeatsUntouched
  <1>8. AccessTyped'
    BY <1>1, <1>5, <1>6 DEF AccessInv, AccessTyped
  <1>9. OneSupportSession'
    <2> SUFFICES ASSUME accessInTurn, NEW n \in DOMAIN support, support'[n].open
                 PROVE  /\ browser[support[n].key].at = "open" =>
                               n \in Named(browser[support[n].key].by, support[n].key)'
                        /\ \A m \in DOMAIN support :
                               support'[m].open /\ support[m].key = support[n].key => m = n
      BY <1>1, <1>6 DEF OneSupportSession
    <2>1. /\ support[n].open
          /\ browser[support[n].key].at = "open" =>
                 n \in Named(browser[support[n].key].by, support[n].key)
          /\ \A m \in DOMAIN support : support[m].open /\ support[m].key = support[n].key => m = n
      BY <1>6 DEF AccessInv, OneSupportSession
    <2>2. n \in Named(browser[support[n].key].by, support[n].key) =>
              n \in Named(browser[support[n].key].by, support[n].key)'
      BY <1>1, <1>6 DEF Named
    <2> QED
      BY <1>6, <2>1, <2>2
  <1>10. RequestsAreMembers'
    BY <1>1, <1>3, <1>4, <1>5 DEF AccessInv, RequestsAreMembers
  <1>11. OneAtATime'
    BY <1>1, <1>3, <1>5 DEF AccessInv, OneAtATime
  <1>12. OpeningIsAlone'
    <2> SUFFICES ASSUME accessInTurn, NEW p \in Actions, action'[p].at = "opening",
                        NEW n \in DOMAIN support, support'[n].key = action'[p].key
                 PROVE  ~support'[n].open
      BY <1>1, <1>6 DEF OpeningIsAlone
    <2>1. p = q
      <3>1. \A r \in Actions \ {q} : action[r] = NoAction
        BY <1>1, AloneAsRead
      <3> QED
        BY <1>5, <3>1 DEF NoAction
    <2>2. support[n].key = k
      BY <1>4, <1>5, <1>6, <2>1
    <2>3. support[n].actor = action[q].by
      BY <1>3, <2>2 DEF AccessInv, OwnersFit
    <2>4. n \in departed
      BY <2>2, <2>3 DEF departed
    <2> QED
      BY <1>6, <2>4
  <1>13. StillAsRead'
    <2> SUFFICES ASSUME accessInTurn, NEW p \in Actions, action'[p] # NoAction
                 PROVE  AsRead(action[p])'
      BY <1>1 DEF StillAsRead
    <2>1. p = q /\ AsRead(action[q])
      BY <1>1, <1>5, AloneAsRead
    <2> QED
      BY <1>1, <1>4, <1>5, <2>1 DEF AsRead
  <1>14. OwnersFit'
    <2>1. \A p \in Actions : action'[p] # NoAction =>
              action[p] # NoAction /\ action'[p].key = action[p].key /\ action'[p].by = action[p].by
      BY <1>3, <1>4, <1>5
    <2>2. SessionsStay /\ \A j \in SessionKeys : browser'[j].at # "unused" => browser'[j].by \in Users
      BY <1>1 DEF SessionsStay, AccessInv, OwnersFit
    <2> QED
      BY <1>6, <2>1, <2>2, OwnersStay
  <1> QED
    BY <1>7, <1>8, <1>9, <1>10, <1>11, <1>12, <1>13, <1>14 DEF AccessInv

LEMMA OpenStep ==
    ASSUME AccessInv, NEW q \in Actions, NEW w \in Companies, OpenSupport(q, w)
    PROVE  AccessInv' /\ Changed /\ Remained
  <1> DEFINE u == action[q].by
             k == action[q].key
             last == Len(support) + 1
             new == [actor |-> u, key |-> k, tenant |-> w, open |-> TRUE]
             data == [browser[k] EXCEPT !.support = last]
  <1>1. /\ action[q].at = "opening" /\ action[q].at # "idle" /\ EndAction(q)
        /\ Len(support) < MaxSupport /\ support' = Append(support, new)
        /\ SaveSession(k, data)
        /\ UNCHANGED <<membership, grants, profile, superusers, accessInTurn>>
    BY DEF OpenSupport
  <1>2. u \in Users /\ k \in SessionKeys /\ action[q] # NoAction
    BY <1>1, RequestFields DEF AccessInv
  <1>3. /\ support \in Seq(Session) /\ DOMAIN support = 1..Len(support) /\ Len(support) \in Nat
        /\ browser \in [SessionKeys -> SessionData]
    BY DEF AccessInv, AccessTyped
  <1>4. new \in Session /\ new.actor = u /\ new.key = k /\ new.open = TRUE
    BY <1>2 DEF Session
  <1>5. last \in 0..MaxSupport
    BY <1>1, <1>3, AccessAssumption
  <1>6. /\ data \in SessionData /\ data.support = last
        /\ data.at = browser[k].at /\ data.by = browser[k].by
    BY <1>2, <1>3, <1>5 DEF SessionData
  <1>o. browser[k].at # "unused" /\ u = browser[k].by
    BY <1>2 DEF AccessInv, OwnersFit
  <1> HIDE DEF new, data
  <1>7. /\ support' \in Seq(Session) /\ Len(support') = last /\ DOMAIN support' = 1..last
        /\ support'[last] = new /\ \A n \in DOMAIN support : support'[n] = support[n]
    BY <1>1, <1>3, <1>4, AppendProperties
  <1>8. /\ browser' \in [SessionKeys -> SessionData] /\ SessionsStay
        /\ browser[k].at = "open" => browser'[k] = data
        /\ \A j \in SessionKeys : j # k => browser'[j] = browser[j]
        /\ \A j \in SessionKeys : browser'[j].at = browser[j].at /\ browser'[j].by = browser[j].by
        /\ \A j \in SessionKeys : browser'[j].at # "unused" => browser'[j].by \in Users
    BY <1>1, <1>2, <1>6, SavedSession
  <1>9. /\ action' \in [Actions -> {NoAction} \cup Request] /\ OneAtATime'
        /\ \A p \in Actions : action'[p] # NoAction => action'[p] = action[p]
        /\ accessInTurn => \A p \in Actions : action'[p] = NoAction
    BY <1>1, <1>2, EndedRequest
  <1>10. SeatsAreThere' /\ GrantsAreVisible' /\ Changed /\ Remained
    BY <1>1, SeatsUntouched
  <1>11. AccessTyped'
    <2>1. Len(support') <= MaxSupport
      BY <1>5, <1>7
    <2> QED
      BY <1>1, <1>7, <1>8, <1>9, <2>1 DEF AccessInv, AccessTyped
  <1>12. RequestsAreMembers'
    BY <1>1, <1>9 DEF AccessInv, RequestsAreMembers
  <1>13. OpeningIsAlone' /\ StillAsRead'
    BY <1>1, <1>9 DEF OpeningIsAlone, StillAsRead, NoAction
  <1>14. OwnersFit'
    <2>1. \A n \in DOMAIN support' :
              \/ /\ n \in DOMAIN support
                 /\ support'[n].key = support[n].key /\ support'[n].actor = support[n].actor
              \/ /\ support'[n].key \in SessionKeys /\ browser[support'[n].key].at # "unused"
                 /\ support'[n].actor = browser[support'[n].key].by
      <3> SUFFICES ASSUME NEW n \in 1..last, n # last PROVE n \in DOMAIN support
        BY <1>2, <1>4, <1>o, <1>7
      <3> QED
        BY <1>3
    <2>2. \A p \in Actions : action'[p] # NoAction =>
              action[p] # NoAction /\ action'[p].key = action[p].key /\ action'[p].by = action[p].by
      BY <1>9
    <2> QED
      BY <1>8, <2>1, <2>2, OwnersStay
  <1>15. OneSupportSession'
    <2> SUFFICES ASSUME accessInTurn, NEW n \in 1..last, support'[n].open
                 PROVE  /\ browser'[support'[n].key].at = "open" =>
                               n \in Named(browser[support[n].key].by, support[n].key)'
                        /\ \A m \in 1..last :
                               support'[m].open /\ support'[m].key = support'[n].key => m = n
      BY <1>1, <1>7 DEF OneSupportSession
    <2>0. \A m \in 1..last : m # last => m \in DOMAIN support /\ support'[m] = support[m]
      BY <1>3, <1>7
    <2>1. \A m \in DOMAIN support : support[m].open => support[m].key # k
      BY <1>1 DEF AccessInv, OpeningIsAlone
    <2>2. \A m \in 1..last : support'[m].open /\ support'[m].key = support'[n].key => m = n
      <3> SUFFICES ASSUME NEW m \in 1..last, support'[m].open, support'[m].key = support'[n].key
                   PROVE  m = n
        OBVIOUS
      <3>1. CASE n = last
        BY <1>4, <1>7, <2>0, <2>1, <3>1
      <3>2. CASE n # last /\ m = last
        BY <1>4, <1>7, <2>0, <2>1, <3>2
      <3>3. CASE n # last /\ m # last
        <4>1. /\ n \in DOMAIN support /\ m \in DOMAIN support
              /\ support'[n] = support[n] /\ support'[m] = support[m]
          BY <2>0, <3>3
        <4> QED
          BY <4>1 DEF AccessInv, OneSupportSession
      <3> QED
        BY <3>1, <3>2, <3>3
    <2>3. ASSUME browser'[support'[n].key].at = "open"
          PROVE  n \in Named(browser[support[n].key].by, support[n].key)'
      <3>1. CASE n = last
        <4>1. support'[n].key = k /\ support'[n].actor = u /\ n \in DOMAIN support'
          BY <1>4, <1>7, <3>1
        <4>2. browser'[k].support = n /\ browser'[k].by = u
          BY <1>2, <1>6, <1>o, <1>8, <2>3, <3>1, <4>1
        <4> QED
          BY <4>1, <4>2 DEF Named
      <3>2. CASE n # last
        <4>1. n \in DOMAIN support /\ support'[n] = support[n] /\ n \in DOMAIN support'
          BY <1>7, <2>0, <3>2
        <4>2. support[n].key # k /\ support[n].key \in SessionKeys
          BY <2>1, <4>1, SessionFields DEF AccessInv
        <4>3. browser'[support[n].key] = browser[support[n].key]
          BY <1>8, <4>2
        <4>4. n \in Named(browser[support[n].key].by, support[n].key)
          BY <2>3, <4>1, <4>3 DEF AccessInv, OneSupportSession
        <4> QED
          BY <4>1, <4>3, <4>4 DEF Named
      <3> QED
        BY <3>1, <3>2
    <2> QED
      BY <2>2, <2>3
  <1> QED
    BY <1>9, <1>10, <1>11, <1>12, <1>13, <1>14, <1>15 DEF AccessInv

LEMMA ExitStep ==
    ASSUME AccessInv, NEW q \in Actions, ExitSupport(q)
    PROVE  AccessInv' /\ Changed /\ Remained
  <1> DEFINE u == action[q].by
             k == action[q].key
             departed == Named(u, k)
             data == [browser[k] EXCEPT !.support = 0]
  <1>1. /\ action[q].at = "admitted" /\ action[q].at # "idle" /\ EndAction(q)
        /\ SaveSession(k, data)
        /\ support' = [n \in DOMAIN support |->
                          IF n \in departed THEN [support[n] EXCEPT !.open = FALSE] ELSE support[n]]
        /\ UNCHANGED <<membership, grants, profile, superusers, accessInTurn>>
    BY DEF ExitSupport
  <1>2. u \in Users /\ k \in SessionKeys /\ action[q] # NoAction
    BY <1>1, RequestFields DEF AccessInv
  <1>o. u = browser[k].by
    BY <1>2 DEF AccessInv, OwnersFit
  <1>4. /\ data \in SessionData
        /\ data.at = browser[k].at /\ data.by = browser[k].by
    <2>1. browser[k] \in SessionData
      BY <1>2 DEF AccessInv, AccessTyped
    <2>2. 0 \in 0..MaxSupport
      BY AccessAssumption
    <2> QED
      BY <2>1, <2>2 DEF SessionData
  <1> HIDE DEF departed, data
  <1>3. /\ support' \in Seq(Session) /\ Len(support') = Len(support)
        /\ DOMAIN support' = DOMAIN support
        /\ \A n \in DOMAIN support :
              /\ support'[n].actor = support[n].actor /\ support'[n].key = support[n].key
              /\ support'[n].open <=> support[n].open /\ n \notin departed
    BY <1>1, ClosedSessions
  <1>8. /\ browser' \in [SessionKeys -> SessionData] /\ SessionsStay
        /\ \A j \in SessionKeys : j # k => browser'[j] = browser[j]
        /\ \A j \in SessionKeys : browser'[j].at = browser[j].at /\ browser'[j].by = browser[j].by
        /\ \A j \in SessionKeys : browser'[j].at # "unused" => browser'[j].by \in Users
    BY <1>1, <1>2, <1>4, SavedSession
  <1>5. /\ action' \in [Actions -> {NoAction} \cup Request] /\ OneAtATime'
        /\ \A p \in Actions : action'[p] # NoAction => action'[p] = action[p]
        /\ accessInTurn => \A p \in Actions : action'[p] = NoAction
    BY <1>1, <1>2, EndedRequest
  <1>6. SeatsAreThere' /\ GrantsAreVisible' /\ Changed /\ Remained
    BY <1>1, SeatsUntouched
  <1>7. AccessTyped'
    BY <1>1, <1>3, <1>8, <1>5 DEF AccessInv, AccessTyped
  <1>9. OpeningIsAlone' /\ StillAsRead' /\ RequestsAreMembers'
    BY <1>1, <1>5 DEF OpeningIsAlone, StillAsRead, NoAction, AccessInv, RequestsAreMembers
  <1>10. OwnersFit'
    BY <1>3, <1>5, <1>8, OwnersStay
  <1>11. OneSupportSession'
    <2> SUFFICES ASSUME accessInTurn, NEW n \in DOMAIN support, support'[n].open
                 PROVE  /\ browser'[support[n].key].at = "open" =>
                               n \in Named(browser[support[n].key].by, support[n].key)'
                        /\ \A m \in DOMAIN support :
                               support'[m].open /\ support[m].key = support[n].key => m = n
      BY <1>1, <1>3 DEF OneSupportSession
    <2>1. support[n].open /\ n \notin departed /\ support[n].key \in SessionKeys
      BY <1>3, SessionFields DEF AccessInv
    <2>2. /\ browser[support[n].key].at = "open" =>
                 n \in Named(browser[support[n].key].by, support[n].key)
          /\ \A m \in DOMAIN support : support[m].open /\ support[m].key = support[n].key => m = n
      BY <2>1 DEF AccessInv, OneSupportSession
    <2>3. ASSUME browser'[support[n].key].at = "open"
          PROVE  n \in Named(browser[support[n].key].by, support[n].key)'
      <3>1. n \in Named(browser[support[n].key].by, support[n].key)
        BY <1>8, <2>1, <2>2, <2>3
      <3>2. support[n].key # k
        BY <1>o, <2>1, <3>1 DEF departed
      <3>3. browser'[support[n].key] = browser[support[n].key]
        BY <1>8, <2>1, <3>2
      <3> QED
        BY <1>3, <3>1, <3>3 DEF Named
    <2> QED
      BY <1>3, <2>2, <2>3
  <1> QED
    BY <1>5, <1>6, <1>7, <1>9, <1>10, <1>11 DEF AccessInv

\* Sessions that begin and end: no support session is of a key that was not used,
\* and no request is of a session that ends alone.
LEMMA SessionsChange ==
    ASSUME AccessInv, InTurn, NEW k \in SessionKeys,
           browser' \in [SessionKeys -> SessionData], SessionsStay,
           \A j \in SessionKeys : browser'[j].at # "unused" => browser'[j].by \in Users,
           \A j \in SessionKeys : browser'[j].at = "open" =>
               browser[j].at = "unused" \/ browser'[j] = browser[j],
           UNCHANGED <<membership, grants, profile, superusers, support, action, accessInTurn>>
    PROVE  AccessInv' /\ Changed /\ Remained
  <1>1. SeatsAreThere' /\ GrantsAreVisible' /\ Changed /\ Remained
    BY SeatsUntouched
  <1>2. AccessTyped' /\ RequestsAreMembers' /\ OneAtATime' /\ OpeningIsAlone'
    BY DEF AccessInv, AccessTyped, RequestsAreMembers, OneAtATime, OpeningIsAlone
  <1>3. StillAsRead'
    BY DEF InTurn, StillAsRead
  <1>4. OwnersFit'
    BY OwnersStay
  <1>5. OneSupportSession'
    <2> SUFFICES ASSUME accessInTurn, NEW n \in DOMAIN support, support[n].open
                 PROVE  /\ browser'[support[n].key].at = "open" =>
                               n \in Named(browser[support[n].key].by, support[n].key)'
                        /\ \A m \in DOMAIN support :
                               support[m].open /\ support[m].key = support[n].key => m = n
      BY DEF OneSupportSession
    <2>1. support[n].key \in SessionKeys /\ browser[support[n].key].at # "unused"
      BY SessionFields DEF AccessInv, OwnersFit
    <2>2. browser'[support[n].key].at = "open" => browser'[support[n].key] = browser[support[n].key]
      BY <2>1
    <2> QED
      BY <2>1, <2>2 DEF AccessInv, OneSupportSession, Named
  <1> QED
    BY <1>1, <1>2, <1>3, <1>4, <1>5 DEF AccessInv

LEMMA SignInStep ==
    ASSUME AccessInv, NEW k \in SessionKeys, NEW u \in Users, SignIn(k, u)
    PROVE  AccessInv' /\ Changed /\ Remained
  <1>1. /\ InTurn /\ browser[k].at = "unused" /\ browser' = [browser EXCEPT ![k] = SignedIn(u)]
        /\ UNCHANGED <<membership, grants, profile, superusers, support, action, accessInTurn>>
    BY DEF SignIn
  <1>2. SignedIn(u) \in SessionData /\ SignedIn(u).by = u
    BY AccessAssumption DEF SignedIn, SessionData
  <1>3. browser \in [SessionKeys -> SessionData]
    BY DEF AccessInv, AccessTyped
  <1>4. browser' \in [SessionKeys -> SessionData] /\ browser'[k] = SignedIn(u)
        /\ \A j \in SessionKeys : j # k => browser'[j] = browser[j]
    BY <1>1, <1>2, <1>3
  <1>5. /\ SessionsStay
        /\ \A j \in SessionKeys : browser'[j].at # "unused" => browser'[j].by \in Users
        /\ \A j \in SessionKeys : browser'[j].at = "open" =>
               browser[j].at = "unused" \/ browser'[j] = browser[j]
    BY <1>1, <1>2, <1>4 DEF SessionsStay, AccessInv, OwnersFit
  <1> QED
    BY <1>1, <1>4, <1>5, SessionsChange

LEMMA SignOutStep ==
    ASSUME AccessInv, NEW k \in SessionKeys, SignOut(k)
    PROVE  AccessInv' /\ Changed /\ Remained
  <1>1. /\ InTurn /\ browser[k].at = "open" /\ browser' = [browser EXCEPT ![k].at = "ended"]
        /\ UNCHANGED <<membership, grants, profile, superusers, support, action, accessInTurn>>
    BY DEF SignOut
  <1>3. browser \in [SessionKeys -> SessionData]
    BY DEF AccessInv, AccessTyped
  <1>4. /\ browser' \in [SessionKeys -> SessionData]
        /\ browser'[k].at = "ended" /\ browser'[k].by = browser[k].by
        /\ \A j \in SessionKeys : j # k => browser'[j] = browser[j]
    BY <1>1, <1>3 DEF SessionData
  <1>5. /\ SessionsStay
        /\ \A j \in SessionKeys : browser'[j].at # "unused" => browser'[j].by \in Users
        /\ \A j \in SessionKeys : browser'[j].at = "open" =>
               browser[j].at = "unused" \/ browser'[j] = browser[j]
    BY <1>1, <1>4 DEF SessionsStay, AccessInv, OwnersFit
  <1> QED
    BY <1>1, <1>4, <1>5, SessionsChange

LEMMA SignInAgainStep ==
    ASSUME AccessInv, NEW old \in SessionKeys, NEW k \in SessionKeys, SignInAgain(old, k)
    PROVE  AccessInv' /\ Changed /\ Remained
  <1>1. /\ InTurn /\ browser[old].at = "open" /\ browser[k].at = "unused" /\ old # k
        /\ browser' = [browser EXCEPT ![old].at = "ended", ![k] = browser[old]]
        /\ UNCHANGED <<membership, grants, profile, superusers, support, action, accessInTurn>>
    BY DEF SignInAgain
  <1>3. browser \in [SessionKeys -> SessionData]
    BY DEF AccessInv, AccessTyped
  <1>4. /\ browser' \in [SessionKeys -> SessionData]
        /\ browser'[old].at = "ended" /\ browser'[old].by = browser[old].by
        /\ browser'[k] = browser[old]
        /\ \A j \in SessionKeys : j # k /\ j # old => browser'[j] = browser[j]
    BY <1>1, <1>3 DEF SessionData
  <1>5. /\ SessionsStay
        /\ \A j \in SessionKeys : browser'[j].at # "unused" => browser'[j].by \in Users
        /\ \A j \in SessionKeys : browser'[j].at = "open" =>
               browser[j].at = "unused" \/ browser'[j] = browser[j]
    BY <1>1, <1>4 DEF SessionsStay, AccessInv, OwnersFit
  <1> QED
    BY <1>1, <1>4, <1>5, SessionsChange

LEMMA BootstrapStep ==
    ASSUME AccessInv, NEW u \in Users, Bootstrap(u)
    PROVE  AccessInv' /\ Changed /\ Remained
  <1>1. /\ superusers' = superusers \cup {u} /\ profile' = [profile EXCEPT ![u].tenant = Nowhere]
        /\ UNCHANGED <<membership, grants, browser, support, action, accessInTurn>>
    BY DEF Bootstrap
  <1>2. AccessTyped'
    BY <1>1 DEF AccessInv, AccessTyped
  <1>3. SeatsAreThere' /\ GrantsAreVisible' /\ Changed /\ Remained
    BY <1>1, SeatsUntouched
  <1> QED
    BY <1>1, <1>2, <1>3 DEF AccessInv, OneSupportSession, RequestsAreMembers, OneAtATime,
       OpeningIsAlone, StillAsRead, AsRead, SupportOf, Named, OwnersFit

LEMMA AccessInvStep ==
    AccessInv /\ [AccessNext]_accessVars => AccessInv' /\ Changed /\ Remained
  <1> SUFFICES ASSUME AccessInv, [AccessNext]_accessVars
               PROVE  AccessInv' /\ Changed /\ Remained
    OBVIOUS
  <1>1. CASE UNCHANGED accessVars
    <2>1. SeatsAreThere' /\ GrantsAreVisible' /\ Changed /\ Remained
      BY <1>1, SeatsUntouched DEF accessVars
    <2> QED
      BY <1>1, <2>1 DEF accessVars, AccessInv, AccessTyped, OneSupportSession, RequestsAreMembers,
         OneAtATime, OpeningIsAlone, StillAsRead, AsRead, SupportOf, Named, OwnersFit
  <1>2. CASE AccessNext
    <2>1. CASE \E q \in Actions, k \in SessionKeys : Admit(q, k)
      BY <2>1, AdmitStep
    <2>2. CASE \E q \in Actions, u \in Users, role \in {"manager", "sales"},
                  wanted \in SUBSET ActionCodes, scope \in Scopes : UpdateAccess(q, u, role, wanted, scope)
      BY <2>2, UpdateAccessStep
    <2>3. CASE \E q \in Actions, u \in Users, active \in BOOLEAN :
                  MayManageMembers(q) /\ ChangeMember(q, u, active)
      BY <2>3, ChangeMemberStep
    <2>4. CASE \E q \in Actions : FinishAction(q)
      BY <2>4, FinishStep
    <2>5. CASE \E q \in Actions : EndOpenSupport(q)
      BY <2>5, EndOpenStep
    <2>6. CASE \E q \in Actions : ExitSupport(q)
      BY <2>6, ExitStep
    <2>7. CASE \E q \in Actions, w \in Companies : OpenSupport(q, w)
      BY <2>7, OpenStep
    <2>8. CASE \E u \in Users : Bootstrap(u)
      BY <2>8, BootstrapStep
    <2>9. CASE \E k \in SessionKeys, u \in Users : SignIn(k, u)
      BY <2>9, SignInStep
    <2>10. CASE \E k \in SessionKeys : SignOut(k)
      BY <2>10, SignOutStep
    <2>11. CASE \E old, k \in SessionKeys : SignInAgain(old, k)
      BY <2>11, SignInAgainStep
    <2> QED
      BY <1>2, <2>1, <2>2, <2>3, <2>4, <2>5, <2>6, <2>7, <2>8, <2>9, <2>10, <2>11 DEF AccessNext
  <1> QED
    BY <1>1, <1>2

\* However roles, grants and support sessions change and whoever changes them, a
\* manager has no grants beside the role; requests that do not overlap leave one
\* open support session under the key of a session, which names it until it ends,
\* change a member only in the hands of a manager or of who supports the workspace,
\* and never leave a workspace without a manager (users/views.py, users/middleware.py).
THEOREM AccessSound == AccessSpec => AccessIsSound
  <1>1. AccessInit => AccessInv
    BY AccessInitHolds
  <1>2. AccessInv /\ [AccessNext]_accessVars => AccessInv'
    BY AccessInvStep
  <1>3. AccessInv => AccessTypeOK /\ GrantsAreVisible /\ OneSupportSession
    BY TypedIsTypeOK DEF AccessInv
  <1>4. AccessInv /\ [AccessNext]_accessVars =>
            [accessInTurn => \A u \in Users, w \in Companies :
                membership[u][w].there
                /\ <<membership[u][w], grants[u][w]>>' # <<membership[u][w], grants[u][w]>>
                => \E q \in Actions : action[q].at # "idle" /\ action[q].tenant = w
                                     /\ MayManage(action[q].by, action[q].key, w)]_accessVars
    BY AccessInvStep DEF Changed, ByManager
  <1>5. AccessInv /\ [AccessNext]_accessVars =>
            [accessInTurn => \A w \in Companies :
                Managers(w) # {} /\ Managers(w)' = {} =>
                    \E q \in Actions : action[q].at # "idle" /\ action[q].role = "super"]_accessVars
    BY AccessInvStep DEF Remained
  <1> QED
    BY <1>1, <1>2, <1>3, <1>4, <1>5, PTL
       DEF AccessSpec, AccessIsSound, ChangedByManagers, ManagersRemain

-----------------------------------------------------------------------------
(* The inductive invariant: under a token, every row is on one line of the purchase *)
(* of its receipt, and what a draft proposes is on no line of it yet; a save that    *)
(* has checked its token holds the business until it has written.                   *)
Draft == [status : {"none", "draft", "confirmed"}, lines : Seq(Line),
          proposals : SUBSET PastedRows, by : Tokens \cup {"none"}]
Save == [at : {"read", "checked"}, draft : Purchases, by : Tokens \cup {"none"}, rows : SUBSET PastedRows]

SavesTyped == workspace \in [Workspaces -> {NoWorkspace} \cup Save]

\* No two lines of one purchase have the same row under the same token.
Distinct(lines) ==
    \A i, j \in DOMAIN lines : lines[i] = lines[j] /\ lines[i].by \in Tokens => i = j
\* Lines under a token are those of the purchase of its receipt.
ReceivedHere(p, lines) == \A i \in DOMAIN lines : lines[i].by \in Tokens => receipts[lines[i].by] = p

DraftFits(p, d) ==
    /\ Distinct(d.lines) /\ ReceivedHere(p, d.lines)
    /\ d.by = "none" => d.proposals = {}
    /\ d.by \in Tokens => receipts[d.by] = p
    /\ \A pasted \in d.proposals, i \in DOMAIN d.lines : d.lines[i] # [row |-> pasted, by |-> d.by]
    /\ \A pasted \in d.proposals : pasted.ref # Known

DraftsFit == \A p \in Purchases : DraftFits(p, draft[p])

SavesFit ==
    \A w \in Workspaces : workspace[w] # NoWorkspace =>
        /\ workspace[w].by = "none" => workspace[w].rows = {}
        /\ workspace[w].at = "checked" /\ workspace[w].by # "none" =>
               business = w /\ receipts[workspace[w].by] = "none"

ImportInv ==
    ImportTypeOK /\ SavesTyped /\ DraftsFit /\ SavesFit /\ ReceivedAsReviewed

\* The catalogue changes for a purchase that is received, and for one only.
ReceivedNow ==
    \A r \in References : catalogue'[r] # catalogue[r] /\ catalogue'[r] \in Purchases
         => draft[catalogue'[r]].status = "draft" /\ draft'[catalogue'[r]].status = "confirmed"

-----------------------------------------------------------------------------
LEMMA RowsFinite ==
    ASSUME NEW rows \in SUBSET PastedRows
    PROVE  IsFiniteSet(rows)
  <1> DEFINE Refs == References \cup {Known}
             pasted(x) == [ref |-> x[1], n |-> x[2]]
             f == [x \in Refs \X (1..2) |-> pasted(x)]
  <1>1. IsFiniteSet(Refs)
    <2>1. IsFiniteSet({Known})
      BY FS_Singleton
    <2> QED
      BY <2>1, LinesBound, FS_Union
  <1>2. IsFiniteSet(1..2)
    <2>1. 1 \in Int /\ 2 \in Int
      OBVIOUS
    <2> QED
      BY <2>1, FS_Interval, Zenon
  <1>3. IsFiniteSet(Refs \X (1..2))
    BY <1>1, <1>2, FS_Product
  <1>4. f \in [Refs \X (1..2) -> PastedRows]
    BY DEF PastedRows
  <1>5. \A y \in PastedRows : \E x \in Refs \X (1..2) : f[x] = y
    <2> TAKE y \in PastedRows
    <2>1. y.ref \in Refs /\ y.n \in 1..2 /\ y = [ref |-> y.ref, n |-> y.n]
      BY DEF PastedRows
    <2>2. <<y.ref, y.n>> \in Refs \X (1..2) /\ f[<<y.ref, y.n>>] = y
      BY <2>1
    <2> QED
      BY <2>2
  <1>6. f \in Surjection(Refs \X (1..2), PastedRows)
    BY <1>4, <1>5 DEF Surjection
  <1>7. IsFiniteSet(PastedRows)
    BY <1>3, <1>6, FS_Surjection
  <1> QED
    BY <1>7, FS_Subset

\* A sequence of a finite set has its elements, once each.
LEMMA SetToSeqDistinct ==
    ASSUME NEW S, IsFiniteSet(S)
    PROVE  /\ SetToSeq(S) \in Seq(S) /\ DOMAIN SetToSeq(S) = 1..Len(SetToSeq(S))
           /\ \A i, j \in DOMAIN SetToSeq(S) : SetToSeq(S)[i] = SetToSeq(S)[j] => i = j
  <1> DEFINE n == Cardinality(S)
  <1>1. n \in Nat /\ ExistsBijection(1..n, S)
    BY FS_CardinalityType
  <1>2. PICK g : g \in Bijection(1..n, S)
    BY <1>1 DEF ExistsBijection
  <1>3. g \in [1..n -> S] /\ IsInjective(g)
    BY <1>2 DEF Bijection, Injection, IsInjective
  <1>4. SetToSeq(S) \in [1..n -> S] /\ IsInjective(SetToSeq(S))
    BY <1>3 DEF SetToSeq
  <1> QED
    BY <1>1, <1>4, SeqDef, LenProperties DEF IsInjective

\* One line for each row, under the token.
LEMMA LinesOfRows ==
    ASSUME NEW rows \in SUBSET PastedRows, NEW t \in Tokens \cup {"none"}
    PROVE  /\ LinesOf(rows, t) \in Seq(Line)
           /\ \A i \in DOMAIN LinesOf(rows, t) :
                 /\ LinesOf(rows, t)[i].row \in rows /\ LinesOf(rows, t)[i].by = t
                 /\ LinesOf(rows, t)[i] = [row |-> LinesOf(rows, t)[i].row, by |-> t]
           /\ \A i, j \in DOMAIN LinesOf(rows, t) : LinesOf(rows, t)[i] = LinesOf(rows, t)[j] => i = j
  <1> DEFINE S == { [row |-> pasted, by |-> t] : pasted \in rows }
             f == [pasted \in rows |-> [row |-> pasted, by |-> t]]
  <1>1. IsFiniteSet(rows)
    BY RowsFinite
  <1>2. f \in Surjection(rows, S)
    BY DEF Surjection
  <1>3. IsFiniteSet(S)
    BY <1>1, <1>2, FS_Surjection
  <1>4. /\ SetToSeq(S) \in Seq(S) /\ DOMAIN SetToSeq(S) = 1..Len(SetToSeq(S))
        /\ \A i, j \in DOMAIN SetToSeq(S) : SetToSeq(S)[i] = SetToSeq(S)[j] => i = j
    BY <1>3, SetToSeqDistinct
  <1>5. \A i \in DOMAIN SetToSeq(S) : SetToSeq(S)[i] \in S
    BY <1>4, ElementOfSeq
  <1>6. S \subseteq Line
    BY DEF Line
  <1>7. SetToSeq(S) \in Seq(Line)
    <2> HIDE DEF S
    <2> QED
      BY <1>4, <1>6, SeqDef
  <1>8. LinesOf(rows, t) = SetToSeq(S)
    BY DEF LinesOf
  <1>9. \A x \in S : x.row \in rows /\ x.by = t /\ x = [row |-> x.row, by |-> t]
    OBVIOUS
  <1> HIDE DEF S
  <1> QED
    BY <1>4, <1>5, <1>7, <1>8, <1>9

\* Positions that are kept, counted from the first: every one is reached once.
LEMMA Positions ==
    ASSUME NEW n \in Nat, NEW kept \in SUBSET (1..n)
    PROVE  /\ Cardinality(kept) \in Nat
           /\ \A k \in 1..Cardinality(kept) :
                 /\ Position(kept, k) \in kept
                 /\ Cardinality({ j \in kept : j <= Position(kept, k) }) = k
  <1> DEFINE c == Cardinality(kept)
             below(i) == { j \in kept : j <= i }
             f == [i \in kept |-> Cardinality(below(i))]
  <1>1. IsFiniteSet(kept)
    <2>1. IsFiniteSet(1..n)
      BY FS_Interval
    <2> QED
      BY <2>1, FS_Subset
  <1>2. c \in Nat
    BY <1>1, FS_CardinalityType
  <1>3. \A i \in kept : IsFiniteSet(below(i)) /\ Cardinality(below(i)) \in 1..c
    <2> TAKE i \in kept
    <2>1. below(i) \in SUBSET kept
      OBVIOUS
    <2>2. IsFiniteSet(below(i)) /\ Cardinality(below(i)) <= c
      BY <1>1, <2>1, FS_Subset
    <2>3. i \in below(i)
      <3>1. i \in Int
        OBVIOUS
      <3>2. i <= i
        BY <3>1
      <3> QED
        BY <3>2
    <2>4. Cardinality(below(i)) \in Nat /\ Cardinality(below(i)) # 0
      BY <2>2, <2>3, FS_CardinalityType, FS_EmptySet
    <2> QED
      BY <1>2, <2>2, <2>4
  <1>4. \A i, j \in kept : i < j => Cardinality(below(i)) < Cardinality(below(j))
    <2> SUFFICES ASSUME NEW i \in kept, NEW j \in kept, i < j
                 PROVE  Cardinality(below(i)) < Cardinality(below(j))
      OBVIOUS
    <2>1. below(i) \subseteq below(j) /\ j \in below(j) /\ j \notin below(i)
      <3>1. /\ i \in Int /\ j \in Int /\ \A l \in kept : l \in Int
        OBVIOUS
      <3>2. /\ \A l \in kept : l <= i => l <= j
            /\ j <= j /\ ~(j <= i)
        BY <3>1
      <3> QED
        BY <3>2
    <2>2. /\ Cardinality(below(i)) <= Cardinality(below(j))
          /\ below(i) # below(j) => Cardinality(below(i)) < Cardinality(below(j))
      BY <1>3, <2>1, FS_Subset
    <2> QED
      BY <2>1, <2>2
  <1>5. f \in [kept -> 1..c]
    BY <1>3
  <1>6. \A i, j \in kept : f[i] = f[j] => i = j
    <2> SUFFICES ASSUME NEW i \in kept, NEW j \in kept, i # j PROVE f[i] # f[j]
      OBVIOUS
    <2>1. i \in Int /\ j \in Int
      OBVIOUS
    <2>2. i < j \/ j < i
      BY <2>1
    <2>3. f[i] < f[j] \/ f[j] < f[i]
      BY <1>4, <2>2
    <2>4. f[i] \in 1..c /\ f[j] \in 1..c
      BY <1>5
    <2> QED
      BY <2>3, <2>4
  <1>7. f \in Injection(kept, 1..c)
    BY <1>5, <1>6 DEF Injection, IsInjective
  <1>8. IsFiniteSet(1..c) /\ Cardinality(1..c) = c
    BY <1>2, FS_Interval
  <1>9. f \in Surjection(kept, 1..c)
    BY <1>7, <1>8, FS_Injection
  <1>10. \A k \in 1..c : \E i \in kept : Cardinality(below(i)) = k
    BY <1>9 DEF Surjection
  <1> QED
    BY <1>2, <1>10 DEF Position

LEMMA KeptLines ==
    ASSUME NEW lines \in Seq(Line), NEW kept \in SUBSET DOMAIN lines
    PROVE  /\ Kept(lines, kept) \in Seq(Line)
           /\ \A k \in DOMAIN Kept(lines, kept) :
                 \E i \in DOMAIN lines : Kept(lines, kept)[k] = lines[i]
           /\ Distinct(lines) => Distinct(Kept(lines, kept))
  <1> DEFINE c == Cardinality(kept)
             at == [k \in 1..c |-> Position(kept, k)]
             left == Kept(lines, kept)
  <1>1. Len(lines) \in Nat /\ DOMAIN lines = 1..Len(lines) /\ kept \in SUBSET (1..Len(lines))
    OBVIOUS
  <1>2. /\ c \in Nat
        /\ \A k \in 1..c : /\ Position(kept, k) \in kept
                           /\ Cardinality({ j \in kept : j <= Position(kept, k) }) = k
    BY <1>1, Positions
  <1>3. left = [k \in 1..c |-> lines[Position(kept, k)]]
    BY DEF Kept
  <1> HIDE DEF left, c
  <1>4. \A k \in 1..c : left[k] = lines[Position(kept, k)] /\ Position(kept, k) \in DOMAIN lines
    BY <1>2, <1>3
  <1>5. \A k \in 1..c : left[k] \in Line
    BY <1>4, ElementOfSeq
  <1>6. left \in [1..c -> Line]
    BY <1>3, <1>5
  <1>7. left \in Seq(Line) /\ DOMAIN left = 1..c
    BY <1>2, <1>6, SeqDef
  <1>8. \A k, l \in 1..c : Position(kept, k) = Position(kept, l) => k = l
    BY <1>2
  <1>9. Distinct(lines) => Distinct(left)
    BY <1>4, <1>7, <1>8 DEF Distinct
  <1> QED
    BY <1>4, <1>7, <1>9 DEF left

\* Lines put together from two parts that share no line under a token.
LEMMA TogetherDistinct ==
    ASSUME NEW s \in Seq(Line), NEW t \in Seq(Line), Distinct(s), Distinct(t),
           \A i \in DOMAIN s, j \in DOMAIN t : s[i] = t[j] => s[i].by \notin Tokens
    PROVE  /\ s \o t \in Seq(Line) /\ Distinct(s \o t)
           /\ \A i \in DOMAIN (s \o t) :
                 \/ \E j \in DOMAIN s : (s \o t)[i] = s[j]
                 \/ \E j \in DOMAIN t : (s \o t)[i] = t[j]
  <1>1. /\ s \o t \in Seq(Line) /\ Len(s \o t) = Len(s) + Len(t)
        /\ \A i \in 1..(Len(s) + Len(t)) : (s \o t)[i] = IF i <= Len(s) THEN s[i] ELSE t[i - Len(s)]
    BY ConcatProperties
  <1>2. /\ Len(s) \in Nat /\ Len(t) \in Nat /\ DOMAIN s = 1..Len(s) /\ DOMAIN t = 1..Len(t)
        /\ DOMAIN (s \o t) = 1..(Len(s) + Len(t))
    BY <1>1
  <1>3. \A i \in DOMAIN (s \o t) :
            \/ i \in DOMAIN s /\ (s \o t)[i] = s[i]
            \/ i - Len(s) \in DOMAIN t /\ (s \o t)[i] = t[i - Len(s)]
    BY <1>1, <1>2
  <1>4. Distinct(s \o t)
    <2> SUFFICES ASSUME NEW i \in DOMAIN (s \o t), NEW j \in DOMAIN (s \o t),
                        (s \o t)[i] = (s \o t)[j], (s \o t)[i].by \in Tokens
                 PROVE  i = j
      BY DEF Distinct
    <2>1. i \in Int /\ j \in Int
      BY <1>2
    <2> QED
      BY <1>2, <1>3, <2>1 DEF Distinct
  <1> QED
    BY <1>1, <1>3, <1>4

-----------------------------------------------------------------------------
LEMMA DraftFields ==
    ASSUME ImportTypeOK, NEW p \in Purchases
    PROVE  /\ draft[p] \in Draft /\ draft[p].status \in {"none", "draft", "confirmed"}
           /\ draft[p].lines \in Seq(Line) /\ draft[p].proposals \in SUBSET PastedRows
           /\ draft[p].by \in Tokens \cup {"none"}
  BY DEF ImportTypeOK, Draft

LEMMA SaveFields ==
    ASSUME SavesTyped, NEW w \in Workspaces, workspace[w] # NoWorkspace
    PROVE  /\ workspace[w] \in Save /\ workspace[w].at \in {"read", "checked"}
           /\ workspace[w].draft \in Purchases /\ workspace[w].by \in Tokens \cup {"none"}
           /\ workspace[w].rows \in SUBSET PastedRows
  BY DEF SavesTyped, Save

LEMMA AtIsSave ==
    ASSUME NEW w, workspace[w].at \in {"read", "checked"}
    PROVE  workspace[w] # NoWorkspace
  BY DEF NoWorkspace

LEMMA SavesHaveAt ==
    ASSUME SavesTyped, NEW w \in Workspaces
    PROVE  workspace[w].at \in {"none", "read", "checked"}
  BY DEF SavesTyped, Save, NoWorkspace

LEMMA LineFields ==
    ASSUME NEW lines \in Seq(Line), NEW i \in DOMAIN lines
    PROVE  /\ lines[i] \in Line /\ lines[i].row \in PastedRows /\ lines[i].by \in Tokens \cup {"none"}
           /\ lines[i] = [row |-> lines[i].row, by |-> lines[i].by]
  <1>1. lines[i] \in Line
    BY ElementOfSeq
  <1> QED
    BY <1>1 DEF Line

\* No line of a purchase is under a token that has no receipt.
LEMMA TokenUnused ==
    ASSUME ImportInv, NEW t \in Tokens, receipts[t] = "none", NEW p \in Purchases
    PROVE  /\ \A i \in DOMAIN draft[p].lines : draft[p].lines[i].by # t
           /\ draft[p].by # t
  <1>1. p # "none"
    BY ImportNames
  <1>2. DraftFits(p, draft[p])
    BY DEF ImportInv, DraftsFit
  <1> QED
    BY <1>1, <1>2 DEF DraftFits, ReceivedHere

LEMMA ImportInitHolds == ImportInit => ImportInv
  <1> SUFFICES ASSUME ImportInit PROVE ImportInv
    OBVIOUS
  <1>1. /\ NoDraft.lines = <<>> /\ NoDraft.proposals = {} /\ NoDraft.by = "none"
        /\ NoDraft.status = "none" /\ NoDraft \in Draft
    BY DEF NoDraft, Draft
  <1>2. \A p \in Purchases : draft[p] = NoDraft
    BY DEF ImportInit
  <1>3. SavesTyped
    BY DEF ImportInit, SavesTyped
  <1>4. ImportTypeOK
    <2>1. draft \in [Purchases -> Draft]
      BY <1>1 DEF ImportInit
    <2>2. \A w \in Workspaces : workspace[w].at \in {"none", "read", "checked"}
      BY <1>3, SavesHaveAt
    <2> QED
      BY <2>1, <2>2 DEF ImportInit, ImportTypeOK, Draft
  <1>5. DOMAIN NoDraft.lines = {}
    BY <1>1
  <1>6. DraftsFit
    BY <1>1, <1>2, <1>5, ImportNames DEF DraftsFit, DraftFits, Distinct, ReceivedHere
  <1>7. SavesFit
    BY DEF ImportInit, SavesFit
  <1>8. ReceivedAsReviewed
    BY <1>1, <1>2, <1>5 DEF ReceivedAsReviewed
  <1> QED
    BY <1>3, <1>4, <1>6, <1>7, <1>8 DEF ImportInv

-----------------------------------------------------------------------------
\* Pasted rows written to a draft: matches become lines, the others proposals.
LEMMA WrittenDraft ==
    ASSUME ImportInv, NEW p \in Purchases, NEW base \in Seq(Line), Distinct(base),
           ReceivedHere(p, base),
           \A i \in DOMAIN base : base[i].row.ref \in References => catalogue[base[i].row.ref] = p,
           NEW t \in Tokens \cup {"none"}, NEW rows \in SUBSET PastedRows,
           NotApplied(t), t = "none" => Proposed(rows) = {},
           draft' = [draft EXCEPT ![p] = Drafted(p, base, rows, t)],
           catalogue' = CatalogueAfter(rows, p, FALSE), Receipt(t, p)
    PROVE  /\ draft' \in [Purchases -> Draft]
           /\ catalogue' \in [References -> Purchases \cup {"none", "elsewhere"}]
           /\ receipts' \in [Tokens -> Purchases \cup {"none"}]
           /\ \A s \in Tokens : s # t => receipts'[s] = receipts[s]
           /\ DraftsFit' /\ ReceivedAsReviewed' /\ ReceivedNow
  <1> DEFINE new == Drafted(p, base, rows, t)
             added == LinesOf(rows \ Proposed(rows), t)
             lines == base \o added
  <1>1. Proposed(rows) \in SUBSET PastedRows /\ rows \ Proposed(rows) \in SUBSET PastedRows
    BY DEF Proposed
  <1>2. /\ added \in Seq(Line)
        /\ \A i \in DOMAIN added : /\ added[i].row \in rows \ Proposed(rows) /\ added[i].by = t
        /\ \A i, j \in DOMAIN added : added[i] = added[j] => i = j
    BY <1>1, LinesOfRows
  <1>3. \A i \in DOMAIN added : added[i].row.ref = Known
    BY <1>2 DEF Proposed
  <1>4. Distinct(added)
    BY <1>2 DEF Distinct
  <1>5. \A i \in DOMAIN base : base[i].by \in Tokens => base[i].by # t
    BY ImportNames DEF ReceivedHere, NotApplied
  <1> HIDE DEF added
  <1>6. /\ lines \in Seq(Line) /\ Distinct(lines)
        /\ \A i \in DOMAIN lines : \/ \E j \in DOMAIN base : lines[i] = base[j]
                                  \/ \E j \in DOMAIN added : lines[i] = added[j]
    <2>1. \A i \in DOMAIN base, j \in DOMAIN added : base[i] = added[j] => base[i].by \notin Tokens
      BY <1>2, <1>5
    <2> QED
      BY <1>2, <1>4, <2>1, TogetherDistinct
  <1>7. /\ new.status = "draft" /\ new.lines = lines /\ new.proposals = Proposed(rows) /\ new.by = t
        /\ new = [status |-> "draft", lines |-> lines, proposals |-> Proposed(rows), by |-> t]
    BY DEF Drafted, added
  <1> HIDE DEF lines
  <1>8. new \in Draft
    BY <1>1, <1>6, <1>7 DEF Draft
  <1> HIDE DEF new
  <1>9. draft \in [Purchases -> Draft]
    BY DEF ImportInv, ImportTypeOK, Draft
  <1>10. /\ draft' \in [Purchases -> Draft] /\ draft'[p] = new
         /\ \A q \in Purchases : q # p => draft'[q] = draft[q]
    BY <1>8, <1>9 DEF new
  <1>11. catalogue' = catalogue
    BY DEF CatalogueAfter, ImportInv, ImportTypeOK
  <1>12. /\ receipts' \in [Tokens -> Purchases \cup {"none"}]
         /\ t \in Tokens => receipts'[t] = p /\ receipts[t] = "none"
         /\ \A s \in Tokens : s # t => receipts'[s] = receipts[s]
    BY DEF Receipt, NotApplied, ImportInv, ImportTypeOK
  <1>13. DraftFits(p, new)'
    <2>1. Distinct(new.lines)'
      BY <1>6, <1>7 DEF Distinct, new
    <2>2. \A i \in DOMAIN new.lines : new.lines[i].by \in Tokens => receipts'[new.lines[i].by] = p
      <3> SUFFICES ASSUME NEW i \in DOMAIN lines, lines[i].by \in Tokens
                   PROVE  receipts'[lines[i].by] = p
        BY <1>7
      <3>1. CASE \E j \in DOMAIN base : lines[i] = base[j]
        <4>1. PICK j \in DOMAIN base : lines[i] = base[j]
          BY <3>1
        <4>2. base[j].by \in Tokens /\ base[j].by # t /\ receipts[base[j].by] = p
          BY <1>5, <4>1 DEF ReceivedHere
        <4> QED
          BY <1>12, <4>1, <4>2
      <3>2. CASE \E j \in DOMAIN added : lines[i] = added[j]
        <4>1. lines[i].by = t
          BY <1>2, <3>2
        <4> QED
          BY <1>12, <4>1
      <3> QED
        BY <1>6, <3>1, <3>2
    <2>3. \A pasted \in new.proposals, i \in DOMAIN new.lines : new.lines[i] # [row |-> pasted, by |-> t]
      <3> SUFFICES ASSUME NEW pasted \in Proposed(rows), NEW i \in DOMAIN lines,
                          lines[i] = [row |-> pasted, by |-> t]
                   PROVE  FALSE
        BY <1>7
      <3>1. pasted.ref # Known /\ lines[i].row = pasted /\ lines[i].by = t /\ pasted \in rows
        BY DEF Proposed
      <3>2. t \in Tokens
        OBVIOUS
      <3> QED
        BY <1>3, <1>5, <1>6, <3>1, <3>2
    <2>4. \A pasted \in new.proposals : pasted.ref # Known
      BY <1>7 DEF Proposed
    <2>5. new.by = "none" => new.proposals = {}
      BY <1>7
    <2>6. new.by \in Tokens => receipts'[new.by] = p
      BY <1>7, <1>12
    <2> QED
      BY <1>7, <2>1, <2>2, <2>3, <2>4, <2>5, <2>6 DEF DraftFits, Distinct, ReceivedHere, new
  <1>14. DraftsFit'
    <2> SUFFICES ASSUME NEW q \in Purchases PROVE DraftFits(q, draft[q])'
      BY DEF DraftsFit
    <2>1. CASE q = p
      BY <1>10, <1>13, <2>1 DEF DraftFits, Distinct, ReceivedHere, new
    <2>2. CASE q # p
      <3>1. draft'[q] = draft[q] /\ DraftFits(q, draft[q])
        BY <1>10, <2>2 DEF ImportInv, DraftsFit
      <3>2. t \in Tokens => /\ \A i \in DOMAIN draft[q].lines : draft[q].lines[i].by # t
                            /\ draft[q].by # t
        BY <1>12, TokenUnused
      <3> QED
        BY <1>12, <3>1, <3>2 DEF DraftFits, Distinct, ReceivedHere
    <2> QED
      BY <2>1, <2>2
  <1>15. ReceivedAsReviewed'
    <2> SUFFICES ASSUME NEW q \in Purchases
                 PROVE  /\ \A i \in DOMAIN draft'[q].lines :
                              draft'[q].lines[i].row.ref \in References =>
                                  catalogue'[draft'[q].lines[i].row.ref] = q
                        /\ draft'[q].status = "confirmed" => draft'[q].proposals = {}
      BY DEF ReceivedAsReviewed
    <2>1. CASE q = p
      <3>1. \A i \in DOMAIN lines : lines[i].row.ref \in References => catalogue[lines[i].row.ref] = p
        BY <1>3, <1>6, LinesBound
      <3>2. draft'[q].lines = lines /\ draft'[q].status = "draft"
        BY <1>7, <1>10, <2>1
      <3> QED
        BY <1>11, <2>1, <3>1, <3>2
    <2>2. CASE q # p
      <3>1. draft'[q] = draft[q]
        BY <1>10, <2>2
      <3>2. ReceivedAsReviewed
        BY DEF ImportInv
      <3> QED
        BY <1>11, <3>1, <3>2 DEF ReceivedAsReviewed
    <2> QED
      BY <2>1, <2>2
  <1>16. ReceivedNow
    BY <1>11 DEF ReceivedNow
  <1> QED
    BY <1>10, <1>11, <1>12, <1>14, <1>15, <1>16 DEF ImportInv, ImportTypeOK

LEMMA CreateDraftStep ==
    ASSUME ImportInv, NEW p \in Purchases, NEW t \in Tokens \cup {"none"},
           NEW rows \in SUBSET PastedRows, CreateDraft(p, t, rows)
    PROVE  ImportInv' /\ ReceivedNow
  <1>1. /\ NotApplied(t) /\ draft' = [draft EXCEPT ![p] = Drafted(p, <<>>, rows, t)]
        /\ catalogue' = CatalogueAfter(rows, p, FALSE) /\ Receipt(t, p)
        /\ t # "none" => business = "none"
        /\ UNCHANGED <<workspace, business>>
    BY DEF CreateDraft
  <1>2. t = "none" => Proposed(rows) = {}
    BY DEF CreateDraft, Proposed
  <1>3. <<>> \in Seq(Line) /\ DOMAIN <<>> = {}
    OBVIOUS
  <1>4. Distinct(<<>>) /\ ReceivedHere(p, <<>>)
    BY <1>3 DEF Distinct, ReceivedHere
  <1>5. /\ draft' \in [Purchases -> Draft]
        /\ catalogue' \in [References -> Purchases \cup {"none", "elsewhere"}]
        /\ receipts' \in [Tokens -> Purchases \cup {"none"}]
        /\ \A s \in Tokens : s # t => receipts'[s] = receipts[s]
        /\ DraftsFit' /\ ReceivedAsReviewed' /\ ReceivedNow
    BY <1>1, <1>2, <1>3, <1>4, WrittenDraft
  <1>6. ImportTypeOK' /\ SavesTyped'
    BY <1>1, <1>5 DEF ImportInv, ImportTypeOK, SavesTyped, Draft
  <1>7. SavesFit'
    <2> SUFFICES ASSUME NEW w \in Workspaces, workspace[w] # NoWorkspace
                 PROVE  /\ workspace[w].by = "none" => workspace[w].rows = {}
                        /\ workspace[w].at = "checked" /\ workspace[w].by # "none" =>
                               business = w /\ receipts'[workspace[w].by] = "none"
      BY <1>1 DEF SavesFit
    <2>1. workspace[w].at = "checked" /\ workspace[w].by # "none" => business # "none"
      BY ImportNames DEF ImportInv, SavesFit
    <2>2. workspace[w].by \in Tokens \cup {"none"}
      BY SaveFields DEF ImportInv
    <2> QED
      BY <1>1, <1>5, <2>1, <2>2 DEF ImportInv, SavesFit
  <1> QED
    BY <1>5, <1>6, <1>7 DEF ImportInv

\* Steps that leave drafts, catalogue and receipts alone.
LEMMA DraftsUntouched ==
    ASSUME ImportInv, UNCHANGED <<draft, catalogue, receipts>>
    PROVE  DraftsFit' /\ ReceivedAsReviewed' /\ ReceivedNow
  BY DEF ImportInv, DraftsFit, DraftFits, Distinct, ReceivedHere, ReceivedAsReviewed, ReceivedNow

LEMMA OpenDraftStep ==
    ASSUME ImportInv, NEW w \in Workspaces, NEW p \in Purchases, NEW t \in Tokens \cup {"none"},
           NEW rows \in Batches \cup {{}}, OpenDraft(w, p, t, rows)
    PROVE  ImportInv' /\ ReceivedNow
  <1> DEFINE save == [at |-> "read", draft |-> p, by |-> t, rows |-> rows]
  <1>1. workspace' = [workspace EXCEPT ![w] = save] /\ UNCHANGED <<draft, catalogue, receipts, business>>
        /\ (t = "none" => rows = {})
    BY DEF OpenDraft
  <1>2. save \in Save /\ save.at = "read" /\ save.by = t /\ save.rows = rows
    BY BatchesAreRows DEF Save
  <1> HIDE DEF save
  <1>3. SavesTyped'
    BY <1>1, <1>2 DEF ImportInv, SavesTyped
  <1>4. ImportTypeOK'
    <2>1. \A x \in Workspaces : workspace'[x].at \in {"none", "read", "checked"}
      BY <1>3 DEF SavesTyped, Save, NoWorkspace
    <2> QED
      BY <1>1, <2>1 DEF ImportInv, ImportTypeOK
  <1>5. SavesFit'
    BY <1>1, <1>2 DEF ImportInv, SavesTyped, SavesFit
  <1> QED
    BY <1>1, <1>3, <1>4, <1>5, DraftsUntouched DEF ImportInv

LEMMA CheckDraftStep ==
    ASSUME ImportInv, NEW w \in Workspaces, CheckDraft(w)
    PROVE  ImportInv' /\ ReceivedNow
  <1> DEFINE save == [workspace[w] EXCEPT !.at = "checked"]
  <1>1. /\ workspace[w].at = "read" /\ workspace[w] # NoWorkspace
        /\ workspace[w].by # "none" => business = "none"
        /\ NotApplied(workspace[w].by)
        /\ business' = IF workspace[w].by = "none" THEN business ELSE w
        /\ workspace' = [workspace EXCEPT ![w].at = "checked"]
        /\ UNCHANGED <<draft, catalogue, receipts>>
    BY AtIsSave DEF CheckDraft
  <1>2. workspace[w] \in Save /\ workspace[w].by \in Tokens \cup {"none"}
    BY <1>1, SaveFields DEF ImportInv
  <1>3. save \in Save /\ save.at = "checked" /\ save.by = workspace[w].by /\ save.rows = workspace[w].rows
    BY <1>2 DEF Save
  <1>4. workspace' = [workspace EXCEPT ![w] = save]
    BY <1>1 DEF ImportInv, SavesTyped
  <1> HIDE DEF save
  <1>5. SavesTyped' /\ workspace'[w] = save /\ \A x \in Workspaces : x # w => workspace'[x] = workspace[x]
    BY <1>3, <1>4 DEF ImportInv, SavesTyped
  <1>6. ImportTypeOK'
    <2>1. \A x \in Workspaces : workspace'[x].at \in {"none", "read", "checked"}
      BY <1>5 DEF SavesTyped, Save, NoWorkspace
    <2> QED
      BY <1>1, <2>1 DEF ImportInv, ImportTypeOK
  <1>7. SavesFit'
    <2> SUFFICES ASSUME NEW x \in Workspaces, workspace'[x] # NoWorkspace
                 PROVE  /\ workspace'[x].by = "none" => workspace'[x].rows = {}
                        /\ workspace'[x].at = "checked" /\ workspace'[x].by # "none" =>
                               business' = x /\ receipts[workspace'[x].by] = "none"
      BY <1>1 DEF SavesFit
    <2>1. CASE x = w
      BY <1>1, <1>2, <1>3, <1>5, <2>1 DEF ImportInv, SavesFit, NotApplied
    <2>2. CASE x # w
      <3>1. workspace'[x] = workspace[x]
        BY <1>5, <2>2
      <3>2. workspace[x].at = "checked" /\ workspace[x].by # "none" =>
                business = x /\ receipts[workspace[x].by] = "none" /\ business # "none"
        BY <3>1, ImportNames DEF ImportInv, SavesFit
      <3> QED
        BY <1>1, <3>1, <3>2 DEF ImportInv, SavesFit
    <2> QED
      BY <2>1, <2>2
  <1> QED
    BY <1>1, <1>5, <1>6, <1>7, DraftsUntouched DEF ImportInv

\* A save that ends, with the receipts changed under its own token at most.
LEMMA ClosedSave ==
    ASSUME ImportInv, NEW w \in Workspaces, CloseWorkspace(w),
           \A x \in Workspaces : x # w /\ workspace[x].at = "checked" /\ workspace[x].by # "none"
               => receipts'[workspace[x].by] = receipts[workspace[x].by]
    PROVE  /\ SavesTyped' /\ SavesFit' /\ business' \in Workspaces \cup {"none"}
           /\ \A x \in Workspaces : workspace'[x].at \in {"none", "read", "checked"}
  <1>1. /\ workspace' = [workspace EXCEPT ![w] = NoWorkspace]
        /\ business' = IF business = w THEN "none" ELSE business
    BY DEF CloseWorkspace
  <1>2. SavesTyped' /\ \A x \in Workspaces : workspace'[x] # NoWorkspace => x # w /\ workspace'[x] = workspace[x]
    BY <1>1 DEF ImportInv, SavesTyped
  <1>3. \A x \in Workspaces : workspace'[x].at \in {"none", "read", "checked"}
    BY <1>2 DEF SavesTyped, Save, NoWorkspace
  <1>4. SavesFit'
    BY <1>1, <1>2 DEF ImportInv, SavesFit
  <1>5. business' \in Workspaces \cup {"none"}
    BY <1>1 DEF ImportInv, ImportTypeOK
  <1> QED
    BY <1>2, <1>3, <1>4, <1>5

LEMMA FailDraftStep ==
    ASSUME ImportInv, NEW w \in Workspaces, FailDraft(w)
    PROVE  ImportInv' /\ ReceivedNow
  <1>1. CloseWorkspace(w) /\ UNCHANGED <<draft, catalogue, receipts>>
    BY DEF FailDraft
  <1>2. /\ SavesTyped' /\ SavesFit' /\ business' \in Workspaces \cup {"none"}
        /\ \A x \in Workspaces : workspace'[x].at \in {"none", "read", "checked"}
    BY <1>1, ClosedSave
  <1>3. ImportTypeOK'
    BY <1>1, <1>2 DEF ImportInv, ImportTypeOK
  <1> QED
    BY <1>1, <1>2, <1>3, DraftsUntouched DEF ImportInv

LEMMA SaveDraftStep ==
    ASSUME ImportInv, NEW w \in Workspaces, NEW kept \in SUBSET (1..MaxLines), SaveDraft(w, kept)
    PROVE  ImportInv' /\ ReceivedNow
  <1> DEFINE p == workspace[w].draft
             t == workspace[w].by
             rows == workspace[w].rows
             lines == draft[p].lines
             base == Kept(lines, kept)
  <1>1. /\ workspace[w].at = "checked" /\ workspace[w] # NoWorkspace
        /\ kept \subseteq DOMAIN lines
        /\ draft' = [draft EXCEPT ![p] = Drafted(p, base, rows, t)]
        /\ catalogue' = CatalogueAfter(rows, p, FALSE) /\ Receipt(t, p) /\ CloseWorkspace(w)
    BY AtIsSave DEF SaveDraft
  <1>2. p \in Purchases /\ t \in Tokens \cup {"none"} /\ rows \in SUBSET PastedRows
    BY <1>1, SaveFields DEF ImportInv
  <1>3. /\ t = "none" => rows = {}
        /\ t # "none" => business = w /\ receipts[t] = "none"
    BY <1>1 DEF ImportInv, SavesFit
  <1>4. NotApplied(t) /\ (t = "none" => Proposed(rows) = {})
    BY <1>3, ImportNames DEF NotApplied, Proposed
  <1>5. lines \in Seq(Line) /\ DraftFits(p, draft[p])
    BY <1>2, DraftFields DEF ImportInv, DraftsFit
  <1>6. /\ base \in Seq(Line) /\ Distinct(base)
        /\ \A k \in DOMAIN base : \E i \in DOMAIN lines : base[k] = lines[i]
    <2>1. Distinct(lines) /\ kept \in SUBSET DOMAIN lines
      BY <1>1, <1>5 DEF DraftFits
    <2> HIDE DEF lines
    <2> QED
      BY <1>5, <2>1, KeptLines
  <1>7. ReceivedHere(p, base)
    BY <1>5, <1>6 DEF DraftFits, ReceivedHere
  <1>8. \A i \in DOMAIN base : base[i].row.ref \in References => catalogue[base[i].row.ref] = p
    BY <1>2, <1>6 DEF ImportInv, ReceivedAsReviewed
  <1> HIDE DEF p, t, rows, lines, base
  <1>9. /\ draft' \in [Purchases -> Draft]
        /\ catalogue' \in [References -> Purchases \cup {"none", "elsewhere"}]
        /\ receipts' \in [Tokens -> Purchases \cup {"none"}]
        /\ \A s \in Tokens : s # t => receipts'[s] = receipts[s]
        /\ DraftsFit' /\ ReceivedAsReviewed' /\ ReceivedNow
    BY <1>1, <1>2, <1>4, <1>6, <1>7, <1>8, WrittenDraft
  <1>10. ASSUME NEW x \in Workspaces, x # w, workspace[x].at = "checked", workspace[x].by # "none"
         PROVE  receipts'[workspace[x].by] = receipts[workspace[x].by]
    <2>1. workspace[x] # NoWorkspace
      BY <1>10, AtIsSave
    <2>2. business = x /\ workspace[x].by \in Tokens
      BY <1>10, <2>1, SaveFields DEF ImportInv, SavesFit
    <2>3. t = "none"
      BY <1>3, <1>10, <2>2
    <2> QED
      BY <1>9, <1>10, <2>2, <2>3
  <1>11. /\ SavesTyped' /\ SavesFit' /\ business' \in Workspaces \cup {"none"}
         /\ \A x \in Workspaces : workspace'[x].at \in {"none", "read", "checked"}
    BY <1>1, <1>10, ClosedSave
  <1>12. ImportTypeOK'
    BY <1>9, <1>11 DEF ImportTypeOK, Draft
  <1> QED
    BY <1>9, <1>11, <1>12 DEF ImportInv

LEMMA ConfirmDraftStep ==
    ASSUME ImportInv, NEW p \in Purchases, ConfirmDraft(p)
    PROVE  ImportInv' /\ ReceivedNow
  <1> DEFINE d == draft[p]
             added == LinesOf(d.proposals, d.by)
             lines == d.lines \o added
             new == [d EXCEPT !.status = "confirmed", !.lines = lines, !.proposals = {}]
  <1>1. /\ d.status = "draft" /\ StillNew(d.proposals)
        /\ draft' = [draft EXCEPT ![p] = new]
        /\ catalogue' = CatalogueAfter(d.proposals, p, TRUE)
        /\ UNCHANGED <<receipts, workspace, business>>
    BY DEF ConfirmDraft
  <1>2. /\ d \in Draft /\ d.lines \in Seq(Line) /\ d.proposals \in SUBSET PastedRows
        /\ d.by \in Tokens \cup {"none"}
    BY DraftFields DEF ImportInv
  <1>3. DraftFits(p, d)
    BY DEF ImportInv, DraftsFit
  <1> HIDE DEF d
  <1>4. /\ added \in Seq(Line)
        /\ \A i \in DOMAIN added : /\ added[i].row \in d.proposals /\ added[i].by = d.by
                                  /\ added[i] = [row |-> added[i].row, by |-> d.by]
        /\ \A i, j \in DOMAIN added : added[i] = added[j] => i = j
    BY <1>2, LinesOfRows
  <1> HIDE DEF added
  <1>5. /\ lines \in Seq(Line) /\ Distinct(lines)
        /\ \A i \in DOMAIN lines : \/ \E j \in DOMAIN d.lines : lines[i] = d.lines[j]
                                  \/ \E j \in DOMAIN added : lines[i] = added[j]
    <2>1. \A i \in DOMAIN d.lines, j \in DOMAIN added : d.lines[i] # added[j]
      BY <1>3, <1>4 DEF DraftFits
    <2>2. Distinct(added)
      BY <1>4 DEF Distinct
    <2>3. Distinct(d.lines)
      BY <1>3 DEF DraftFits
    <2> QED
      BY <1>2, <1>4, <2>1, <2>2, <2>3, TogetherDistinct
  <1> HIDE DEF lines
  <1>6. /\ new \in Draft /\ new.status = "confirmed" /\ new.lines = lines /\ new.proposals = {}
        /\ new.by = d.by
    BY <1>2, <1>5 DEF Draft
  <1> HIDE DEF new
  <1>7. /\ draft' \in [Purchases -> Draft] /\ draft'[p] = new
        /\ \A q \in Purchases : q # p => draft'[q] = draft[q]
    BY <1>1, <1>6 DEF ImportInv, ImportTypeOK, Draft
  <1>8. /\ catalogue' \in [References -> Purchases \cup {"none", "elsewhere"}]
        /\ \A r \in References : r \in RefsOf(d.proposals) =>
               catalogue[r] = "none" /\ catalogue'[r] = p
        /\ \A r \in References : r \notin RefsOf(d.proposals) => catalogue'[r] = catalogue[r]
    BY <1>1 DEF CatalogueAfter, Origin, StillNew, ImportInv, ImportTypeOK
  <1>9. ImportTypeOK' /\ SavesTyped' /\ SavesFit'
    BY <1>1, <1>7, <1>8 DEF ImportInv, ImportTypeOK, SavesTyped, SavesFit, Draft
  <1>10. DraftsFit'
    <2> SUFFICES ASSUME NEW q \in Purchases PROVE DraftFits(q, draft[q])'
      BY DEF DraftsFit
    <2>1. CASE q = p
      <3>1. \A i \in DOMAIN lines : lines[i].by \in Tokens => receipts[lines[i].by] = p
        BY <1>3, <1>4, <1>5 DEF DraftFits, ReceivedHere
      <3>2. d.by \in Tokens => receipts[d.by] = p
        BY <1>3 DEF DraftFits
      <3> QED
        BY <1>1, <1>5, <1>6, <1>7, <2>1, <3>1, <3>2 DEF DraftFits, Distinct, ReceivedHere
    <2>2. CASE q # p
      BY <1>1, <1>7, <2>2 DEF ImportInv, DraftsFit, DraftFits, Distinct, ReceivedHere
    <2> QED
      BY <2>1, <2>2
  <1>11. ReceivedAsReviewed'
    <2> SUFFICES ASSUME NEW q \in Purchases
                 PROVE  /\ \A i \in DOMAIN draft'[q].lines :
                              draft'[q].lines[i].row.ref \in References =>
                                  catalogue'[draft'[q].lines[i].row.ref] = q
                        /\ draft'[q].status = "confirmed" => draft'[q].proposals = {}
      BY DEF ReceivedAsReviewed
    <2>1. \A x \in Purchases : \A i \in DOMAIN draft[x].lines :
              draft[x].lines[i].row.ref \in References =>
                  catalogue[draft[x].lines[i].row.ref] = x /\ catalogue'[draft[x].lines[i].row.ref] = x
      BY <1>8, ImportNames DEF ImportInv, ReceivedAsReviewed
    <2>2. CASE q = p
      <3>1. \A j \in DOMAIN added : added[j].row.ref \in RefsOf(d.proposals)
        BY <1>3, <1>4 DEF DraftFits, RefsOf, Proposed
      <3>2. \A i \in DOMAIN lines : lines[i].row.ref \in References => catalogue'[lines[i].row.ref] = p
        BY <1>5, <1>8, <2>1, <3>1 DEF d
      <3> QED
        BY <1>6, <1>7, <2>2, <3>2
    <2>3. CASE q # p
      BY <1>7, <2>1, <2>3 DEF ImportInv, ReceivedAsReviewed
    <2> QED
      BY <2>2, <2>3
  <1>12. ReceivedNow
    BY <1>1, <1>6, <1>7, <1>8 DEF ReceivedNow, d
  <1> QED
    BY <1>9, <1>10, <1>11, <1>12 DEF ImportInv

LEMMA CreateElsewhereStep ==
    ASSUME ImportInv, NEW r \in References, CreateElsewhere(r)
    PROVE  ImportInv' /\ ReceivedNow
  <1>1. /\ catalogue[r] = "none" /\ catalogue' = [catalogue EXCEPT ![r] = "elsewhere"]
        /\ UNCHANGED <<draft, receipts, workspace, business>>
    BY DEF CreateElsewhere
  <1>2. \A x \in References : catalogue[x] # "none" => catalogue'[x] = catalogue[x]
    BY <1>1 DEF ImportInv, ImportTypeOK
  <1>3. ImportTypeOK' /\ SavesTyped' /\ SavesFit' /\ DraftsFit'
    BY <1>1 DEF ImportInv, ImportTypeOK, SavesTyped, SavesFit, DraftsFit, DraftFits, Distinct, ReceivedHere
  <1>4. ReceivedAsReviewed'
    BY <1>1, <1>2, ImportNames DEF ImportInv, ReceivedAsReviewed
  <1>5. ReceivedNow
    BY <1>1, ImportNames DEF ReceivedNow, ImportInv, ImportTypeOK
  <1> QED
    BY <1>3, <1>4, <1>5 DEF ImportInv

LEMMA ImportInvStep ==
    ImportInv /\ [ImportNext]_importVars => ImportInv' /\ ReceivedNow
  <1> SUFFICES ASSUME ImportInv, [ImportNext]_importVars PROVE ImportInv' /\ ReceivedNow
    OBVIOUS
  <1>1. CASE UNCHANGED importVars
    BY <1>1, DraftsUntouched DEF importVars, ImportInv, ImportTypeOK, SavesTyped, SavesFit
  <1>2. CASE ImportNext
    <2>1. CASE \E p \in Purchases, t \in Tokens \cup {"none"}, rows \in SUBSET PastedRows :
                  CreateDraft(p, t, rows)
      BY <2>1, CreateDraftStep
    <2>2. CASE \E w \in Workspaces, p \in Purchases, t \in Tokens \cup {"none"},
                  rows \in Batches \cup {{}} : OpenDraft(w, p, t, rows)
      BY <2>2, OpenDraftStep
    <2>3. CASE \E w \in Workspaces : CheckDraft(w)
      BY <2>3, CheckDraftStep
    <2>4. CASE \E w \in Workspaces : FailDraft(w)
      BY <2>4, FailDraftStep
    <2>5. CASE \E w \in Workspaces, kept \in SUBSET (1..MaxLines) : SaveDraft(w, kept)
      BY <2>5, SaveDraftStep
    <2>6. CASE \E p \in Purchases : ConfirmDraft(p)
      BY <2>6, ConfirmDraftStep
    <2>7. CASE \E r \in References : CreateElsewhere(r)
      BY <2>7, CreateElsewhereStep
    <2> QED
      BY <1>2, <2>1, <2>2, <2>3, <2>4, <2>5, <2>6, <2>7 DEF ImportNext
  <1> QED
    BY <1>1, <1>2

\* From the invariant: a row under a token is in one place, on the purchase of the receipt.
LEMMA InvAppliedOnce == ImportInv => AppliedOnce
  <1> SUFFICES ASSUME ImportInv, NEW t \in Tokens, NEW pasted \in PastedRows
               PROVE  /\ Cardinality(Carrying(t, pasted)) <= 1
                      /\ \A c \in Carrying(t, pasted) : c[1] = receipts[t]
    BY DEF AppliedOnce
  <1>1. \A c \in Carrying(t, pasted) :
            /\ c[1] \in Purchases /\ c = <<c[1], c[2]>>
            /\ \/ c[2] \in DOMAIN draft[c[1]].lines /\ draft[c[1]].lines[c[2]] = [row |-> pasted, by |-> t]
               \/ c[2] = 0 /\ pasted \in draft[c[1]].proposals /\ draft[c[1]].by = t
    BY DEF Carrying
  <1>2. \A p \in Purchases : DraftFits(p, draft[p])
    BY DEF ImportInv, DraftsFit
  <1>3. \A c \in Carrying(t, pasted) : c[1] = receipts[t]
    BY <1>1, <1>2 DEF DraftFits, ReceivedHere
  <1>4. \A a, b \in Carrying(t, pasted) : a = b
    <2> SUFFICES ASSUME NEW a \in Carrying(t, pasted), NEW b \in Carrying(t, pasted) PROVE a = b
      OBVIOUS
    <2>1. a[1] = b[1]
      BY <1>3
    <2>2. a[2] = b[2]
      BY <1>1, <1>2, <2>1 DEF DraftFits, Distinct
    <2> QED
      BY <1>1, <2>1, <2>2
  <1>5. Carrying(t, pasted) = {} \/ \E c : Carrying(t, pasted) = {c}
    BY <1>4
  <1>6. Cardinality(Carrying(t, pasted)) \in {0, 1}
    BY <1>5, FS_EmptySet, FS_Singleton
  <1> QED
    BY <1>3, <1>6

\* Whatever drafts, saves and receipts overlap, the rows pasted under one token arrive
\* once, on the purchase of their receipt, a product that was reviewed as new is one the
\* purchase itself created, and only receiving creates it (inventory/purchase_batch.py).
THEOREM ImportsSound == ImportSpec => ImportsAreSound
  <1>1. ImportInit => ImportInv
    BY ImportInitHolds
  <1>2. ImportInv /\ [ImportNext]_importVars => ImportInv'
    BY ImportInvStep
  <1>3. ImportInv => ImportTypeOK /\ AppliedOnce /\ ReceivedAsReviewed
    BY InvAppliedOnce DEF ImportInv
  <1>4. ImportInv /\ [ImportNext]_importVars =>
            [\A r \in References : catalogue'[r] # catalogue[r] /\ catalogue'[r] \in Purchases
                => draft[catalogue'[r]].status = "draft" /\ draft'[catalogue'[r]].status = "confirmed"]_importVars
    BY ImportInvStep DEF ReceivedNow
  <1> QED
    BY <1>1, <1>2, <1>3, <1>4, PTL DEF ImportSpec, ImportsAreSound, DraftsLeaveCatalogue
================================================================================
