--------------------------- MODULE Catalogues_proofs ---------------------------
(***************************************************************************)
(* Proofs about the catalogues, for any number of rows, files and people   *)
(* who write them at the same time: the agreements of legal entity groups, *)
(* the directory of educational organisations, and their partners with     *)
(* the academic structure.  Each theorem is about the specification of     *)
(* all the catalogues together.                                            *)
(***************************************************************************)
EXTENDS PartnerStructure, FiniteSetTheorems, WellFoundedInduction, TLAPS

-----------------------------------------------------------------------------
(* The agreements of legal entity groups. *)

DealRow == [company: Inns, state: {"active", "terminated"}, members: SUBSET Inns]
DealWrite == [deal: Deals, company: Inns, left: SUBSET Inns, taken: SUBSET Inns]

\* The part of the type invariant that the proofs need.
DealsTyped ==
    /\ deals \in [Deals -> DealRow \cup {NoDeal}]
    /\ writing \in [Writers -> DealWrite \cup {NoWrite}]

\* What a transaction has taken nobody else has: neither an agreement in force ...
ClearOfDeals ==
    \A w \in Writing, e \in Deals :
       e # writing[w].deal /\ deals[e].state = "active"
          => /\ writing[w].taken \cap deals[e].members = {}
             /\ writing[w].company # deals[e].company

\* ... nor another transaction, which would put it into force later.
ClearOfWriters ==
    \A v, w \in Writing :
       v # w => /\ writing[v].deal # writing[w].deal
                /\ writing[v].company # writing[w].company
                /\ writing[v].taken \cap writing[w].taken = {}

GroupsInv == DealsTyped /\ OneGroupAtATime /\ ClearOfDeals /\ ClearOfWriters

-----------------------------------------------------------------------------
LEMMA NoDealIsNotActive == NoDeal.state # "active"
BY DEF NoDeal

LEMMA NoWriteLeavesNothing == NoWrite.left = {} /\ NoWrite.taken = {}
BY DEF NoWrite

\* A transaction that has begun with members to take is one that writes.
LEMMA BeginningWrites ==
  ASSUME GroupsInv,
         NEW w \in Writers, NEW d \in Deals, NEW c \in Inns, NEW members \in MemberLists,
         writing[w] = NoWrite, RowIsFree(d),
         \A e \in Deals : e # d /\ deals[e].state = "active" => deals[e].company # c,
         \A v \in Writing : writing[v].company # c,
         deals' = deals,
         writing' = [writing EXCEPT ![w] =
            [deal |-> d, company |-> c, left |-> members, taken |-> {}]]
  PROVE  GroupsInv'
<1> DEFINE begun == [deal |-> d, company |-> c, left |-> members, taken |-> {}]
<1>1. begun \in DealWrite
  BY DEF DealWrite, MemberLists
<1>2. DealsTyped'
  BY <1>1 DEF GroupsInv, DealsTyped
<1>3. writing'[w] = begun /\ \A v \in Writers : v # w => writing'[v] = writing[v]
  BY DEF GroupsInv, DealsTyped
<1>4. Writing' \subseteq Writing \cup {w} /\ w \notin Writing
  BY <1>3 DEF Writing
<1>5. OneGroupAtATime'
  BY DEF GroupsInv, OneGroupAtATime
<1>6. ClearOfDeals'
  BY <1>3, <1>4 DEF GroupsInv, ClearOfDeals, Writing
<1>7. ClearOfWriters'
  BY <1>3, <1>4 DEF GroupsInv, ClearOfWriters, Writing, RowIsFree
<1> QED BY <1>2, <1>5, <1>6, <1>7 DEF GroupsInv

LEMMA OpenKeeps ==
  ASSUME GroupsInv,
         NEW w \in Writers, NEW d \in Deals, NEW c \in Inns, NEW members \in MemberLists,
         OpenDeal(w, d, c, members)
  PROVE  GroupsInv'
<1>1. \A e \in Deals : deals[e].state = "active" => deals[e].company # c
  BY DEF OpenDeal, InForce
<1> QED BY <1>1, BeginningWrites DEF OpenDeal, companyVars

LEMMA EditKeeps ==
  ASSUME GroupsInv,
         NEW w \in Writers, NEW d \in Deals, NEW members \in MemberLists,
         EditDeal(w, d, members)
  PROVE  GroupsInv'
<1>1. deals[d] \in DealRow
  BY NoDealIsNotActive DEF GroupsInv, DealsTyped, EditDeal
<1>2. deals[d].company \in Inns
  BY <1>1 DEF DealRow
<1>3. \A e \in Deals : e # d /\ deals[e].state = "active" => deals[e].company # deals[d].company
  BY DEF GroupsInv, OneGroupAtATime, EditDeal
<1>4. \A v \in Writing : writing[v].company # deals[d].company
  BY DEF GroupsInv, ClearOfDeals, EditDeal, RowIsFree
<1> QED BY <1>2, <1>3, <1>4, BeginningWrites DEF EditDeal, companyVars

\* One more member: its lock is free, and no other agreement in force has it.
LEMMA TakeKeeps ==
  ASSUME GroupsInv, NEW w \in Writers, NEW i \in Inns, TakeMember(w, i)
  PROVE  GroupsInv'
<1>1. writing[w] \in DealWrite /\ w \in Writing
  BY DEF GroupsInv, DealsTyped, TakeMember, Writing
<1>2. writing'[w] = [writing[w] EXCEPT !.left = @ \ {i}, !.taken = @ \cup {i}]
      /\ \A v \in Writers : v # w => writing'[v] = writing[v]
  BY DEF GroupsInv, DealsTyped, TakeMember
<1>3. /\ writing'[w].deal = writing[w].deal /\ writing'[w].company = writing[w].company
      /\ writing'[w].taken = writing[w].taken \cup {i}
      /\ writing'[w] \in DealWrite
  BY <1>1, <1>2 DEF DealWrite
<1>4. Writing' \subseteq Writing
  BY <1>1, <1>2 DEF Writing
<1>5. deals' = deals
  BY DEF TakeMember
<1>6. DealsTyped'
  BY <1>2, <1>3, <1>5 DEF GroupsInv, DealsTyped, TakeMember
<1>7. OneGroupAtATime'
  BY <1>5 DEF GroupsInv, OneGroupAtATime
<1>8. \A e \in Deals : e # writing[w].deal /\ deals[e].state = "active" => i \notin deals[e].members
  BY DEF TakeMember
<1>9. \A v \in Writing : i \notin writing[v].taken
  BY DEF TakeMember, Holders
<1>10. ClearOfDeals'
  <2> SUFFICES ASSUME NEW v \in Writing', NEW e \in Deals,
                      e # writing'[v].deal, deals[e].state = "active"
               PROVE  /\ writing'[v].taken \cap deals[e].members = {}
                      /\ writing'[v].company # deals[e].company
    BY <1>5 DEF ClearOfDeals
  <2>1. v \in Writing /\ v \in Writers
    BY <1>4 DEF Writing
  <2>2. CASE v = w
    BY <2>1, <2>2, <1>3, <1>8 DEF GroupsInv, ClearOfDeals
  <2>3. CASE v # w
    BY <2>1, <2>3, <1>2 DEF GroupsInv, ClearOfDeals
  <2> QED BY <2>2, <2>3
<1>11. ClearOfWriters'
  <2> SUFFICES ASSUME NEW u \in Writing', NEW v \in Writing', u # v
               PROVE  /\ writing'[u].deal # writing'[v].deal
                      /\ writing'[u].company # writing'[v].company
                      /\ writing'[u].taken \cap writing'[v].taken = {}
    BY DEF ClearOfWriters
  <2>1. u \in Writing /\ v \in Writing /\ u \in Writers /\ v \in Writers
    BY <1>4 DEF Writing
  <2>2. \A x \in {u, v} : /\ writing'[x].deal = writing[x].deal
                          /\ writing'[x].company = writing[x].company
                          /\ \/ writing'[x].taken = writing[x].taken
                             \/ x = w /\ writing'[x].taken = writing[x].taken \cup {i}
    BY <2>1, <1>2, <1>3
  <2>3. writing[u].taken \cap writing[v].taken = {}
    BY <2>1 DEF GroupsInv, ClearOfWriters
  <2> QED BY <2>1, <2>2, <2>3, <1>9 DEF GroupsInv, ClearOfWriters
<1> QED BY <1>6, <1>7, <1>10, <1>11 DEF GroupsInv

LEMMA CommitKeeps ==
  ASSUME GroupsInv, NEW w \in Writers, CommitDeal(w)
  PROVE  GroupsInv'
<1> DEFINE d == writing[w].deal
           row == [company |-> writing[w].company, state |-> "active",
                   members |-> writing[w].taken]
<1>1. writing[w] \in DealWrite /\ w \in Writing
  BY DEF GroupsInv, DealsTyped, CommitDeal, Writing
<1>2. d \in Deals /\ row \in DealRow
  BY <1>1 DEF DealWrite, DealRow
<1>3. deals'[d] = row /\ \A e \in Deals : e # d => deals'[e] = deals[e]
  BY <1>2 DEF GroupsInv, DealsTyped, CommitDeal
<1>4. writing'[w] = NoWrite /\ \A v \in Writers : v # w => writing'[v] = writing[v]
  BY DEF GroupsInv, DealsTyped, CommitDeal
<1>5. DealsTyped'
  BY <1>2 DEF GroupsInv, DealsTyped, CommitDeal
<1>6. Writing' = Writing \ {w}
  BY <1>4 DEF Writing
<1>7. \A e \in Deals : e # d /\ deals[e].state = "active"
        => row.members \cap deals[e].members = {} /\ row.company # deals[e].company
  BY <1>1 DEF GroupsInv, ClearOfDeals
<1>8. OneGroupAtATime'
  BY <1>2, <1>3, <1>7 DEF GroupsInv, OneGroupAtATime
<1>9. ClearOfDeals'
  <2> SUFFICES ASSUME NEW v \in Writing', NEW e \in Deals,
                      e # writing'[v].deal, deals'[e].state = "active"
               PROVE  /\ writing'[v].taken \cap deals'[e].members = {}
                      /\ writing'[v].company # deals'[e].company
    BY DEF ClearOfDeals
  <2>1. v \in Writing /\ v # w /\ writing'[v] = writing[v]
    BY <1>4, <1>6 DEF Writing
  <2>2. CASE e = d
    BY <1>1, <1>3, <2>1, <2>2 DEF GroupsInv, ClearOfWriters
  <2>3. CASE e # d
    BY <1>3, <2>1, <2>3 DEF GroupsInv, ClearOfDeals
  <2> QED BY <2>2, <2>3
<1>10. ClearOfWriters'
  BY <1>4, <1>6 DEF GroupsInv, ClearOfWriters, Writing
<1> QED BY <1>5, <1>8, <1>9, <1>10 DEF GroupsInv

LEMMA RollBackKeeps ==
  ASSUME GroupsInv, NEW w \in Writers, RollBackDeal(w)
  PROVE  GroupsInv'
<1>1. deals' = deals /\ writing'[w] = NoWrite
      /\ \A v \in Writers : v # w => writing'[v] = writing[v]
  BY DEF GroupsInv, DealsTyped, RollBackDeal
<1>2. Writing' = Writing \ {w}
  BY <1>1 DEF Writing
<1>3. DealsTyped'
  BY DEF GroupsInv, DealsTyped, RollBackDeal
<1>4. OneGroupAtATime'
  BY <1>1 DEF GroupsInv, OneGroupAtATime
<1>5. \A v \in Writing' : v \in Writing /\ writing'[v] = writing[v]
  BY <1>1, <1>2 DEF Writing
<1>6. ClearOfDeals'
  BY <1>1, <1>5 DEF GroupsInv, ClearOfDeals
<1>7. ClearOfWriters'
  BY <1>5 DEF GroupsInv, ClearOfWriters
<1> QED BY <1>3, <1>4, <1>6, <1>7 DEF GroupsInv

LEMMA TerminateKeeps ==
  ASSUME GroupsInv, NEW d \in Deals, TerminateDeal(d)
  PROVE  GroupsInv'
<1>1. deals[d] \in DealRow
  BY NoDealIsNotActive DEF GroupsInv, DealsTyped, TerminateDeal
<1>2. deals'[d] = [deals[d] EXCEPT !.state = "terminated"]
      /\ \A e \in Deals : e # d => deals'[e] = deals[e]
  BY DEF GroupsInv, DealsTyped, TerminateDeal
<1>3. deals'[d] \in DealRow /\ deals'[d].state # "active"
  BY <1>1, <1>2 DEF DealRow
<1>4. writing' = writing /\ Writing' = Writing
  BY DEF TerminateDeal, Writing
<1>5. DealsTyped'
  BY <1>2, <1>3, <1>4 DEF GroupsInv, DealsTyped, TerminateDeal
<1>6. OneGroupAtATime'
  BY <1>2, <1>3 DEF GroupsInv, OneGroupAtATime
<1>7. \A e \in Deals : deals'[e].state = "active" => deals'[e] = deals[e]
  BY <1>2, <1>3
<1>8. ClearOfDeals'
  BY <1>4, <1>7 DEF GroupsInv, ClearOfDeals
<1>9. ClearOfWriters'
  BY <1>4 DEF GroupsInv, ClearOfWriters
<1> QED BY <1>5, <1>6, <1>8, <1>9 DEF GroupsInv

LEMMA GroupsUntouched ==
  ASSUME GroupsInv, UNCHANGED <<deals, writing>>
  PROVE  GroupsInv'
BY DEF GroupsInv, DealsTyped, OneGroupAtATime, ClearOfDeals, ClearOfWriters, Writing

LEMMA GroupsInitially ==
  ASSUME Init
  PROVE  GroupsInv
<1>1. deals = [d \in Deals |-> NoDeal] /\ writing = [w \in Writers |-> NoWrite]
  BY DEF Init
<1> QED BY <1>1, NoDealIsNotActive
        DEF GroupsInv, DealsTyped, OneGroupAtATime, ClearOfDeals, ClearOfWriters, Writing

LEMMA GroupsStep ==
  ASSUME GroupsInv, [Next]_vars
  PROVE  GroupsInv'
<1>1. CASE CompaniesNext
  <2>1. ASSUME NEW i \in Inns, NEW o \in Ogrns, NEW t \in 1 .. 2, CreateCompany(i, o, t)
        PROVE  GroupsInv'
    BY <2>1, GroupsUntouched DEF CreateCompany
  <2>2. ASSUME NEW f \in CompanyFiles, ImportCompanies(f)
        PROVE  GroupsInv'
    BY <2>2, GroupsUntouched DEF ImportCompanies
  <2> QED BY <1>1, <2>1, <2>2, OpenKeeps, EditKeeps, TakeKeeps, CommitKeeps,
             RollBackKeeps, TerminateKeeps DEF CompaniesNext
<1>2. CASE UNCHANGED allCompanyVars
  BY <1>2, GroupsUntouched DEF allCompanyVars
<1>3. CASE UNCHANGED vars
  BY <1>3, GroupsUntouched DEF vars, allCompanyVars
<1> QED BY <1>1, <1>2, <1>3 DEF Next

(* An organisation belongs to one agreement in force, and a company has     *)
(* one, whatever number of agreements is written at the same time and       *)
(* whatever their members are (LegalEntityGroupHandlers.write and           *)
(* legal_entity_member_single_active_group).                                *)
THEOREM OneGroupHolds == Spec => []OneGroupAtATime
<1>1. Init => GroupsInv
  BY GroupsInitially
<1>2. GroupsInv /\ [Next]_vars => GroupsInv'
  BY GroupsStep
<1>3. GroupsInv => OneGroupAtATime
  BY DEF GroupsInv
<1> QED BY <1>1, <1>2, <1>3, PTL DEF Spec

-----------------------------------------------------------------------------
(* The directory: nothing automatic is trusted, and partners keep the kind *)
(* of their organisation.                                                  *)

Identities == [facts: Facts \cup {"none"}, licence: BOOLEAN, institution: BOOLEAN]

\* The part of the type invariant that the proofs need.
RowsTyped ==
    /\ directory \in [Orgs -> OrgRecord]
    /\ confirmed \in [Orgs -> Identities]
    /\ partners \in [Partners -> [org: Orgs, kind: Kinds] \cup {NoPartner}]
    /\ edit = NoEdit \/ edit \in [org: Orgs, form: Form, late: BOOLEAN]
    /\ joining = NoJoin \/ joining \in [org: Orgs, partner: Partners, kind: Kinds]

\* FOR UPDATE and FOR SHARE of one row exclude each other.
LocksExclude == edit # NoEdit /\ joining # NoJoin => edit.org # joining.org

\* The kind that a partner is being made with is still the kind of its organisation.
JoiningIsCurrent ==
    joining # NoJoin => joining.kind = directory[joining.org].kind

PartnersAreOfKnown == \A p \in Joined : partners[p].org \in Known

DirInv ==
    /\ RowsTyped
    /\ LocksExclude
    /\ JoiningIsCurrent
    /\ PartnersAreOfKnown
    /\ PartnersFollowTheirRecord
    /\ VerifiedIsAsConfirmed

-----------------------------------------------------------------------------
\* Every kind is that of a known row.
LEMMA KindsAreKnown == "none" \notin Kinds
BY DEF Kinds

LEMMA IdentityOf ==
  ASSUME NEW r \in OrgRecord
  PROVE  Identity(r) \in Identities
BY DEF OrgRecord, Identity, Identities

\* A step that leaves the kinds of the rows alone, and whose verified rows are as
\* they were, keeps everything.
LEMMA QuietStep ==
  ASSUME DirInv,
         directory' \in [Orgs -> OrgRecord],
         \A o \in Orgs : /\ directory'[o].kind = directory[o].kind
                         /\ directory'[o].status = "verified"
                              => /\ directory[o].status = "verified"
                                 /\ Identity(directory'[o]) = Identity(directory[o]),
         UNCHANGED <<partners, joining, confirmed, retyped>>,
         edit' = NoEdit \/ /\ edit # NoEdit /\ edit'.org = edit.org
                           /\ edit' \in [org: Orgs, form: Form, late: BOOLEAN]
  PROVE  DirInv'
<1>1. RowsTyped'
  BY DEF DirInv, RowsTyped
<1>2. Known' = Known /\ Joined' = Joined
  BY DEF Known, Joined
<1>3. LocksExclude'
  BY DEF DirInv, LocksExclude
<1>4. JoiningIsCurrent'
  <2>1. joining # NoJoin => joining.org \in Orgs
    BY DEF DirInv, RowsTyped
  <2> QED BY <2>1 DEF DirInv, JoiningIsCurrent
<1>5. \A p \in Joined : partners[p].org \in Orgs
  BY DEF DirInv, PartnersAreOfKnown, Known
<1>6. PartnersAreOfKnown' /\ PartnersFollowTheirRecord'
  BY <1>2, <1>5 DEF DirInv, PartnersAreOfKnown, PartnersFollowTheirRecord
<1>7. VerifiedIsAsConfirmed'
  BY <1>2 DEF DirInv, VerifiedIsAsConfirmed, Known
<1> QED BY <1>1, <1>3, <1>4, <1>6, <1>7 DEF DirInv

\* Nothing of the directory is written.
LEMMA NothingWritten ==
  ASSUME DirInv, UNCHANGED <<directory, partners, joining, confirmed, retyped, edit>>
  PROVE  DirInv'
<1>1. edit = NoEdit \/ edit \in [org: Orgs, form: Form, late: BOOLEAN]
  BY DEF DirInv, RowsTyped
<1>2. directory \in [Orgs -> OrgRecord]
  BY DEF DirInv, RowsTyped
<1> QED BY <1>1, <1>2, QuietStep

-----------------------------------------------------------------------------
LEMMA OpenUpdateKeeps ==
  ASSUME DirInv, NEW o \in Orgs, NEW f \in Forms, OpenUpdate(o, f)
  PROVE  DirInv'
<1>1. f \in Form
  BY DirectoryAssumption
<1>2. edit' = [org |-> o, form |-> f, late |-> TRUE]
      /\ UNCHANGED <<directory, partners, joining, confirmed, retyped>>
  BY DEF OpenUpdate
<1>3. RowsTyped'
  BY <1>1, <1>2 DEF DirInv, RowsTyped
<1>4. LocksExclude'
  BY <1>2 DEF OpenUpdate, Free, Shared, LocksExclude
<1>5. (JoiningIsCurrent /\ PartnersAreOfKnown /\ PartnersFollowTheirRecord
       /\ VerifiedIsAsConfirmed)'
  BY <1>2 DEF DirInv, JoiningIsCurrent, PartnersAreOfKnown, PartnersFollowTheirRecord,
              VerifiedIsAsConfirmed, Known, Joined
<1> QED BY <1>3, <1>4, <1>5 DEF DirInv

\* The edit takes its partners along.
LEMMA CommitUpdateKeeps ==
  ASSUME DirInv, CommitUpdate
  PROVE  DirInv'
<1> DEFINE o == edit.org
           f == edit.form
<1>1. o \in Orgs /\ f \in Form /\ edit # NoEdit
  BY DEF DirInv, RowsTyped, CommitUpdate
<1>2. f.kind \in Kinds /\ f.facts \in Facts \cup {"none"} /\ f.licence \in BOOLEAN
      /\ f.institution \in BOOLEAN /\ f.source \in {"none", "ministry", "registry"}
      /\ f.fresh \in BOOLEAN /\ f.confirm \in BOOLEAN /\ f.codes \in Codes \cup {"keep"}
  BY <1>1 DEF Form
<1>3. directory[o] \in OrgRecord
  BY <1>1 DEF DirInv, RowsTyped
<1>4. /\ CodesAfter(directory[o], f.codes) \in Codes
      /\ FormChecked(directory[o], edit) \in {"never", "stale", "before", "after"}
  BY <1>2, <1>3 DEF CodesAfter, FormChecked, OrgRecord
<1>5. /\ directory'[o] \in OrgRecord
      /\ directory'[o].kind = f.kind
      /\ Identity(directory'[o]) = Identity(f)
      /\ directory'[o].status = "verified" => f.confirm
      /\ \A x \in Orgs : x # o => directory'[x] = directory[x]
  BY <1>1, <1>2, <1>3, <1>4 DEF DirInv, RowsTyped, CommitUpdate, OrgRecord, Identity
<1>6. directory' \in [Orgs -> OrgRecord]
  BY <1>5 DEF DirInv, RowsTyped, CommitUpdate
<1>7. Identity(f) \in Identities
  BY <1>2 DEF Identity, Identities
<1>8. /\ confirmed' \in [Orgs -> Identities]
      /\ f.confirm => confirmed'[o] = Identity(f)
      /\ \A x \in Orgs : x # o => confirmed'[x] = confirmed[x]
  BY <1>1, <1>7 DEF DirInv, RowsTyped, CommitUpdate
<1>9. \A p \in Partners :
        IF partners[p].org = o
        THEN partners'[p] = [partners[p] EXCEPT !.kind = f.kind]
        ELSE partners'[p] = partners[p]
  BY DEF CommitUpdate
<1>10. \A p \in Partners : /\ partners'[p].org = partners[p].org
                           /\ partners[p].org = o => partners'[p].kind = f.kind
                           /\ partners'[p] \in [org: Orgs, kind: Kinds] \cup {NoPartner}
  <2> SUFFICES ASSUME NEW p \in Partners
               PROVE  /\ partners'[p].org = partners[p].org
                      /\ partners[p].org = o => partners'[p].kind = f.kind
                      /\ partners'[p] \in [org: Orgs, kind: Kinds] \cup {NoPartner}
    OBVIOUS
  <2>1. partners[p] \in [org: Orgs, kind: Kinds] \cup {NoPartner}
    BY DEF DirInv, RowsTyped
  <2>2. CASE partners[p].org # o
    BY <1>9, <2>1, <2>2
  <2>3. CASE partners[p].org = o
    <3>1. partners'[p] = [org |-> o, kind |-> f.kind]
      BY <1>9, <2>1, <2>3 DEF NoPartner
    <3> QED BY <3>1, <2>3, <1>1, <1>2
  <2> QED BY <2>2, <2>3
<1>11. edit' = NoEdit /\ joining' = joining /\ retyped' = retyped \ {o}
       /\ DOMAIN partners' = Partners
       /\ partners' = [p \in Partners |-> partners'[p]]
  BY DEF CommitUpdate
<1>12. RowsTyped'
  BY <1>6, <1>8, <1>10, <1>11 DEF DirInv, RowsTyped
<1>13. LocksExclude'
  BY <1>11 DEF LocksExclude
<1>14. JoiningIsCurrent'
  <2>1. joining # NoJoin => joining.org \in Orgs /\ joining.org # o
    BY <1>1 DEF DirInv, RowsTyped, LocksExclude
  <2> QED BY <2>1, <1>5, <1>11 DEF DirInv, JoiningIsCurrent
<1>15. Known \cup {o} \subseteq Known' /\ \A x \in Orgs : x # o /\ x \in Known' => x \in Known
  BY <1>1, <1>2, <1>5, KindsAreKnown DEF Known
<1>16. \A p \in Joined' : partners[p].org # o => p \in Joined /\ partners'[p] = partners[p]
  BY <1>9 DEF Joined
<1>17. PartnersAreOfKnown'
  <2> SUFFICES ASSUME NEW p \in Joined' PROVE partners'[p].org \in Known'
    BY DEF PartnersAreOfKnown
  <2>1. p \in Partners
    BY DEF Joined
  <2> QED BY <2>1, <1>10, <1>15, <1>16 DEF DirInv, PartnersAreOfKnown
<1>18. PartnersFollowTheirRecord'
  <2> SUFFICES ASSUME NEW p \in Joined'
               PROVE  \/ partners'[p].kind = directory'[partners'[p].org].kind
                      \/ partners'[p].org \in retyped'
    BY DEF PartnersFollowTheirRecord
  <2>1. p \in Partners
    BY DEF Joined
  <2>2. CASE partners[p].org = o
    BY <2>1, <2>2, <1>5, <1>10
  <2>3. CASE partners[p].org # o
    <3>1. p \in Joined /\ partners'[p] = partners[p] /\ partners[p].org \in Orgs
      BY <2>3, <1>16 DEF DirInv, PartnersAreOfKnown, Known
    <3> QED BY <3>1, <2>3, <1>5, <1>11 DEF DirInv, PartnersFollowTheirRecord
  <2> QED BY <2>2, <2>3
<1>19. VerifiedIsAsConfirmed'
  BY <1>1, <1>5, <1>8, <1>15 DEF DirInv, VerifiedIsAsConfirmed, Known
<1> QED BY <1>12, <1>13, <1>14, <1>17, <1>18, <1>19 DEF DirInv

LEMMA AbandonUpdateKeeps ==
  ASSUME DirInv, AbandonUpdate
  PROVE  DirInv'
<1>1. directory \in [Orgs -> OrgRecord]
  BY DEF DirInv, RowsTyped
<1> QED BY <1>1, QuietStep DEF AbandonUpdate

\* A row that is new has no partner yet.
LEMMA CreateKeeps ==
  ASSUME DirInv, NEW o \in Orgs, NEW f \in Forms, NEW m \in BOOLEAN, CreateDirectory(o, f, m)
  PROVE  DirInv'
<1>1. f \in Form
  BY DirectoryAssumption
<1>2. f.kind \in Kinds /\ f.facts \in Facts \cup {"none"} /\ f.licence \in BOOLEAN
      /\ f.institution \in BOOLEAN /\ f.source \in {"none", "ministry", "registry"}
      /\ f.fresh \in BOOLEAN /\ f.confirm \in BOOLEAN /\ f.codes \in Codes \cup {"keep"}
  BY <1>1 DEF Form
<1>3. /\ directory'[o] \in OrgRecord
      /\ Identity(directory'[o]) = Identity(f)
      /\ directory'[o].status = "verified" => f.confirm /\ ~ m
      /\ directory'[o].kind # "none"
      /\ \A x \in Orgs : x # o => directory'[x] = directory[x]
  BY <1>2, KindsAreKnown
     DEF DirInv, RowsTyped, CreateDirectory, OrgRecord, Identity, Codes, Kinds
<1>4. directory' \in [Orgs -> OrgRecord]
  BY <1>3 DEF DirInv, RowsTyped, CreateDirectory
<1>5. Identity(f) \in Identities
  BY <1>2 DEF Identity, Identities
<1>6. /\ confirmed' \in [Orgs -> Identities]
      /\ f.confirm /\ ~ m => confirmed'[o] = Identity(f)
      /\ \A x \in Orgs : x # o => confirmed'[x] = confirmed[x]
  BY <1>5 DEF DirInv, RowsTyped, CreateDirectory
<1>7. UNCHANGED <<partners, edit, joining, retyped>> /\ o \notin Known
  BY DEF CreateDirectory
<1>8. RowsTyped'
  BY <1>4, <1>6, <1>7 DEF DirInv, RowsTyped
<1>9. LocksExclude'
  BY <1>7 DEF DirInv, LocksExclude
<1>10. JoiningIsCurrent'
  <2>1. joining # NoJoin => joining.org \in Orgs /\ joining.kind \in Kinds
    BY DEF DirInv, RowsTyped
  <2>2. joining # NoJoin => joining.org # o
    BY <2>1, <1>7, KindsAreKnown DEF DirInv, JoiningIsCurrent, Known
  <2> QED BY <2>1, <2>2, <1>3, <1>7 DEF DirInv, JoiningIsCurrent
<1>11. Known' = Known \cup {o} /\ Joined' = Joined
  BY <1>3, <1>7 DEF Known, Joined
<1>12. \A p \in Joined : partners[p].org \in Orgs /\ partners[p].org # o
  BY <1>7 DEF DirInv, PartnersAreOfKnown, Known
<1>13. PartnersAreOfKnown' /\ PartnersFollowTheirRecord'
  BY <1>3, <1>7, <1>11, <1>12 DEF DirInv, PartnersAreOfKnown, PartnersFollowTheirRecord
<1>14. VerifiedIsAsConfirmed'
  BY <1>3, <1>6, <1>11 DEF DirInv, VerifiedIsAsConfirmed, Known
<1> QED BY <1>8, <1>9, <1>10, <1>13, <1>14 DEF DirInv

\* The row is trusted from here on, as it is.
LEMMA ApproveKeeps ==
  ASSUME DirInv, NEW o \in Orgs, Approve(o)
  PROVE  DirInv'
<1>1. directory[o] \in OrgRecord
  BY DEF DirInv, RowsTyped
<1>2. /\ directory'[o] \in OrgRecord
      /\ directory'[o].kind = directory[o].kind
      /\ Identity(directory'[o]) = Identity(directory[o])
      /\ \A x \in Orgs : x # o => directory'[x] = directory[x]
  BY <1>1 DEF DirInv, RowsTyped, Approve, OrgRecord, Identity
<1>3. directory' \in [Orgs -> OrgRecord]
  BY <1>2 DEF DirInv, RowsTyped, Approve
<1>4. /\ confirmed' \in [Orgs -> Identities]
      /\ confirmed'[o] = Identity(directory[o])
      /\ \A x \in Orgs : x # o => confirmed'[x] = confirmed[x]
  BY <1>1, IdentityOf DEF DirInv, RowsTyped, Approve
<1>5. UNCHANGED <<partners, edit, joining, retyped>>
  BY DEF Approve
<1>6. RowsTyped'
  BY <1>3, <1>4, <1>5 DEF DirInv, RowsTyped
<1>7. LocksExclude'
  BY <1>5 DEF DirInv, LocksExclude
<1>8. \A x \in Orgs : directory'[x].kind = directory[x].kind
  BY <1>2
<1>9. JoiningIsCurrent'
  <2>1. joining # NoJoin => joining.org \in Orgs
    BY DEF DirInv, RowsTyped
  <2> QED BY <2>1, <1>5, <1>8 DEF DirInv, JoiningIsCurrent
<1>10. Known' = Known /\ Joined' = Joined
  BY <1>5, <1>8 DEF Known, Joined
<1>11. \A p \in Joined : partners[p].org \in Orgs
  BY DEF DirInv, PartnersAreOfKnown, Known
<1>12. PartnersAreOfKnown' /\ PartnersFollowTheirRecord'
  BY <1>5, <1>8, <1>10, <1>11 DEF DirInv, PartnersAreOfKnown, PartnersFollowTheirRecord
<1>13. VerifiedIsAsConfirmed'
  BY <1>2, <1>4, <1>10 DEF DirInv, VerifiedIsAsConfirmed, Known
<1> QED BY <1>6, <1>7, <1>9, <1>12, <1>13 DEF DirInv

LEMMA RejectKeeps ==
  ASSUME DirInv, NEW o \in Orgs, Reject(o)
  PROVE  DirInv'
<1>1. directory[o] \in OrgRecord
  BY DEF DirInv, RowsTyped
<1>2. /\ directory'[o] = [directory[o] EXCEPT !.status = "rejected"]
      /\ \A x \in Orgs : x # o => directory'[x] = directory[x]
  BY DEF DirInv, RowsTyped, Reject
<1>3. directory'[o] \in OrgRecord /\ directory'[o].kind = directory[o].kind
      /\ directory'[o].status # "verified"
  BY <1>1, <1>2 DEF OrgRecord
<1>4. directory' \in [Orgs -> OrgRecord]
  BY <1>2, <1>3 DEF DirInv, RowsTyped, Reject
<1>5. edit = NoEdit \/ edit \in [org: Orgs, form: Form, late: BOOLEAN]
  BY DEF DirInv, RowsTyped
<1> QED BY <1>2, <1>3, <1>4, <1>5, QuietStep DEF Reject

\* A file over the stored rows, none of which is locked; only its confirmation trusts.
LEMMA UpsertKeeps ==
  ASSUME DirInv, NEW f \in DirectoryFiles, NEW status \in {"pending", "verified"},
         UpsertRows(f, status),
         confirmed' = IF status = "verified"
                      THEN [o \in Orgs |-> IF o \in DOMAIN f THEN Identity(f[o]) ELSE confirmed[o]]
                      ELSE confirmed,
         UNCHANGED <<partners, edit, joining>>
  PROVE  DirInv'
<1>1. DOMAIN f \subseteq Orgs /\ \A o \in DOMAIN f : f[o] \in FileRow
  BY DirectoryAssumption
<1>2. ASSUME NEW o \in DOMAIN f
      PROVE  /\ directory'[o] \in OrgRecord
             /\ directory'[o].kind = f[o].kind /\ f[o].kind \in Kinds
             /\ directory'[o].status = status
             /\ Identity(directory'[o]) = Identity(f[o])
             /\ Identity(f[o]) \in Identities
  <2>1. f[o] \in FileRow /\ directory[o] \in OrgRecord
    BY <1>1 DEF DirInv, RowsTyped
  <2>2. f[o].kind \in Kinds /\ f[o].facts \in Facts /\ f[o].licence \in BOOLEAN
        /\ f[o].institution \in BOOLEAN /\ f[o].codes \in Codes \cup {"keep"}
    BY <2>1 DEF FileRow
  <2>3. /\ CodesAfter(directory[o], f[o].codes) \in Codes
        /\ CheckedAfter(directory[o], f[o].codes) \in {"never", "stale", "before", "after"}
    BY <2>1, <2>2 DEF CodesAfter, CheckedAfter, OrgRecord
  <2>4. directory'[o] = Upserted(directory[o], f[o], status)
    BY <1>1 DEF UpsertRows
  <2> QED BY <2>1, <2>2, <2>3, <2>4 DEF Upserted, OrgRecord, Identity, Identities
<1>3. \A o \in Orgs : o \notin DOMAIN f => directory'[o] = directory[o]
  BY DEF UpsertRows
<1>4. directory' \in [Orgs -> OrgRecord]
  <2>1. directory' = [o \in Orgs |-> directory'[o]]
    BY DEF UpsertRows
  <2>2. \A o \in Orgs : directory'[o] \in OrgRecord
    BY <1>2, <1>3 DEF DirInv, RowsTyped
  <2> QED BY <2>1, <2>2
<1>5. \A o \in Orgs : confirmed'[o] = IF status = "verified" /\ o \in DOMAIN f
                                      THEN Identity(f[o]) ELSE confirmed[o]
  BY DEF DirInv, RowsTyped
<1>6. confirmed' \in [Orgs -> Identities]
  BY <1>2, <1>5 DEF DirInv, RowsTyped
<1>7. RowsTyped'
  BY <1>4, <1>6 DEF DirInv, RowsTyped
<1>8. LocksExclude'
  BY DEF DirInv, LocksExclude
<1>9. JoiningIsCurrent'
  <2>1. joining # NoJoin => joining.org \in Orgs
    BY DEF DirInv, RowsTyped
  <2>2. joining.org \notin DOMAIN f
    BY DEF UpsertRows, Free, Shared
  <2> QED BY <2>1, <2>2, <1>3 DEF DirInv, JoiningIsCurrent
<1>10. Joined' = Joined /\ Known' = Known \cup DOMAIN f
  BY <1>1, <1>2, <1>3, KindsAreKnown DEF Known, Joined
<1>11. PartnersAreOfKnown'
  BY <1>10 DEF DirInv, PartnersAreOfKnown
<1>12. PartnersFollowTheirRecord'
  <2> SUFFICES ASSUME NEW p \in Joined
               PROVE  \/ partners[p].kind = directory'[partners[p].org].kind
                      \/ partners[p].org \in retyped'
    BY <1>10 DEF PartnersFollowTheirRecord
  <2>1. partners[p].org \in Known /\ partners[p].org \in Orgs
    BY DEF DirInv, PartnersAreOfKnown, Known
  <2>2. \/ partners[p].kind = directory[partners[p].org].kind
        \/ partners[p].org \in retyped
    BY DEF DirInv, PartnersFollowTheirRecord
  <2>3. retyped' = retyped \cup {o \in DOMAIN f \cap Known : f[o].kind # directory[o].kind}
    BY DEF UpsertRows
  <2>4. CASE partners[p].org \in DOMAIN f
    BY <2>1, <2>2, <2>3, <2>4, <1>2
  <2>5. CASE partners[p].org \notin DOMAIN f
    BY <2>1, <2>2, <2>3, <2>5, <1>3
  <2> QED BY <2>4, <2>5
<1>13. VerifiedIsAsConfirmed'
  <2> SUFFICES ASSUME NEW o \in Known', directory'[o].status = "verified"
               PROVE  Identity(directory'[o]) = confirmed'[o]
    BY DEF VerifiedIsAsConfirmed
  <2>1. o \in Orgs
    BY DEF Known
  <2>2. CASE o \in DOMAIN f
    BY <2>1, <2>2, <1>2, <1>5
  <2>3. CASE o \notin DOMAIN f
    <3>1. o \in Known /\ directory'[o] = directory[o] /\ confirmed'[o] = confirmed[o]
      BY <2>1, <2>3, <1>3, <1>5 DEF Known
    <3> QED BY <3>1 DEF DirInv, VerifiedIsAsConfirmed
  <2> QED BY <2>2, <2>3
<1> QED BY <1>7, <1>8, <1>9, <1>11, <1>12, <1>13 DEF DirInv

LEMMA ImportKeeps ==
  ASSUME DirInv, NEW f \in DirectoryFiles, ImportDirectory(f)
  PROVE  DirInv'
BY UpsertKeeps DEF ImportDirectory

LEMMA SyncKeeps ==
  ASSUME DirInv, NEW f \in DirectoryFiles, SyncApply(f)
  PROVE  DirInv'
BY UpsertKeeps DEF SyncApply

-----------------------------------------------------------------------------
\* The automata: each makes pending what it writes, or leaves the identity alone.
LEMMA SearchResetKeeps ==
  ASSUME DirInv, NEW o \in Orgs, SearchReset(o)
  PROVE  DirInv'
<1>1. directory[o] \in OrgRecord
  BY DEF DirInv, RowsTyped
<1>2. /\ directory'[o] = [directory[o] EXCEPT !.status = "pending"]
      /\ \A x \in Orgs : x # o => directory'[x] = directory[x]
  BY DEF DirInv, RowsTyped, SearchReset
<1>3. directory'[o] \in OrgRecord /\ directory'[o].kind = directory[o].kind
      /\ directory'[o].status # "verified"
  BY <1>1, <1>2 DEF OrgRecord
<1>4. directory' \in [Orgs -> OrgRecord]
  BY <1>2, <1>3 DEF DirInv, RowsTyped, SearchReset
<1>5. edit = NoEdit \/ edit \in [org: Orgs, form: Form, late: BOOLEAN]
  BY DEF DirInv, RowsTyped
<1> QED BY <1>2, <1>3, <1>4, <1>5, QuietStep DEF SearchReset

LEMMA SearchWriteKeeps ==
  ASSUME DirInv, NEW facts \in Facts, NEW alive \in BOOLEAN, SearchWrite(facts, alive)
  PROVE  DirInv'
<1> DEFINE o == search.at
<1>1. \A x \in Orgs : x # o => directory'[x] = directory[x]
  BY DEF DirInv, RowsTyped, SearchWrite
<1>2. ASSUME o \in Orgs
      PROVE  /\ directory'[o] \in OrgRecord /\ directory'[o].kind = directory[o].kind
             /\ directory'[o].status # "verified"
  <2>1. directory[o] \in OrgRecord
    BY <1>2 DEF DirInv, RowsTyped
  <2>2. directory'[o] = [directory[o] EXCEPT !.facts = facts, !.institution = alive,
                           !.source = "registry", !.fresh = TRUE, !.status = "pending"]
    BY <1>2 DEF DirInv, RowsTyped, SearchWrite
  <2> QED BY <2>1, <2>2 DEF OrgRecord
<1>3. \A x \in Orgs : directory[x] \in OrgRecord
  BY DEF DirInv, RowsTyped
<1>4. \A x \in Orgs : directory'[x] \in OrgRecord
  BY <1>1, <1>2, <1>3
<1>5. directory' \in [Orgs -> OrgRecord]
  BY <1>4 DEF DirInv, RowsTyped, SearchWrite
<1>6. edit = NoEdit \/ edit \in [org: Orgs, form: Form, late: BOOLEAN]
  BY DEF DirInv, RowsTyped
<1> QED BY <1>1, <1>2, <1>5, <1>6, QuietStep DEF SearchWrite

LEMMA CollectStartKeeps ==
  ASSUME DirInv, CollectStart
  PROVE  DirInv'
<1>1. ASSUME NEW x \in Orgs
      PROVE  /\ directory'[x] \in OrgRecord /\ directory'[x].kind = directory[x].kind
             /\ directory'[x].status = directory[x].status
             /\ Identity(directory'[x]) = Identity(directory[x])
  <2>1. directory[x] \in OrgRecord
    BY DEF DirInv, RowsTyped
  <2>2. directory'[x] = [directory[x] EXCEPT !.checked = IF @ = "after" THEN "before" ELSE @]
    BY DEF CollectStart
  <2> QED BY <2>1, <2>2 DEF OrgRecord, Identity
<1>2. directory' \in [Orgs -> OrgRecord]
  BY <1>1 DEF CollectStart
<1>3. edit' = NoEdit \/ /\ edit # NoEdit /\ edit'.org = edit.org
                        /\ edit' \in [org: Orgs, form: Form, late: BOOLEAN]
  BY DEF DirInv, RowsTyped, CollectStart
<1> QED BY <1>1, <1>2, <1>3, QuietStep DEF CollectStart

LEMMA CollectSaveKeeps ==
  ASSUME DirInv, NEW o \in Orgs, NEW codes \in {"match", "other"}, CollectSave(o, codes)
  PROVE  DirInv'
<1>1. directory[o] \in OrgRecord
  BY DEF DirInv, RowsTyped
<1>2. /\ directory'[o] = [directory[o] EXCEPT !.codes = codes, !.checked = "after"]
      /\ \A x \in Orgs : x # o => directory'[x] = directory[x]
  BY DEF DirInv, RowsTyped, CollectSave
<1>3. /\ directory'[o] \in OrgRecord /\ directory'[o].kind = directory[o].kind
      /\ directory'[o].status = directory[o].status
      /\ Identity(directory'[o]) = Identity(directory[o])
  BY <1>1, <1>2 DEF OrgRecord, Identity, Codes
<1>4. directory' \in [Orgs -> OrgRecord]
  BY <1>2, <1>3 DEF DirInv, RowsTyped, CollectSave
<1>5. edit = NoEdit \/ edit \in [org: Orgs, form: Form, late: BOOLEAN]
  BY DEF DirInv, RowsTyped
<1> QED BY <1>2, <1>3, <1>4, <1>5, QuietStep DEF CollectSave

LEMMA MonthKeeps ==
  ASSUME DirInv, Month
  PROVE  DirInv'
<1>1. ASSUME NEW x \in Orgs
      PROVE  /\ directory'[x] \in OrgRecord /\ directory'[x].kind = directory[x].kind
             /\ directory'[x].status = directory[x].status
             /\ Identity(directory'[x]) = Identity(directory[x])
  <2>1. directory[x] \in OrgRecord
    BY DEF DirInv, RowsTyped
  <2>2. directory'[x] = [directory[x] EXCEPT !.fresh = FALSE,
                           !.checked = IF @ = "never" THEN @ ELSE "stale"]
    BY DEF Month
  <2> QED BY <2>1, <2>2 DEF OrgRecord, Identity
<1>2. directory' \in [Orgs -> OrgRecord]
  BY <1>1 DEF Month
<1> QED BY <1>1, <1>2, QuietStep DEF Month

-----------------------------------------------------------------------------
\* A partner that is being made holds the row of its organisation.
LEMMA OpenPartnerKeeps ==
  ASSUME DirInv, NEW p \in Partners, NEW o \in Orgs, OpenPartner(p, o)
  PROVE  DirInv'
<1>1. directory[o] \in OrgRecord /\ directory[o].kind # "none"
  BY DEF DirInv, RowsTyped, OpenPartner, Known
<1>2. directory[o].kind \in Kinds
  BY <1>1 DEF OrgRecord
<1>3. joining' = [org |-> o, partner |-> p, kind |-> directory[o].kind]
      /\ UNCHANGED <<directory, partners, edit, confirmed, retyped>>
  BY DEF OpenPartner
<1>4. RowsTyped'
  BY <1>2, <1>3 DEF DirInv, RowsTyped
<1>5. LocksExclude' /\ JoiningIsCurrent'
  BY <1>3 DEF OpenPartner, Edited, LocksExclude, JoiningIsCurrent
<1>6. (PartnersAreOfKnown /\ PartnersFollowTheirRecord /\ VerifiedIsAsConfirmed)'
  BY <1>3 DEF DirInv, PartnersAreOfKnown, PartnersFollowTheirRecord, VerifiedIsAsConfirmed,
              Known, Joined
<1> QED BY <1>4, <1>5, <1>6 DEF DirInv

LEMMA ClosePartnerKeeps ==
  ASSUME DirInv, NEW committed \in BOOLEAN, ClosePartner(committed)
  PROVE  DirInv'
<1>1. joining \in [org: Orgs, partner: Partners, kind: Kinds]
  BY DEF DirInv, RowsTyped, ClosePartner
<1>2. joining' = NoJoin /\ UNCHANGED <<directory, edit, confirmed, retyped>>
  BY DEF ClosePartner
<1>3. \A p \in Partners :
        partners'[p] = IF committed /\ p = joining.partner
                       THEN [org |-> joining.org, kind |-> joining.kind] ELSE partners[p]
  BY <1>1 DEF DirInv, RowsTyped, ClosePartner
<1>4. RowsTyped'
  BY <1>1, <1>2 DEF DirInv, RowsTyped, ClosePartner
<1>5. LocksExclude' /\ JoiningIsCurrent'
  BY <1>2 DEF LocksExclude, JoiningIsCurrent
<1>6. directory[joining.org].kind = joining.kind /\ joining.org \in Known
  BY <1>1, KindsAreKnown DEF DirInv, JoiningIsCurrent, ClosePartner, Known
<1>7. ASSUME NEW p \in Joined'
      PROVE  /\ partners'[p].org \in Known
             /\ \/ partners'[p].kind = directory[partners'[p].org].kind
                \/ partners'[p].org \in retyped
  <2>1. p \in Partners
    BY DEF Joined
  <2>2. CASE committed /\ p = joining.partner
    BY <2>1, <2>2, <1>3, <1>6
  <2>3. CASE ~ (committed /\ p = joining.partner)
    <3>1. partners'[p] = partners[p] /\ p \in Joined
      BY <2>1, <2>3, <1>3 DEF Joined
    <3> QED BY <3>1 DEF DirInv, PartnersAreOfKnown, PartnersFollowTheirRecord
  <2> QED BY <2>2, <2>3
<1>8. Known' = Known
  BY <1>2 DEF Known
<1>9. PartnersAreOfKnown' /\ PartnersFollowTheirRecord'
  BY <1>2, <1>7, <1>8 DEF PartnersAreOfKnown, PartnersFollowTheirRecord
<1>10. VerifiedIsAsConfirmed'
  BY <1>2, <1>8 DEF DirInv, VerifiedIsAsConfirmed
<1> QED BY <1>4, <1>5, <1>9, <1>10 DEF DirInv

-----------------------------------------------------------------------------
LEMMA DirectoryStep ==
  ASSUME DirInv, DirectoryNext
  PROVE  DirInv'
<1>1. CASE CommitUpdate \/ AbandonUpdate
  BY <1>1, CommitUpdateKeeps, AbandonUpdateKeeps
<1>2. CASE \E o \in Orgs, f \in Forms : OpenUpdate(o, f)
  BY <1>2, OpenUpdateKeeps
<1>3. CASE \E o \in Orgs, f \in Forms, m \in BOOLEAN : CreateDirectory(o, f, m)
  BY <1>3, CreateKeeps
<1>4. CASE \E o \in Orgs : Approve(o) \/ Reject(o)
  BY <1>4, ApproveKeeps, RejectKeeps
<1>5. CASE \E f \in DirectoryFiles : ImportDirectory(f) \/ SyncApply(f)
  BY <1>5, ImportKeeps, SyncKeeps
<1>6. CASE SyncStart \/ (\E died \in BOOLEAN : SyncFail(died))
  BY <1>6, NothingWritten DEF SyncStart, SyncFail
<1>7. CASE \E o \in Orgs : SearchReset(o)
  BY <1>7, SearchResetKeeps
<1>8. CASE \E f \in Facts, alive \in BOOLEAN : SearchWrite(f, alive)
  BY <1>8, SearchWriteKeeps
<1>9. CASE SearchStart \/ SearchMiss \/ SearchEnd
  BY <1>9, NothingWritten DEF SearchStart, SearchMiss, SearchEnd
<1>10. CASE CollectStart
  BY <1>10, CollectStartKeeps
<1>11. CASE \E o \in Orgs, c \in {"match", "other"} : CollectSave(o, c)
  BY <1>11, CollectSaveKeeps
<1>12. CASE CollectEnd \/ (\E o \in Orgs : CollectLeave(o))
  BY <1>12, NothingWritten DEF CollectEnd, CollectLeave
<1>13. CASE \E p \in Partners, o \in Orgs : OpenPartner(p, o)
  BY <1>13, OpenPartnerKeeps
<1>14. CASE \E c \in BOOLEAN : ClosePartner(c)
  BY <1>14, ClosePartnerKeeps
<1>15. CASE Month
  BY <1>15, MonthKeeps
<1> QED BY <1>1, <1>2, <1>3, <1>4, <1>5, <1>6, <1>7, <1>8, <1>9, <1>10, <1>11, <1>12,
           <1>13, <1>14, <1>15 DEF DirectoryNext

LEMMA DirectoryInitially ==
  ASSUME Init
  PROVE  DirInv
<1>1. PICK s \in Starts :
        /\ directory = s.directory /\ partners = s.partners
        /\ edit = NoEdit /\ joining = NoJoin
        /\ confirmed = [o \in Orgs |-> Identity(s.directory[o])]
  BY DEF Init
<1>2. /\ directory \in [Orgs -> OrgRecord]
      /\ partners \in [Partners -> [org: Orgs, kind: Kinds] \cup {NoPartner}]
      /\ \A p \in Joined : partners[p].kind = directory[partners[p].org].kind
  BY <1>1, StartsAssumption DEF Joined
<1>3. confirmed \in [Orgs -> Identities]
  BY <1>1, <1>2, IdentityOf
<1>4. RowsTyped /\ LocksExclude /\ JoiningIsCurrent
  BY <1>1, <1>2, <1>3 DEF RowsTyped, LocksExclude, JoiningIsCurrent
<1>5. PartnersAreOfKnown
  <2> SUFFICES ASSUME NEW p \in Joined PROVE partners[p].org \in Known
    BY DEF PartnersAreOfKnown
  <2>1. partners[p] \in [org: Orgs, kind: Kinds]
    BY <1>2 DEF Joined
  <2>2. partners[p].org \in Orgs /\ partners[p].kind \in Kinds
    BY <2>1
  <2> QED BY <2>2, <1>2, KindsAreKnown DEF Known
<1>6. PartnersFollowTheirRecord
  BY <1>2 DEF PartnersFollowTheirRecord
<1>7. VerifiedIsAsConfirmed
  BY <1>1 DEF VerifiedIsAsConfirmed, Known
<1> QED BY <1>4, <1>5, <1>6, <1>7 DEF DirInv

LEMMA DirInvStep ==
  ASSUME DirInv, [Next]_vars
  PROVE  DirInv'
<1>1. CASE DirectoryNext
  BY <1>1, DirectoryStep
<1>2. CASE UNCHANGED directoryVars
  BY <1>2, NothingWritten DEF directoryVars
<1>3. CASE UNCHANGED vars
  BY <1>3, NothingWritten DEF vars, directoryVars
<1> QED BY <1>1, <1>2, <1>3 DEF Next

LEMMA DirInvAlways == Spec => []DirInv
<1>1. Init => DirInv
  BY DirectoryInitially
<1>2. DirInv /\ [Next]_vars => DirInv'
  BY DirInvStep
<1> QED BY <1>1, <1>2, PTL DEF Spec

(* Whatever the search, the synchronisation and people write over each      *)
(* other, a verified row says what a person confirmed: its identifiers, its *)
(* licence and its state (EnrichEducationDirectory, syncDirectoryOnce).     *)
THEOREM NothingAutomaticIsTrusted == Spec => []VerifiedIsAsConfirmed
<1>1. DirInv => VerifiedIsAsConfirmed
  BY DEF DirInv
<1> QED BY <1>1, DirInvAlways, PTL

(* A partner has the kind of its organisation, for any edits made while it  *)
(* is created, unless a file has changed the kind (PartnerHandlers.Create,  *)
(* UpdateDirectory, upsertDirectoryRows).                                   *)
THEOREM PartnersFollow == Spec => []PartnersFollowTheirRecord
<1>1. DirInv => PartnersFollowTheirRecord
  BY DEF DirInv
<1> QED BY <1>1, DirInvAlways, PTL

-----------------------------------------------------------------------------
(* Lines of units: what a walk upwards finds. *)

LEMMA LeastExists ==
  ASSUME NEW S \in SUBSET Nat, S # {}
  PROVE  \E x \in S : \A y \in S : x <= y
<1>1. PICK x \in S : \A y \in S : ~(<<y, x>> \in OpToRel(<, Nat))
  BY NatLessThanWellFounded, WFMin
<1>2. ASSUME NEW y \in S PROVE x <= y
  <2>1. CASE y < x
    <3>1. <<y, x>> \in Nat \X Nat /\ <<y, x>>[1] < <<y, x>>[2]
      BY <2>1
    <3> QED BY <3>1, <1>1 DEF OpToRel
  <2> QED BY <2>1
<1> QED BY <1>2

\* What holds at the foot and one step up from wherever it holds, holds up to the top.
LEMMA Climbing ==
  ASSUME NEW top \in Nat, NEW S, 0 \in S, \A n \in 0 .. top - 1 : n \in S => n + 1 \in S
  PROVE  \A n \in 0 .. top : n \in S
<1> DEFINE missing == {n \in 0 .. top : n \notin S}
<1>1. ASSUME missing # {} PROVE FALSE
  <2>1. missing \in SUBSET Nat
    OBVIOUS
  <2>2. PICK x \in missing : \A y \in missing : x <= y
    BY <1>1, <2>1, LeastExists
  <2>3. x \in 0 .. top /\ x # 0
    OBVIOUS
  <2>4. x - 1 \in 0 .. top - 1 /\ (x - 1) + 1 = x /\ x - 1 \in 0 .. top /\ ~ (x <= x - 1)
    BY <2>3
  <2>5. x - 1 \notin missing
    BY <2>2, <2>4
  <2> QED BY <2>4, <2>5
<1> QED BY <1>1

\* The unit above one of a tree.
UpIn(tree, u) == IF u \in Units THEN tree[u].parent ELSE "root"

LEMMA LineUnfolds ==
  ASSUME NEW tree, NEW u
  PROVE  LineIn(tree, u) =
           [n \in 0 .. MaxLevels |-> IF n = 0 THEN u ELSE UpIn(tree, LineIn(tree, u)[n - 1])]
<1> DEFINE Up(f, k) == f = [n \in 0 .. k |-> IF n = 0 THEN u ELSE UpIn(tree, f[n - 1])]
           S == {k \in 0 .. MaxLevels : \E f : Up(f, k)}
<1>0. MaxLevels \in Nat
  BY StructureAssumption
<1>1. 0 \in S
  <2> DEFINE f == [n \in 0 .. 0 |-> u]
  <2>1. Up(f, 0)
    OBVIOUS
  <2> HIDE DEF f
  <2>2. \E h : Up(h, 0)
    BY <2>1
  <2> HIDE DEF Up
  <2> QED BY <2>2, <1>0
<1>2. ASSUME NEW k \in 0 .. MaxLevels - 1, k \in S PROVE k + 1 \in S
  <2>1. PICK f : Up(f, k)
    BY <1>2
  <2> DEFINE g == [n \in 0 .. k + 1 |-> IF n = k + 1 THEN UpIn(tree, f[k]) ELSE f[n]]
  <2>2. \A n \in 0 .. k + 1 : g[n] = IF n = 0 THEN u ELSE UpIn(tree, g[n - 1])
    <3> TAKE n \in 0 .. k + 1
    <3>1. CASE n = k + 1
      BY <3>1, <1>0
    <3>2. CASE n \in 0 .. k
      BY <3>2, <2>1, <1>0
    <3> QED BY <3>1, <3>2, <1>0
  <2>3. Up(g, k + 1)
    BY <2>2
  <2>4. k + 1 \in 0 .. MaxLevels
    BY <1>0
  <2> QED BY <2>3, <2>4
<1>3. MaxLevels \in S
  <2> HIDE DEF S
  <2> QED BY <1>0, <1>1, <1>2, Climbing
<1>4. PICK f : Up(f, MaxLevels)
  BY <1>3
<1> QED BY <1>4 DEF LineIn, UpIn

LEMMA LineIs ==
  ASSUME NEW tree, NEW u
  PROVE  /\ LineIn(tree, u)[0] = u
         /\ \A n \in 0 .. MaxLevels - 1 :
              LineIn(tree, u)[n + 1] = UpIn(tree, LineIn(tree, u)[n])
<1> DEFINE line == LineIn(tree, u)
<1>1. MaxLevels \in Nat /\ MaxLevels # 0
  BY StructureAssumption
<1>2. line = [n \in 0 .. MaxLevels |-> IF n = 0 THEN u ELSE UpIn(tree, line[n - 1])]
  BY LineUnfolds
<1> HIDE DEF line
<1>3. line[0] = u
  BY <1>1, <1>2
<1>4. ASSUME NEW n \in 0 .. MaxLevels - 1 PROVE line[n + 1] = UpIn(tree, line[n])
  <2>1. n + 1 \in 0 .. MaxLevels /\ n + 1 # 0 /\ (n + 1) - 1 = n
    BY <1>1
  <2>2. line[n + 1] = IF n + 1 = 0 THEN u ELSE UpIn(tree, line[(n + 1) - 1])
    BY <1>2, <2>1
  <2> QED BY <2>1, <2>2
<1> QED BY <1>3, <1>4 DEF line

\* A line has no gap.
LEMMA LineIsWhole ==
  ASSUME NEW tree, NEW u, NEW n \in 0 .. MaxLevels, LineIn(tree, u)[n] \in Units
  PROVE  \A k \in 0 .. n : LineIn(tree, u)[k] \in Units
<1> DEFINE line == LineIn(tree, u)
           S == {k \in 0 .. n : line[n - k] \in Units}
<1>1. MaxLevels \in Nat /\ n \in Nat /\ n <= MaxLevels /\ "root" \notin Units
  BY StructureAssumption
<1>2. 0 \in S
  <2>1. n - 0 = n /\ 0 \in 0 .. n
    BY <1>1
  <2> QED BY <2>1
<1>3. ASSUME NEW k \in 0 .. n - 1, k \in S PROVE k + 1 \in S
  <2>1. /\ k + 1 \in 0 .. n /\ n - (k + 1) \in 0 .. MaxLevels - 1
        /\ (n - (k + 1)) + 1 = n - k
    BY <1>1
  <2>2. line[n - k] = UpIn(tree, line[n - (k + 1)])
    <3>1. line[(n - (k + 1)) + 1] = UpIn(tree, line[n - (k + 1)])
      BY <2>1, LineIs
    <3> QED BY <3>1, <2>1
  <2>3. line[n - k] \in Units
    BY <1>3
  <2> HIDE DEF line
  <2>4. line[n - (k + 1)] \in Units
    BY <2>2, <2>3, <1>1 DEF UpIn
  <2> QED BY <2>1, <2>4
<1>4. \A k \in 0 .. n : k \in S
  <2> HIDE DEF S
  <2> QED BY <1>1, <1>2, <1>3, Climbing
<1>5. ASSUME NEW k \in 0 .. n PROVE line[k] \in Units
  <2>1. n - k \in 0 .. n /\ n - (n - k) = k
    BY <1>1
  <2>2. n - k \in S
    BY <2>1, <1>4
  <2> QED BY <2>1, <2>2
<1> QED BY <1>5

AlikeBut(w, tree, other) == \A x \in Units : x # w => other[x].parent = tree[x].parent

\* Two trees that differ in one unit have the same lines below it.
LEMMA SameBelow ==
  ASSUME NEW tree, NEW other, NEW w, NEW u,
         AlikeBut(w, tree, other),
         NEW n \in 0 .. MaxLevels, \A k \in 0 .. n - 1 : LineIn(tree, u)[k] # w
  PROVE  \A k \in 0 .. n : LineIn(other, u)[k] = LineIn(tree, u)[k]
<1> DEFINE S == {k \in 0 .. n : LineIn(other, u)[k] = LineIn(tree, u)[k]}
<1>1. MaxLevels \in Nat /\ n \in Nat /\ n <= MaxLevels
  BY StructureAssumption
<1>2. 0 \in S
  BY <1>1, LineIs
<1>3. ASSUME NEW k \in 0 .. n - 1, k \in S PROVE k + 1 \in S
  <2>1. k \in 0 .. MaxLevels - 1 /\ k + 1 \in 0 .. n
    BY <1>1
  <2>2. /\ LineIn(other, u)[k + 1] = UpIn(other, LineIn(other, u)[k])
        /\ LineIn(tree, u)[k + 1] = UpIn(tree, LineIn(tree, u)[k])
    BY <2>1, LineIs
  <2>3. LineIn(other, u)[k] = LineIn(tree, u)[k] /\ LineIn(tree, u)[k] # w
    BY <1>3
  <2>4. UpIn(other, LineIn(tree, u)[k]) = UpIn(tree, LineIn(tree, u)[k])
    BY <2>3 DEF UpIn, AlikeBut
  <2> QED BY <2>1, <2>2, <2>3, <2>4
<1>4. \A k \in 0 .. n : k \in S
  <2> HIDE DEF S
  <2> QED BY <1>1, <1>2, <1>3, Climbing
<1> QED BY <1>4

\* The line of a unit is the unit and the line of its parent.
LEMMA LineOfParent ==
  ASSUME NEW tree, NEW u
  PROVE  \A n \in 0 .. MaxLevels - 1 :
            LineIn(tree, u)[n + 1] = LineIn(tree, UpIn(tree, u))[n]
<1> DEFINE up == UpIn(tree, u)
           S == {n \in 0 .. MaxLevels - 1 : LineIn(tree, u)[n + 1] = LineIn(tree, up)[n]}
<1>1. MaxLevels \in Nat /\ MaxLevels # 0 /\ MaxLevels - 1 \in Nat
  BY StructureAssumption
<1>2. 0 \in S
  <2>1. 0 \in 0 .. MaxLevels - 1 /\ LineIn(tree, u)[0 + 1] = UpIn(tree, LineIn(tree, u)[0])
    BY <1>1, LineIs
  <2>2. LineIn(tree, u)[0] = u /\ LineIn(tree, up)[0] = up
    BY LineIs
  <2> QED BY <2>1, <2>2
<1>3. ASSUME NEW n \in 0 .. (MaxLevels - 1) - 1, n \in S PROVE n + 1 \in S
  <2>1. n + 1 \in 0 .. MaxLevels - 1 /\ n \in 0 .. MaxLevels - 1
    BY <1>1
  <2>2. /\ LineIn(tree, u)[(n + 1) + 1] = UpIn(tree, LineIn(tree, u)[n + 1])
        /\ LineIn(tree, up)[n + 1] = UpIn(tree, LineIn(tree, up)[n])
    BY <2>1, LineIs
  <2>3. LineIn(tree, u)[n + 1] = LineIn(tree, up)[n]
    BY <1>3
  <2> QED BY <2>1, <2>2, <2>3
<1>4. \A n \in 0 .. MaxLevels - 1 : n \in S
  <2> HIDE DEF S
  <2> QED BY <1>1, <1>2, <1>3, Climbing
<1> QED BY <1>4
-----------------------------------------------------------------------------
(* The academic structure: the tree of the units. *)

\* A parent that has been found stays as it was found, and two writers have two units.
MovesFit ==
    /\ \A m \in Moving :
         /\ moves[m].parent # moves[m].unit
         /\ moves[m].parent # "root" =>
              moves[m].parent \in Present /\ units[moves[m].parent].partner = moves[m].partner
         /\ moves[m].unit \in Present => units[moves[m].unit].partner = moves[m].partner
    /\ \A m, k \in Moving : moves[m].unit = moves[k].unit => m = k

\* Who is not noted for the observer writes alone, a unit with nothing below it, to a
\* place that the trigger would still allow.
MovesAreWatched ==
    \A m \in Moving :
       moves[m].unit \in suspects
          \/ /\ Moving = {m} /\ Children(moves[m].unit) = {}
             /\ HierarchyAllows(moves[m].unit, moves[m].partner, moves[m].parent)

TreeInv == StructureTypeOK /\ NothingDangles /\ MovesFit /\ MovesAreWatched /\ HiddenUnitsHaveACause

LEMMA Marks ==
  /\ "root" \notin Units /\ MaxLevels \in Nat /\ MaxLevels # 0
  /\ \A r \in UnitRow : r # NoUnit /\ r.partner \in Partners /\ r.parent \in Units \cup {"root"}
  /\ NoUnit.parent = "root"
BY StructureAssumption DEF UnitRow, NoUnit

LEMMA UnitsAreRows ==
  ASSUME StructureTypeOK, NEW u \in Units
  PROVE  /\ u \in Present => units[u] \in UnitRow
         /\ u \notin Present => units[u] = NoUnit
         /\ units[u].parent \in Units \cup {"root"}
BY Marks DEF StructureTypeOK, Present

\* A line that is not too deep ends at a root.
LEMMA LineEnds ==
  ASSUME StructureTypeOK, NEW u \in Units, Cardinality(Above(u)) < MaxLevels
  PROVE  \E n \in 0 .. MaxLevels - 1 :
           /\ n + 1 \in Nat /\ n + 1 < MaxLevels
           /\ Line(u)[n] \in Units /\ units[Line(u)[n]].parent = "root"
<1> DEFINE line == Line(u)
           Off == {n \in 0 .. MaxLevels - 1 : line[n] \notin Units}
<1>1. MaxLevels \in Nat /\ MaxLevels # 0 /\ MaxLevels - 1 \in Nat
  BY Marks
<1>2. Off # {}
  <2>1. SUFFICES ASSUME Off = {} PROVE FALSE
    OBVIOUS
  <2>2. 0 .. MaxLevels - 1 \subseteq Above(u)
    BY <2>1, <1>1 DEF Above
  <2>3. IsFiniteSet(Above(u)) /\ IsFiniteSet(0 .. MaxLevels - 1)
    <3>1. IsFiniteSet(0 .. MaxLevels)
      BY <1>1, FS_Interval
    <3>2. Above(u) \subseteq 0 .. MaxLevels
      BY DEF Above
    <3>3. 0 .. MaxLevels - 1 \subseteq 0 .. MaxLevels
      BY <1>1
    <3> QED BY <3>1, <3>2, <3>3, FS_Subset
  <2>4. Cardinality(0 .. MaxLevels - 1) = MaxLevels
    <3>1. Cardinality(0 .. MaxLevels - 1) = IF 0 > MaxLevels - 1 THEN 0 ELSE (MaxLevels - 1) - 0 + 1
      BY <1>1, FS_Interval
    <3> QED BY <3>1, <1>1
  <2>5. Cardinality(0 .. MaxLevels - 1) <= Cardinality(Above(u))
    BY <2>2, <2>3, FS_Subset
  <2>6. Cardinality(Above(u)) \in Nat
    BY <2>3, FS_CardinalityType
  <2> QED BY <2>4, <2>5, <2>6, <1>1
<1>3. PICK n \in Off : \A k \in Off : n <= k
  <2>1. Off \in SUBSET Nat
    BY <1>1
  <2> HIDE DEF Off
  <2> QED BY <2>1, <1>2, LeastExists
<1>4. line[0] = u
  BY LineIs DEF Line
<1>5. /\ n # 0 /\ n - 1 \in 0 .. MaxLevels - 1 /\ (n - 1) + 1 = n /\ ~ (n <= n - 1)
      /\ n \in Nat /\ n < MaxLevels
  BY <1>3, <1>4, <1>1
<1>6. line[n - 1] \in Units
  BY <1>3, <1>5
<1>7. line[n] = UpIn(units, line[n - 1])
  <2>1. line[(n - 1) + 1] = UpIn(units, line[n - 1])
    BY <1>5, LineIs DEF Line
  <2> QED BY <2>1, <1>5
<1>8. line[n] \notin Units
  BY <1>3
<1> HIDE DEF line
<1>9. units[line[n - 1]].parent = "root"
  BY <1>6, <1>7, <1>8, UnitsAreRows DEF UpIn
<1> QED BY <1>5, <1>6, <1>9 DEF line

\* A unit with no children is in no line but its own.
LEMMA ChildlessIsAlone ==
  ASSUME StructureTypeOK, NEW w \in Units, Children(w) = {},
         NEW u \in Units, u # w
  PROVE  \A n \in 0 .. MaxLevels : Line(u)[n] # w
<1> SUFFICES ASSUME NEW n \in 0 .. MaxLevels, Line(u)[n] = w PROVE FALSE
  OBVIOUS
<1> DEFINE line == Line(u)
<1>1. line[0] = u
  BY LineIs DEF Line
<1>2. n # 0 /\ n - 1 \in 0 .. MaxLevels - 1 /\ (n - 1) + 1 = n
  BY <1>1, Marks
<1>3. w = UpIn(units, line[n - 1])
  <2>1. line[(n - 1) + 1] = UpIn(units, line[n - 1])
    BY <1>2, LineIs DEF Line
  <2> QED BY <2>1, <1>2
<1> HIDE DEF line
<1>4. line[n - 1] \in Units /\ units[line[n - 1]].parent = w
  BY <1>3, Marks DEF UpIn
<1>5. line[n - 1] \in Present
  BY <1>4, UnitsAreRows, Marks
<1> QED BY <1>4, <1>5 DEF Children

\* What happens to such a unit leaves the lines of the others alone.
LEMMA LinesStay ==
  ASSUME StructureTypeOK, NEW w \in Units, Children(w) = {}, NEW row,
         units' = [units EXCEPT ![w] = row],
         NEW u \in Units, u # w
  PROVE  /\ \A n \in 0 .. MaxLevels : Line(u)'[n] = Line(u)[n] /\ Line(u)[n] # w
         /\ Above(u)' = Above(u)
<1>1. \A n \in 0 .. MaxLevels : Line(u)[n] # w
  BY ChildlessIsAlone
<1>2. AlikeBut(w, units, units')
  BY DEF StructureTypeOK, AlikeBut
<1>3. MaxLevels \in Nat
  BY Marks
<1>4. \A n \in 0 .. MaxLevels - 1 : LineIn(units, u)[n] # w
  BY <1>1, <1>3 DEF Line
<1>5. \A n \in 0 .. MaxLevels : LineIn(units', u)[n] = LineIn(units, u)[n]
  <2>1. MaxLevels \in 0 .. MaxLevels
    BY <1>3
  <2> QED BY <1>2, <1>4, <2>1, SameBelow
<1>6. \A n \in 0 .. MaxLevels : Line(u)'[n] = Line(u)[n]
  BY <1>5 DEF Line
<1> QED BY <1>1, <1>6 DEF Above

LEMMA AllowedStays ==
  ASSUME StructureTypeOK, NEW w \in Units, Children(w) = {}, NEW row,
         units' = [units EXCEPT ![w] = row],
         NEW u, NEW p, NEW parent \in Units \cup {"root"}, parent # w,
         HierarchyAllows(u, p, parent)
  PROVE  HierarchyAllows(u, p, parent)'
<1>1. CASE parent = "root"
  BY <1>1 DEF HierarchyAllows
<1>2. CASE parent # "root"
  <2>1. /\ parent \in Units /\ parent \in Present
        /\ \A n \in Above(parent) : units[Line(parent)[n]].partner = p /\ Line(parent)[n] # u
        /\ Cardinality(Above(parent)) < MaxLevels
    BY <1>2 DEF HierarchyAllows, Present
  <2>2. parent \in Present'
    BY <2>1 DEF Present, StructureTypeOK
  <2>3. /\ \A n \in 0 .. MaxLevels : Line(parent)'[n] = Line(parent)[n] /\ Line(parent)[n] # w
        /\ Above(parent)' = Above(parent)
    BY <2>1, LinesStay
  <2>4. ASSUME NEW n \in Above(parent)
        PROVE  units'[Line(parent)'[n]].partner = p /\ Line(parent)'[n] # u
    <3>1. n \in 0 .. MaxLevels /\ Line(parent)[n] \in Units
      BY DEF Above
    <3>2. units'[Line(parent)[n]] = units[Line(parent)[n]]
      BY <3>1, <2>3 DEF StructureTypeOK
    <3> QED BY <3>1, <3>2, <2>1, <2>3
  <2> QED BY <2>1, <2>2, <2>3, <2>4 DEF HierarchyAllows
<1> QED BY <1>1, <1>2

\* A unit whose line is untouched is as visible as before.
LEMMA VisibleStays ==
  ASSUME StructureTypeOK, NEW w \in Units, Children(w) = {}, NEW row,
         units' = [units EXCEPT ![w] = row],
         NEW u \in Units, u # w, suspects \ {w} \subseteq suspects',
         Shown(u) \/ \E n \in Above(u) : Line(u)[n] \in suspects
  PROVE  Shown(u)' \/ \E n \in Above(u)' : Line(u)'[n] \in suspects'
<1>1. /\ \A n \in 0 .. MaxLevels : Line(u)'[n] = Line(u)[n] /\ Line(u)[n] # w
      /\ Above(u)' = Above(u)
  BY LinesStay
<1>2. \A n \in Above(u) : n \in 0 .. MaxLevels /\ Line(u)[n] \in Units
  BY DEF Above
<1>3. CASE \E n \in Above(u) : Line(u)[n] \in suspects
  BY <1>1, <1>2, <1>3
<1>4. CASE Shown(u)
  <2>1. PICK n \in Above(u) : n < MaxLevels /\ units[Line(u)[n]].parent = "root"
    BY <1>4 DEF Shown
  <2>2. units'[Line(u)[n]] = units[Line(u)[n]]
    BY <1>1, <1>2 DEF StructureTypeOK
  <2>3. n \in Above(u)' /\ n < MaxLevels /\ units'[Line(u)'[n]].parent = "root"
    BY <2>1, <2>2, <1>1, <1>2
  <2> QED BY <2>3 DEF Shown
<1> QED BY <1>3, <1>4

\* A unit put where the trigger allows it is visible.
LEMMA AllowedIsVisible ==
  ASSUME StructureTypeOK, NEW w \in Units, Children(w) = {},
         NEW p, NEW parent \in Units \cup {"root"},
         units' = [units EXCEPT ![w] = [partner |-> p, parent |-> parent]],
         HierarchyAllows(w, p, parent)
  PROVE  Shown(w)'
<1>1. units'[w].parent = parent /\ UpIn(units', w) = parent
  BY DEF StructureTypeOK, UpIn
<1>2. MaxLevels \in Nat /\ MaxLevels # 0 /\ "root" \notin Units
  BY Marks
<1>3. Line(w)'[0] = w
  BY LineIs DEF Line
<1>4. CASE parent = "root"
  <2>1. 0 \in Above(w)' /\ 0 < MaxLevels
    BY <1>2, <1>3 DEF Above
  <2> QED BY <2>1, <1>1, <1>3, <1>4 DEF Shown
<1>5. CASE parent # "root"
  <2>1. /\ parent \in Units
        /\ \A n \in Above(parent) : Line(parent)[n] # w
        /\ Cardinality(Above(parent)) < MaxLevels
    BY <1>5 DEF HierarchyAllows, Present
  <2>2. PICK n \in 0 .. MaxLevels - 1 :
           /\ n + 1 \in Nat /\ n + 1 < MaxLevels
           /\ Line(parent)[n] \in Units /\ units[Line(parent)[n]].parent = "root"
    BY <2>1, LineEnds
  <2>3. parent # w
    <3>1. Line(parent)[0] = parent
      BY LineIs DEF Line
    <3>2. 0 \in Above(parent)
      BY <3>1, <2>1, <1>2 DEF Above
    <3> QED BY <3>1, <3>2, <2>1
  <2>4. Line(parent)'[n] = Line(parent)[n] /\ Line(parent)[n] # w
    <3>1. n \in 0 .. MaxLevels
      BY <1>2
    <3> QED BY <3>1, <2>1, <2>3, LinesStay
  <2>5. Line(w)'[n + 1] = Line(parent)'[n]
    BY <1>1, LineOfParent DEF Line
  <2>6. units'[Line(w)'[n + 1]].parent = "root" /\ Line(w)'[n + 1] \in Units
    BY <2>2, <2>4, <2>5 DEF StructureTypeOK
  <2>7. n + 1 \in Above(w)'
    BY <2>2, <2>6, <1>2 DEF Above
  <2> QED BY <2>2, <2>6, <2>7 DEF Shown
<1> QED BY <1>4, <1>5

\* Below a suspect nothing needs another cause.
LEMMA SuspectExplains ==
  ASSUME StructureTypeOK, NEW w \in Units, w \in suspects, suspects' = suspects, NEW row,
         units' = [units EXCEPT ![w] = row], NEW u \in Units,
         u # w => Shown(u) \/ \E n \in Above(u) : Line(u)[n] \in suspects
  PROVE  Shown(u)' \/ \E n \in Above(u)' : Line(u)'[n] \in suspects'
<1> DEFINE met == {n \in 0 .. MaxLevels : Line(u)[n] = w}
<1>1. AlikeBut(w, units, units')
  BY DEF StructureTypeOK, AlikeBut
<1>2. MaxLevels \in Nat
  BY Marks
<1>3. CASE met # {}
  <2>1. PICK n \in met : \A k \in met : n <= k
    <3>1. met \in SUBSET Nat
      BY <1>2
    <3> HIDE DEF met
    <3> QED BY <3>1, <1>3, LeastExists
  <2>2. \A k \in 0 .. n - 1 : LineIn(units, u)[k] # w
    <3> SUFFICES ASSUME NEW k \in 0 .. n - 1, Line(u)[k] = w PROVE FALSE
      BY DEF Line
    <3>1. k \in 0 .. MaxLevels /\ ~ (n <= k)
      BY <1>2
    <3>2. k \in met
      BY <3>1
    <3> QED BY <3>1, <3>2, <2>1
  <2>3. n \in 0 .. MaxLevels /\ n \in 0 .. n
    BY <1>2
  <2>4. Line(u)'[n] = Line(u)[n]
    <3>1. \A k \in 0 .. n : LineIn(units', u)[k] = LineIn(units, u)[k]
      BY <1>1, <2>2, <2>3, SameBelow
    <3> QED BY <3>1, <2>3 DEF Line
  <2>5. n \in Above(u)' /\ Line(u)'[n] \in suspects'
    BY <2>3, <2>4 DEF Above
  <2> QED BY <2>5
<1>4. CASE met = {}
  <2>1. u # w
    <3>1. Line(u)[0] = u /\ 0 \in 0 .. MaxLevels
      BY <1>2, LineIs DEF Line
    <3> QED BY <3>1, <1>4
  <2>2. \A n \in 0 .. MaxLevels : Line(u)[n] # w
    BY <1>4
  <2>3. \A n \in 0 .. MaxLevels : Line(u)'[n] = Line(u)[n]
    <3>1. MaxLevels \in 0 .. MaxLevels /\ \A k \in 0 .. MaxLevels - 1 : LineIn(units, u)[k] # w
      BY <2>2, <1>2 DEF Line
    <3>2. \A k \in 0 .. MaxLevels : LineIn(units', u)[k] = LineIn(units, u)[k]
      BY <1>1, <3>1, SameBelow
    <3> QED BY <3>2 DEF Line
  <2>4. Above(u)' = Above(u)
    BY <2>3 DEF Above
  <2>5. CASE \E n \in Above(u) : Line(u)[n] \in suspects
    BY <2>3, <2>4, <2>5 DEF Above
  <2>6. CASE Shown(u)
    <3>1. PICK n \in Above(u) : n < MaxLevels /\ units[Line(u)[n]].parent = "root"
      BY <2>6 DEF Shown
    <3>2. n \in 0 .. MaxLevels /\ Line(u)[n] \in Units /\ Line(u)[n] # w
      BY <2>2 DEF Above
    <3>3. units'[Line(u)[n]] = units[Line(u)[n]]
      BY <3>2 DEF StructureTypeOK
    <3> QED BY <3>1, <3>2, <3>3, <2>3, <2>4 DEF Shown
  <2> QED BY <2>1, <2>5, <2>6
<1> QED BY <1>3, <1>4

MoveRow == [unit: Units, partner: Partners, parent: Units \cup {"root"}]

LEMMA MovesAreRows ==
  ASSUME StructureTypeOK
  PROVE  /\ \A r \in MoveRow : r # NoMove
         /\ \A m \in Moving : /\ moves[m] \in MoveRow /\ moves[m].unit \in Units
                              /\ moves[m].partner \in Partners
                              /\ moves[m].parent \in Units \cup {"root"}
<1>1. \A r \in MoveRow : r.partner \in Partners /\ r.unit \in Units /\ r.parent \in Units \cup {"root"}
  BY DEF MoveRow
<1>2. \A r \in MoveRow : r # NoMove
  BY <1>1, StructureAssumption DEF NoMove
<1>3. \A m \in Moving : moves[m] \in MoveRow
  BY DEF StructureTypeOK, Moving, MoveRow
<1> QED BY <1>1, <1>2, <1>3

\* The tree, its writers and the observer are as they were.
LEMMA TreeUnmoved ==
  ASSUME MovesFit, MovesAreWatched, HiddenUnitsHaveACause, UNCHANGED <<units, moves, suspects>>
  PROVE  MovesFit' /\ MovesAreWatched' /\ HiddenUnitsHaveACause' /\ Present' = Present
<1>1. Present' = Present /\ Moving' = Moving /\ \A u : Children(u)' = Children(u)
  BY DEF Present, Moving, Children
<1>2. \A u : Line(u)' = Line(u)
  BY DEF Line
<1>3. \A u : Above(u)' = Above(u)
  BY <1>2 DEF Above
<1>4. \A u : Shown(u)' = Shown(u)
  BY <1>2, <1>3 DEF Shown
<1>5. \A u, p, parent : HierarchyAllows(u, p, parent)' = HierarchyAllows(u, p, parent)
  BY <1>1, <1>2, <1>3 DEF HierarchyAllows
<1>6. MovesFit'
  BY <1>1 DEF MovesFit
<1>7. MovesAreWatched'
  BY <1>1, <1>5 DEF MovesAreWatched
<1>8. HiddenUnitsHaveACause'
  BY <1>1, <1>2, <1>3, <1>4 DEF HiddenUnitsHaveACause
<1> QED BY <1>1, <1>6, <1>7, <1>8

LEMMA OpeningKeepsTree ==
  ASSUME TreeInv, NEW m \in Movers, NEW u \in Units, NEW p \in Partners,
         NEW parent \in Units \cup {"root"},
         moves[m] = NoMove, \A k \in Moving : moves[k].unit # u,
         u \in Present => units[u].partner = p,
         HierarchyAllows(u, p, parent),
         moves' = [moves EXCEPT ![m] = [unit |-> u, partner |-> p, parent |-> parent]],
         suspects \subseteq suspects', suspects' \subseteq Units,
         Moving = {} \/ (u \in suspects' /\ \A k \in Moving : moves[k].unit \in suspects'),
         Children(u) = {} \/ u \in suspects',
         UNCHANGED <<units, groups, periods>>
  PROVE  TreeInv'
<1> DEFINE new == [unit |-> u, partner |-> p, parent |-> parent]
<1>1. StructureTypeOK /\ NothingDangles /\ MovesFit /\ MovesAreWatched /\ HiddenUnitsHaveACause
  BY DEF TreeInv
<1>2. new \in MoveRow /\ new.unit = u /\ new.partner = p /\ new.parent = parent
  BY DEF MoveRow
<1> HIDE DEF new
<1>3. /\ moves'[m] = new
      /\ \A k \in Movers : k # m => moves'[k] = moves[k]
  BY <1>1, Zenon DEF StructureTypeOK, new
<1>4. m \notin Moving /\ Moving' = Moving \cup {m}
  BY <1>1, <1>2, <1>3, MovesAreRows DEF Moving
<1>5. StructureTypeOK'
  <2>1. moves' \in [Movers -> MoveRow \cup {NoMove}]
    BY <1>1, <1>2 DEF StructureTypeOK, MoveRow, new
  <2> QED BY <1>1, <2>1 DEF StructureTypeOK, MoveRow
<1>6. Present' = Present /\ \A v : Children(v)' = Children(v)
  BY DEF Present, Children
<1>7. NothingDangles'
  BY <1>1, <1>6 DEF NothingDangles
<1>8. \A v : Line(v)' = Line(v) /\ Above(v)' = Above(v) /\ Shown(v)' = Shown(v)
  BY DEF Line, Above, Shown
<1>9. \A v, q, x : HierarchyAllows(v, q, x)' = HierarchyAllows(v, q, x)
  BY <1>6, <1>8 DEF HierarchyAllows
<1>10. parent # u /\ (parent # "root" => parent \in Present /\ units[parent].partner = p)
  <2>1. CASE parent = "root"
    BY <2>1, Marks
  <2>2. CASE parent # "root"
    <3>1. Line(parent)[0] = parent /\ parent \in Units
      BY <2>2, LineIs DEF Line
    <3>2. 0 \in Above(parent)
      BY <3>1, Marks DEF Above
    <3> QED BY <2>2, <3>1, <3>2 DEF HierarchyAllows
  <2> QED BY <2>1, <2>2
<1>11. MovesFit'
  <2>1. ASSUME NEW k \in Moving'
        PROVE  /\ moves'[k].parent # moves'[k].unit
               /\ moves'[k].parent # "root" =>
                    moves'[k].parent \in Present /\ units[moves'[k].parent].partner = moves'[k].partner
               /\ moves'[k].unit \in Present => units[moves'[k].unit].partner = moves'[k].partner
    <3>1. CASE k = m
      BY <3>1, <1>2, <1>3, <1>10
    <3>2. CASE k # m
      <4>1. k \in Moving /\ moves'[k] = moves[k]
        BY <3>2, <1>3, <1>4 DEF Moving
      <4> QED BY <4>1, <1>1 DEF MovesFit
    <3> QED BY <3>1, <3>2
  <2>2. ASSUME NEW k \in Moving', NEW l \in Moving', moves'[k].unit = moves'[l].unit
        PROVE  k = l
    <3>1. \A x \in Moving : moves'[x] = moves[x] /\ x # m
      BY <1>3, <1>4 DEF Moving
    <3>2. moves'[m].unit = u
      BY <1>2, <1>3
    <3> QED BY <2>2, <3>1, <3>2, <1>1, <1>4 DEF MovesFit
  <2> QED BY <2>1, <2>2, <1>6 DEF MovesFit
<1>12. MovesAreWatched'
  <2> SUFFICES ASSUME NEW k \in Moving', moves'[k].unit \notin suspects'
               PROVE  /\ Moving' = {k} /\ Children(moves'[k].unit) = {}
                      /\ HierarchyAllows(moves'[k].unit, moves'[k].partner, moves'[k].parent)
    BY <1>6, <1>9 DEF MovesAreWatched
  <2>1. k = m
    <3>1. \A x \in Moving : moves'[x] = moves[x]
      BY <1>3, <1>4 DEF Moving
    <3> QED BY <3>1, <1>4
  <2>2. moves'[k].unit = u /\ moves'[k].partner = p /\ moves'[k].parent = parent
    BY <2>1, <1>2, <1>3
  <2>3. Moving = {} /\ Children(u) = {}
    BY <2>2
  <2> QED BY <2>1, <2>2, <2>3, <1>4
<1>13. HiddenUnitsHaveACause'
  BY <1>1, <1>6, <1>8 DEF HiddenUnitsHaveACause
<1> QED BY <1>5, <1>7, <1>11, <1>12, <1>13 DEF TreeInv

\* One writer is through; nobody else has been alone.
LEMMA ClosingKeepsMoves ==
  ASSUME TreeInv, NEW m \in Moving, moves' = [moves EXCEPT ![m] = NoMove],
         suspects' = suspects
  PROVE  /\ moves' \in [Movers -> MoveRow \cup {NoMove}]
         /\ Moving' = Moving \ {m}
         /\ \A k \in Moving' : k \in Moving /\ k # m /\ moves'[k] = moves[k]
         /\ MovesAreWatched'
<1>1. StructureTypeOK /\ MovesAreWatched /\ m \in Movers
  BY DEF TreeInv, Moving
<1>2. moves \in [Movers -> MoveRow \cup {NoMove}]
  BY <1>1 DEF StructureTypeOK, MoveRow
<1>3. moves' \in [Movers -> MoveRow \cup {NoMove}]
  BY <1>2
<1>4. moves'[m] = NoMove /\ \A k \in Movers : k # m => moves'[k] = moves[k]
  BY <1>1, <1>2
<1>5. Moving' = Moving \ {m}
  BY <1>4 DEF Moving
<1>6. \A k \in Moving' : k \in Moving /\ k # m /\ moves'[k] = moves[k]
  BY <1>4, <1>5 DEF Moving
<1>7. \A k \in Moving' : moves'[k].unit \in suspects'
  <2> TAKE k \in Moving'
  <2>1. k \in Moving /\ k # m /\ moves'[k] = moves[k]
    BY <1>6
  <2>2. Moving # {k}
    BY <2>1
  <2> QED BY <2>1, <2>2, <1>1 DEF MovesAreWatched
<1> QED BY <1>3, <1>5, <1>6, <1>7 DEF MovesAreWatched

LEMMA RollBackKeepsTree ==
  ASSUME TreeInv, NEW m \in Movers, CloseUnit(m, FALSE)
  PROVE  TreeInv'
<1>1. /\ m \in Moving /\ moves' = [moves EXCEPT ![m] = NoMove]
      /\ units' = units /\ UNCHANGED <<groups, periods, suspects>>
  BY DEF CloseUnit, Moving
<1>2. /\ moves' \in [Movers -> MoveRow \cup {NoMove}] /\ Moving' = Moving \ {m}
      /\ \A k \in Moving' : k \in Moving /\ moves'[k] = moves[k]
      /\ MovesAreWatched'
  BY <1>1, ClosingKeepsMoves
<1>3. Present' = Present /\ \A v : Line(v)' = Line(v) /\ Above(v)' = Above(v) /\ Shown(v)' = Shown(v)
  BY <1>1 DEF Present, Line, Above, Shown
<1>4. StructureTypeOK'
  BY <1>1, <1>2 DEF TreeInv, StructureTypeOK, MoveRow
<1>5. MovesFit'
  BY <1>1, <1>2, <1>3 DEF TreeInv, MovesFit
<1>6. NothingDangles' /\ HiddenUnitsHaveACause'
  BY <1>1, <1>3 DEF TreeInv, NothingDangles, HiddenUnitsHaveACause
<1> QED BY <1>2, <1>4, <1>5, <1>6 DEF TreeInv

LEMMA CommitKeepsTree ==
  ASSUME TreeInv, NEW m \in Movers, CloseUnit(m, TRUE)
  PROVE  TreeInv'
<1> DEFINE w == moves[m].unit
           p == moves[m].partner
           parent == moves[m].parent
           row == [partner |-> p, parent |-> parent]
<1>1. /\ m \in Moving /\ moves' = [moves EXCEPT ![m] = NoMove]
      /\ units' = [units EXCEPT ![w] = row] /\ UNCHANGED <<groups, periods, suspects>>
  BY DEF CloseUnit, Moving
<1>2. /\ moves' \in [Movers -> MoveRow \cup {NoMove}] /\ Moving' = Moving \ {m}
      /\ \A k \in Moving' : k \in Moving /\ k # m /\ moves'[k] = moves[k]
      /\ MovesAreWatched'
  BY <1>1, ClosingKeepsMoves
<1>3. StructureTypeOK /\ NothingDangles /\ MovesFit /\ MovesAreWatched /\ HiddenUnitsHaveACause
  BY DEF TreeInv
<1>4. w \in Units /\ p \in Partners /\ parent \in Units \cup {"root"}
  BY <1>1, <1>3, MovesAreRows
<1>5. row \in UnitRow /\ row.partner = p /\ row.parent = parent /\ row # NoUnit
  <2>1. row \in UnitRow
    BY <1>4 DEF UnitRow
  <2> QED BY <2>1, Marks
<1>6. /\ parent # w
      /\ parent # "root" => parent \in Present /\ units[parent].partner = p
      /\ w \in Present => units[w].partner = p
      /\ \A k \in Moving : moves[k].unit = w => k = m
  BY <1>1, <1>3 DEF MovesFit
<1> HIDE DEF w, p, parent, row
<1>7. units'[w] = row /\ \A x \in Units : x # w => units'[x] = units[x]
  BY <1>1, <1>3, <1>4 DEF StructureTypeOK
<1>8. Present' = Present \cup {w}
  BY <1>4, <1>5, <1>7 DEF Present
<1>9. StructureTypeOK'
  <2>1. units' \in [Units -> UnitRow \cup {NoUnit}]
    BY <1>1, <1>3, <1>5 DEF StructureTypeOK
  <2> QED BY <1>1, <1>2, <1>3, <2>1 DEF StructureTypeOK, MoveRow
<1>10. \A x \in Present : units'[x].partner = units[x].partner
  BY <1>5, <1>6, <1>7 DEF Present
<1>11. NothingDangles'
  <2>1. ASSUME NEW u \in Present', units'[u].parent # "root"
        PROVE  units'[u].parent \in Present' /\ units'[units'[u].parent].partner = units'[u].partner
    <3>1. CASE u = w
      BY <2>1, <3>1, <1>5, <1>6, <1>7, <1>8, <1>10
    <3>2. CASE u # w
      <4>1. u \in Present /\ units'[u] = units[u]
        BY <3>2, <1>7, <1>8 DEF Present
      <4>2. units[u].parent \in Present /\ units[units[u].parent].partner = units[u].partner
        BY <2>1, <4>1, <1>3 DEF NothingDangles
      <4> QED BY <4>1, <4>2, <1>8, <1>10
    <3> QED BY <3>1, <3>2
  <2>2. ASSUME NEW g \in Groups, groups'[g] # NoGroup
        PROVE  groups'[g].unit \in Present' /\ units'[groups'[g].unit].partner = groups'[g].partner
    BY <2>2, <1>1, <1>3, <1>8, <1>10 DEF NothingDangles
  <2> QED BY <2>1, <2>2 DEF NothingDangles
<1>12. MovesFit'
  <2>1. ASSUME NEW k \in Moving'
        PROVE  /\ moves'[k].parent # moves'[k].unit
               /\ moves'[k].parent # "root" =>
                    moves'[k].parent \in Present' /\ units'[moves'[k].parent].partner = moves'[k].partner
               /\ moves'[k].unit \in Present' => units'[moves'[k].unit].partner = moves'[k].partner
    <3>1. k \in Moving /\ k # m /\ moves'[k] = moves[k]
      BY <1>2
    <3>2. moves[k].unit # w
      BY <3>1, <1>6
    <3> QED BY <3>1, <3>2, <1>3, <1>8, <1>10 DEF MovesFit
  <2>2. ASSUME NEW k \in Moving', NEW l \in Moving', moves'[k].unit = moves'[l].unit
        PROVE  k = l
    BY <2>2, <1>2, <1>3 DEF MovesFit
  <2> QED BY <2>1, <2>2 DEF MovesFit
<1>13. HiddenUnitsHaveACause'
  <2> SUFFICES ASSUME NEW u \in Present'
               PROVE  Shown(u)' \/ \E n \in Above(u)' : Line(u)'[n] \in suspects'
    BY DEF HiddenUnitsHaveACause
  <2>1. u \in Units
    BY DEF Present
  <2>2. u # w => Shown(u) \/ \E n \in Above(u) : Line(u)[n] \in suspects
    BY <1>3, <1>8 DEF HiddenUnitsHaveACause
  <2>3. CASE w \in suspects
    BY <2>1, <2>2, <2>3, <1>1, <1>3, <1>4, SuspectExplains
  <2>4. CASE w \notin suspects
    <3>1. Children(w) = {} /\ HierarchyAllows(w, p, parent)
      BY <2>4, <1>1, <1>3 DEF MovesAreWatched, w, p, parent
    <3>2. CASE u = w
      <4>1. PICK q, above : q = p /\ above = parent
        OBVIOUS
      <4>2. /\ units' = [units EXCEPT ![u] = [partner |-> q, parent |-> above]]
            /\ Children(u) = {} /\ HierarchyAllows(u, q, above)
        BY <1>1, <3>1, <3>2, <4>1 DEF row
      <4>3. Shown(u)'
        BY <4>1, <4>2, <2>1, <1>3, <1>4, AllowedIsVisible
      <4> QED BY <4>3
    <3>3. CASE u # w
      <4>1. suspects \ {w} \subseteq suspects'
        BY <1>1
      <4> QED BY <4>1, <2>1, <2>2, <3>1, <3>3, <1>1, <1>3, <1>4, VisibleStays
    <3> QED BY <3>2, <3>3
  <2> QED BY <2>3, <2>4
<1> QED BY <1>2, <1>9, <1>11, <1>12, <1>13 DEF TreeInv

LEMMA DeletingKeepsTree ==
  ASSUME TreeInv, NEW w \in Units, DeleteUnit(w)
  PROVE  TreeInv'
<1>1. /\ w \in Present /\ Children(w) = {}
      /\ \A m \in Moving : moves[m].unit # w /\ moves[m].parent # w
      /\ \A g \in Groups : groups[g].unit # w
      /\ units' = [units EXCEPT ![w] = NoUnit] /\ suspects' = suspects \ {w}
      /\ UNCHANGED <<moves, groups, periods>>
  BY DEF DeleteUnit
<1>2. StructureTypeOK /\ NothingDangles /\ MovesFit /\ MovesAreWatched /\ HiddenUnitsHaveACause
  BY DEF TreeInv
<1>3. units'[w] = NoUnit /\ \A x \in Units : x # w => units'[x] = units[x]
  BY <1>1, <1>2 DEF StructureTypeOK
<1>4. Present' = Present \ {w} /\ Moving' = Moving
  BY <1>1, <1>3 DEF Present, Moving
<1>5. StructureTypeOK'
  BY <1>1, <1>2 DEF StructureTypeOK
<1>6. \A u \in Present' : u \in Present /\ u \in Units /\ u # w /\ units'[u] = units[u]
  BY <1>3, <1>4 DEF Present
<1>7. NothingDangles'
  <2>1. ASSUME NEW u \in Present', units'[u].parent # "root"
        PROVE  units'[u].parent \in Present' /\ units'[units'[u].parent].partner = units'[u].partner
    <3>1. units[u].parent \in Present /\ units[units[u].parent].partner = units[u].partner
      BY <2>1, <1>2, <1>6 DEF NothingDangles
    <3>2. units[u].parent # w
      BY <1>1, <1>6 DEF Children
    <3> QED BY <3>1, <3>2, <1>4, <1>6
  <2>2. ASSUME NEW g \in Groups, groups'[g] # NoGroup
        PROVE  groups'[g].unit \in Present' /\ units'[groups'[g].unit].partner = groups'[g].partner
    BY <2>2, <1>1, <1>2, <1>4, <1>6 DEF NothingDangles
  <2> QED BY <2>1, <2>2 DEF NothingDangles
<1>8. MovesFit'
  BY <1>1, <1>2, <1>4, <1>6 DEF MovesFit
<1>9. MovesAreWatched'
  <2> SUFFICES ASSUME NEW m \in Moving, moves[m].unit \notin suspects'
               PROVE  /\ Moving = {m} /\ Children(moves[m].unit)' = {}
                      /\ HierarchyAllows(moves[m].unit, moves[m].partner, moves[m].parent)'
    BY <1>1, <1>4 DEF MovesAreWatched
  <2>1. moves[m].unit \notin suspects
    BY <1>1
  <2>2. /\ Moving = {m} /\ Children(moves[m].unit) = {}
        /\ HierarchyAllows(moves[m].unit, moves[m].partner, moves[m].parent)
    BY <2>1, <1>2 DEF MovesAreWatched
  <2>3. Children(moves[m].unit)' = {}
    BY <2>2, <1>1, <1>6 DEF Children
  <2>4. moves[m].parent \in Units \cup {"root"} /\ moves[m].parent # w
    BY <1>1, <1>2, MovesAreRows
  <2>5. HierarchyAllows(moves[m].unit, moves[m].partner, moves[m].parent)'
    <3> DEFINE u == moves[m].unit
               p == moves[m].partner
               parent == moves[m].parent
    <3>1. u' = u /\ p' = p /\ parent' = parent
      BY <1>1
    <3> HIDE DEF u, p, parent
    <3>2. PICK u0, p0, parent0 : u0 = u /\ p0 = p /\ parent0 = parent
      OBVIOUS
    <3>3. HierarchyAllows(u0, p0, parent0)'
      BY <2>2, <2>4, <3>2, <1>1, <1>2, AllowedStays DEF u, p, parent
    <3> QED BY <3>1, <3>2, <3>3 DEF u, p, parent, HierarchyAllows, Line, Above
  <2> QED BY <2>2, <2>3, <2>5
<1>10. HiddenUnitsHaveACause'
  <2> SUFFICES ASSUME NEW u \in Present'
               PROVE  Shown(u)' \/ \E n \in Above(u)' : Line(u)'[n] \in suspects'
    BY DEF HiddenUnitsHaveACause
  <2>1. Shown(u) \/ \E n \in Above(u) : Line(u)[n] \in suspects
    BY <1>2, <1>6 DEF HiddenUnitsHaveACause
  <2>2. suspects \ {w} \subseteq suspects' /\ u \in Units /\ u # w
    BY <1>1, <1>6
  <2> QED BY <2>1, <2>2, <1>1, <1>2, VisibleStays
<1> QED BY <1>5, <1>7, <1>8, <1>9, <1>10 DEF TreeInv

LEMMA GroupsAreRows ==
  /\ \A r \in GroupRow : r # NoGroup
  /\ \A r \in GroupRow : r.partner \in Partners /\ r.unit \in Units
<1>1. \A r \in GroupRow : r.partner \in Partners /\ r.unit \in Units
  BY DEF GroupRow
<1> QED BY <1>1, StructureAssumption DEF NoGroup

\* A group is written in a unit of its partner.
LEMMA GroupKeepsTree ==
  ASSUME TreeInv, NEW g \in Groups, NEW row \in GroupRow \cup {NoGroup},
         row # NoGroup => row.unit \in Present /\ units[row.unit].partner = row.partner,
         groups' = [groups EXCEPT ![g] = row], UNCHANGED <<units, moves, periods, suspects>>
  PROVE  TreeInv'
<1>1. StructureTypeOK /\ NothingDangles /\ MovesFit /\ MovesAreWatched /\ HiddenUnitsHaveACause
  BY DEF TreeInv
<1>2. MovesFit' /\ MovesAreWatched' /\ HiddenUnitsHaveACause' /\ Present' = Present
  BY <1>1, TreeUnmoved
<1>3. StructureTypeOK'
  BY <1>1 DEF StructureTypeOK
<1>4. \A h \in Groups : groups'[h] = IF h = g THEN row ELSE groups[h]
  BY <1>1 DEF StructureTypeOK
<1>5. NothingDangles'
  BY <1>1, <1>2, <1>4 DEF NothingDangles
<1> QED BY <1>2, <1>3, <1>5 DEF TreeInv

LEMMA PeriodsKeepTree ==
  ASSUME TreeInv, periods' \subseteq Partners \X Titles,
         UNCHANGED <<units, moves, groups, suspects>>
  PROVE  TreeInv'
<1>1. MovesFit' /\ MovesAreWatched' /\ HiddenUnitsHaveACause' /\ Present' = Present
  BY TreeUnmoved DEF TreeInv
<1>2. StructureTypeOK' /\ NothingDangles'
  BY <1>1 DEF TreeInv, StructureTypeOK, NothingDangles
<1> QED BY <1>1, <1>2 DEF TreeInv

LEMMA UpdateGroupKeepsTree ==
  ASSUME TreeInv, NEW g \in Groups, NEW u \in Units, NEW l \in {"vo", "spo"},
         NEW c \in {"match", "other"}, UpdateAcademicGroup(g, u, l, c)
  PROVE  TreeInv'
<1> DEFINE row == [partner |-> groups[g].partner, unit |-> u, level |-> l, code |-> c]
<1>1. groups \in [Groups -> GroupRow \cup {NoGroup}] /\ groups[g] \in GroupRow
  BY DEF TreeInv, StructureTypeOK, UpdateAcademicGroup
<1>2. row \in GroupRow /\ row.unit = u /\ row.partner = groups[g].partner
  BY <1>1 DEF GroupRow
<1>3. [groups[g] EXCEPT !.unit = u, !.level = l, !.code = c] = row
  <2> DEFINE new == [groups[g] EXCEPT !.unit = u, !.level = l, !.code = c]
  <2>1. new \in GroupRow /\ new.partner = groups[g].partner /\ new.unit = u
        /\ new.level = l /\ new.code = c
    BY <1>1 DEF GroupRow
  <2>2. row.level = l /\ row.code = c
    OBVIOUS
  <2> HIDE DEF new, row
  <2>3. new = row
    BY <1>2, <2>1, <2>2 DEF GroupRow
  <2> QED BY <2>3 DEF new
<1>4. groups' = [groups EXCEPT ![g] = row]
  <2>1. groups' = [groups EXCEPT ![g].unit = u, ![g].level = l, ![g].code = c]
    BY DEF UpdateAcademicGroup
  <2>2. groups' = [groups EXCEPT ![g] = [groups[g] EXCEPT !.unit = u, !.level = l, !.code = c]]
    BY <2>1, <1>1
  <2> QED BY <2>2, <1>3
<1>5. u \in Present /\ units[u].partner = row.partner /\ UNCHANGED <<units, moves, periods, suspects>>
  BY <1>2 DEF UpdateAcademicGroup
<1> HIDE DEF row
<1> QED BY <1>2, <1>4, <1>5, GroupKeepsTree

LEMMA TreeStep ==
  ASSUME TreeInv, [Next]_vars
  PROVE  TreeInv'
<1>1. ASSUME NEW m \in Movers, NEW u \in Units, NEW parent \in Units \cup {"root"},
             OpenMove(m, u, parent)
      PROVE  TreeInv'
  <2>1. /\ moves[m] = NoMove /\ u \in Present /\ \A k \in Moving : moves[k].unit # u
        /\ HierarchyAllows(u, units[u].partner, parent)
        /\ moves' = [moves EXCEPT ![m] = [unit |-> u, partner |-> units[u].partner, parent |-> parent]]
        /\ UNCHANGED <<units, groups, periods>>
    BY <1>1 DEF OpenMove
  <2>2. suspects' = (IF Moving = {} THEN suspects
                     ELSE suspects \cup {u} \cup {moves[k].unit : k \in Moving})
                    \cup (IF Children(u) = {} THEN {} ELSE {u})
    BY <1>1 DEF OpenMove
  <2>3. units[u].partner \in Partners
    BY <2>1, UnitsAreRows, Marks DEF TreeInv
  <2>4. suspects' \subseteq Units
    BY <2>2, MovesAreRows DEF TreeInv, StructureTypeOK
  <2>5. /\ suspects \subseteq suspects'
        /\ Moving = {} \/ (u \in suspects' /\ \A k \in Moving : moves[k].unit \in suspects')
        /\ Children(u) = {} \/ u \in suspects'
    BY <2>2
  <2> QED BY <2>1, <2>3, <2>4, <2>5, OpeningKeepsTree
<1>2. ASSUME NEW m \in Movers, NEW u \in Units, NEW p \in Partners,
             NEW parent \in Units \cup {"root"}, OpenUnit(m, u, p, parent)
      PROVE  TreeInv'
  <2>1. /\ moves[m] = NoMove /\ u \notin Present /\ \A k \in Moving : moves[k].unit # u
        /\ HierarchyAllows(u, p, parent)
        /\ moves' = [moves EXCEPT ![m] = [unit |-> u, partner |-> p, parent |-> parent]]
        /\ UNCHANGED <<units, groups, periods>>
    BY <1>2 DEF OpenUnit
  <2>2. suspects' = IF Moving = {} THEN suspects
                    ELSE suspects \cup {u} \cup {moves[k].unit : k \in Moving}
    BY <1>2 DEF OpenUnit
  <2>3. suspects' \subseteq Units
    BY <2>2, MovesAreRows DEF TreeInv, StructureTypeOK
  <2>4. /\ suspects \subseteq suspects'
        /\ Moving = {} \/ (u \in suspects' /\ \A k \in Moving : moves[k].unit \in suspects')
    BY <2>2
  <2>5. Children(u) = {}
    BY <2>1, Marks DEF TreeInv, NothingDangles, Children
  <2> QED BY <2>1, <2>3, <2>4, <2>5, OpeningKeepsTree
<1>3. ASSUME NEW m \in Movers, NEW c \in BOOLEAN, CloseUnit(m, c)
      PROVE  TreeInv'
  BY <1>3, CommitKeepsTree, RollBackKeepsTree
<1>4. ASSUME NEW g \in Groups, NEW u \in Units, NEW l \in {"vo", "spo"},
             NEW c \in {"match", "other"}, NEW p \in Partners, CreateAcademicGroup(g, p, u, l, c)
      PROVE  TreeInv'
  <2> DEFINE row == [partner |-> p, unit |-> u, level |-> l, code |-> c]
  <2>1. row \in GroupRow /\ row.unit = u /\ row.partner = p
    BY DEF GroupRow
  <2>2. /\ u \in Present /\ units[u].partner = p /\ groups' = [groups EXCEPT ![g] = row]
        /\ UNCHANGED <<units, moves, periods, suspects>>
    BY <1>4 DEF CreateAcademicGroup
  <2> HIDE DEF row
  <2> QED BY <2>1, <2>2, GroupKeepsTree
<1>5. ASSUME NEW g \in Groups, DeleteAcademicGroup(g)
      PROVE  TreeInv'
  BY <1>5, GroupKeepsTree DEF DeleteAcademicGroup
<1>6. ASSUME NEW p \in Partners, NEW t \in Titles,
             \/ CreateAcademicPeriod(p, t) \/ DeleteAcademicPeriod(p, t)
             \/ \E title \in Titles : UpdateAcademicPeriod(p, t, title)
      PROVE  TreeInv'
  <2>1. periods' \subseteq Partners \X Titles /\ UNCHANGED <<units, moves, groups, suspects>>
    <3>1. periods \subseteq Partners \X Titles
      BY DEF TreeInv, StructureTypeOK
    <3>2. \A title \in Titles : <<p, title>> \in Partners \X Titles
      OBVIOUS
    <3>3. CASE CreateAcademicPeriod(p, t) \/ DeleteAcademicPeriod(p, t)
      BY <3>1, <3>2, <3>3 DEF CreateAcademicPeriod, DeleteAcademicPeriod
    <3>4. CASE \E title \in Titles : UpdateAcademicPeriod(p, t, title)
      BY <3>1, <3>2, <3>4 DEF UpdateAcademicPeriod
    <3> QED BY <1>6, <3>3, <3>4
  <2> QED BY <2>1, PeriodsKeepTree
<1>7. CASE StructureNext
  BY <1>1, <1>2, <1>3, <1>4, <1>5, <1>6, <1>7, DeletingKeepsTree, UpdateGroupKeepsTree
     DEF StructureNext
<1>8. CASE UNCHANGED structureVars
  BY <1>8, PeriodsKeepTree DEF structureVars, TreeInv, StructureTypeOK
<1> QED BY <1>7, <1>8 DEF Next, vars, structureVars

\* In a tree with so many levels every unit is shown.
LEMMA TreesAreShown ==
  ASSUME StructureTypeOK, IsTree(units), NEW u \in Units
  PROVE  Shown(u)
<1>1. PICK level \in [Units -> 1 .. MaxLevels] :
         \A x \in Units : units[x].parent # "root" => level[x] = level[units[x].parent] + 1
  BY DEF IsTree
<1> SUFFICES ASSUME ~ Shown(u) PROVE FALSE
  OBVIOUS
<1> DEFINE line == Line(u)
           S == {n \in 0 .. MaxLevels : line[n] \in Units /\ level[line[n]] + n = level[u]}
<1>2. MaxLevels \in Nat
  BY Marks
<1>3. \A x \in Units : level[x] \in 1 .. MaxLevels
  BY <1>1
<1>4. 0 \in S
  <2>1. line[0] = u /\ 0 \in 0 .. MaxLevels
    BY <1>2, LineIs DEF Line
  <2>2. level[u] + 0 = level[u]
    BY <1>2, <1>3
  <2> QED BY <2>1, <2>2
<1>5. ASSUME NEW n \in 0 .. MaxLevels - 1, n \in S PROVE n + 1 \in S
  <2>1. n \in Above(u) /\ n < MaxLevels /\ n + 1 \in 0 .. MaxLevels
    BY <1>2, <1>5 DEF Above
  <2>2. units[line[n]].parent # "root"
    BY <2>1 DEF Shown
  <2>3. line[n] \in Units /\ line[n + 1] = UpIn(units, line[n])
    BY <1>5, LineIs DEF Line
  <2>4. level[line[n]] + n = level[u]
    BY <1>5
  <2> HIDE DEF line
  <2>5. line[n + 1] = units[line[n]].parent /\ line[n + 1] \in Units
    BY <2>2, <2>3, UnitsAreRows DEF UpIn
  <2>6. level[line[n]] = level[line[n + 1]] + 1
    BY <1>1, <2>2, <2>3, <2>5
  <2>7. level[line[n + 1]] + (n + 1) = level[u]
    BY <2>3, <2>4, <2>5, <2>6, <1>2, <1>3
  <2> QED BY <2>1, <2>5, <2>7
<1>6. MaxLevels \in S
  <2>1. MaxLevels \in 0 .. MaxLevels
    BY <1>2
  <2> HIDE DEF S
  <2> QED BY <1>2, <1>4, <1>5, <2>1, Climbing
<1> QED BY <1>6, <1>2, <1>3

LEMMA TreeInitially ==
  ASSUME Init
  PROVE  TreeInv
<1>1. PICK s \in Starts :
        /\ units = s.units /\ moves = [m \in Movers |-> NoMove]
        /\ groups = [g \in Groups |-> NoGroup] /\ periods = {} /\ suspects = {}
  BY DEF Init
<1>2. units \in [Units -> UnitRow \cup {NoUnit}] /\ IsTree(units)
  BY <1>1, StartsAssumption
<1>3. StructureTypeOK
  BY <1>1, <1>2 DEF StructureTypeOK
<1>4. Moving = {}
  BY <1>1 DEF Moving
<1>5. NothingDangles
  <2>1. ASSUME NEW u \in Present, units[u].parent # "root"
        PROVE  units[u].parent \in Present /\ units[units[u].parent].partner = units[u].partner
    <3>1. u \in Units /\ units[u].parent \in Units
      BY <2>1, <1>3, UnitsAreRows DEF Present
    <3>2. units[units[u].parent] # NoUnit /\ units[units[u].parent].partner = units[u].partner
      BY <3>1, <2>1, <1>2 DEF IsTree
    <3> QED BY <3>1, <3>2 DEF Present
  <2> QED BY <2>1, <1>1 DEF NothingDangles
<1>6. HiddenUnitsHaveACause
  BY <1>2, <1>3, TreesAreShown DEF HiddenUnitsHaveACause, Present
<1> QED BY <1>3, <1>4, <1>5, <1>6 DEF TreeInv, MovesFit, MovesAreWatched

LEMMA TreeInvAlways == Spec => []TreeInv
<1>1. Init => TreeInv
  BY TreeInitially
<1>2. TreeInv /\ [Next]_vars => TreeInv'
  BY TreeStep
<1> QED BY <1>1, <1>2, PTL DEF Spec

(* For any number of units, levels and people who write them: a unit that   *)
(* the list does not show was moved with its subtree, or stands in a line   *)
(* with one that was written beside another; and no unit or group has lost  *)
(* what it hangs on (validate_org_unit_hierarchy, DeleteOrgUnit).           *)
THEOREM UnitsAreAccountedFor == Spec => []HierarchyIsExplained
<1>1. TreeInv => HierarchyIsExplained
  BY DEF TreeInv, HierarchyIsExplained
<1> QED BY <1>1, TreeInvAlways, PTL

-----------------------------------------------------------------------------
(* Types. *)

\* What an edit and a new partner have in hand is there and stays there.
KnownInHand ==
    /\ edit # NoEdit => edit.org \in Known /\ edit.form \in Forms
    /\ joining # NoJoin => joining.org \in Known

\* The rest of DirectoryTypeOK: the runs and the observers.
RunsTyped ==
    /\ syncing \in BOOLEAN
    /\ syncRun \in {"none", "started", "completed", "failed"}
    /\ search \in [on: BOOLEAN, left: SUBSET Orgs, at: Orgs \cup {"none"}]
    /\ collector \in [on: BOOLEAN, left: SUBSET Orgs, at: {"none"}]
    /\ author \in [Orgs -> {"earlier", "reviewer", "collector"}]
    /\ retyped \subseteq Orgs

CataloguesInv == DirInv /\ KnownInHand /\ RunsTyped /\ CompaniesTypeOK

LEMMA CountedIsTyped ==
  ASSUME writes \in 0 .. MaxWrites, NEW who, Counted(who)
  PROVE  writes' \in 0 .. MaxWrites
BY CompaniesAssumption DEF Counted

\* An organisation that is known stays known.
LEMMA KnownStay ==
  ASSUME DirInv, KnownInHand, DirectoryNext
  PROVE  Known \subseteq Known'
<1>0. directory \in [Orgs -> OrgRecord] /\ "none" \notin Kinds
  BY KindsAreKnown DEF DirInv, RowsTyped
<1> SUFFICES \A o \in Orgs : \/ directory'[o].kind = directory[o].kind
                             \/ directory'[o].kind \in Kinds
  BY <1>0 DEF Known
<1>1. ASSUME NEW o \in Orgs, NEW d, directory' = [directory EXCEPT ![o] = d],
             d.kind = directory[o].kind \/ d.kind \in Kinds
      PROVE  \A x \in Orgs : directory'[x].kind = directory[x].kind \/ directory'[x].kind \in Kinds
  BY <1>1, <1>0
<1>2. CASE CommitUpdate
  <2>1. edit.org \in Orgs /\ edit.form.kind \in Kinds
    BY <1>2, DirectoryAssumption DEF CommitUpdate, KnownInHand, Known, Form
  <2> QED BY <1>2, <2>1, <1>0 DEF CommitUpdate
<1>3. ASSUME NEW o \in Orgs, NEW f \in Forms, NEW m \in BOOLEAN, CreateDirectory(o, f, m)
      PROVE  \A x \in Orgs : directory'[x].kind = directory[x].kind \/ directory'[x].kind \in Kinds
  <2>1. f.kind \in Kinds
    BY DirectoryAssumption DEF Form
  <2> QED BY <1>3, <2>1, <1>0 DEF CreateDirectory
<1>4. ASSUME NEW f \in DirectoryFiles, NEW status, UpsertRows(f, status)
      PROVE  \A x \in Orgs : directory'[x].kind = directory[x].kind \/ directory'[x].kind \in Kinds
  <2> TAKE x \in Orgs
  <2>1. CASE x \notin DOMAIN f
    BY <1>4, <2>1 DEF UpsertRows
  <2>2. CASE x \in DOMAIN f
    <3>1. f[x].kind \in Kinds
      BY <2>2, DirectoryAssumption DEF FileRow
    <3>2. directory'[x] = Upserted(directory[x], f[x], status) /\ directory[x] \in OrgRecord
      BY <1>4, <2>2, <1>0 DEF UpsertRows
    <3> QED BY <3>1, <3>2 DEF Upserted, OrgRecord
  <2> QED BY <2>1, <2>2
<1>5. ASSUME NEW o \in Orgs,
             \/ Approve(o) \/ Reject(o) \/ SearchReset(o)
             \/ \E c \in {"match", "other"} : CollectSave(o, c)
      PROVE  \A x \in Orgs : directory'[x].kind = directory[x].kind
  BY <1>5, <1>0 DEF Approve, Reject, SearchReset, CollectSave, OrgRecord
<1>6. ASSUME NEW f, NEW alive, SearchWrite(f, alive)
      PROVE  \A x \in Orgs : directory'[x].kind = directory[x].kind
  BY <1>6, <1>0 DEF SearchWrite, OrgRecord
<1>7. CASE CollectStart \/ Month
  <2> SUFFICES ASSUME NEW o \in Orgs PROVE directory'[o].kind = directory[o].kind
    OBVIOUS
  <2>1. directory[o] \in OrgRecord
    BY <1>0
  <2>2. CASE CollectStart
    <3>1. directory'[o] = [directory[o] EXCEPT !.checked =
                             IF directory[o].checked = "after" THEN "before" ELSE directory[o].checked]
      BY <2>2 DEF CollectStart
    <3> QED BY <2>1, <3>1 DEF OrgRecord
  <2>3. CASE Month
    <3>1. directory'[o] = [directory[o] EXCEPT !.fresh = FALSE, !.checked =
                             IF directory[o].checked = "never" THEN directory[o].checked ELSE "stale"]
      BY <2>3 DEF Month
    <3> QED BY <2>1, <3>1 DEF OrgRecord
  <2> QED BY <1>7, <2>2, <2>3
<1>8. CASE directory' = directory
  BY <1>8
<1>9. ASSUME NEW f \in DirectoryFiles, ImportDirectory(f) \/ SyncApply(f)
      PROVE  \A x \in Orgs : directory'[x].kind = directory[x].kind \/ directory'[x].kind \in Kinds
  BY <1>4, <1>9 DEF ImportDirectory, SyncApply
<1>10. CASE \/ \E o \in Orgs, f \in Forms : OpenUpdate(o, f)
            \/ AbandonUpdate \/ SyncStart \/ (\E died \in BOOLEAN : SyncFail(died))
            \/ SearchStart \/ SearchMiss \/ SearchEnd \/ CollectEnd
            \/ \E o \in Orgs : CollectLeave(o)
            \/ \E p \in Partners, o \in Orgs : OpenPartner(p, o)
            \/ \E c \in BOOLEAN : ClosePartner(c)
  BY <1>8, <1>10 DEF OpenUpdate, AbandonUpdate, SyncStart, SyncFail, SearchStart, SearchMiss,
       SearchEnd, CollectEnd, CollectLeave, OpenPartner, ClosePartner
<1> QED BY <1>2, <1>3, <1>5, <1>6, <1>7, <1>9, <1>10 DEF DirectoryNext

LEMMA HandsStep ==
  ASSUME DirInv, KnownInHand, DirectoryNext
  PROVE  KnownInHand'
<1>1. Known \subseteq Known'
  BY KnownStay
<1>2. CASE \E o \in Orgs, f \in Forms : OpenUpdate(o, f)
  BY <1>1, <1>2 DEF OpenUpdate, KnownInHand
<1>3. CASE CollectStart
  <2>1. edit # NoEdit => edit \in [org: Orgs, form: Form, late: BOOLEAN]
    BY DEF DirInv, RowsTyped
  <2>2. edit # NoEdit => edit' = [edit EXCEPT !.late = FALSE]
    BY <1>3 DEF CollectStart
  <2>3. edit # NoEdit => edit'.org = edit.org /\ edit'.form = edit.form
    BY <2>1, <2>2
  <2>4. edit = NoEdit => edit' = NoEdit
    BY <1>3 DEF CollectStart
  <2> QED BY <1>1, <1>3, <2>3, <2>4 DEF CollectStart, KnownInHand
<1>4. CASE \E p \in Partners, o \in Orgs : OpenPartner(p, o)
  BY <1>1, <1>4 DEF OpenPartner, KnownInHand
<1>5. CASE UNCHANGED <<edit, joining>> \/ (edit' = NoEdit /\ joining' = joining)
           \/ (joining' = NoJoin /\ edit' = edit)
  BY <1>1, <1>5 DEF KnownInHand
<1>6. CASE \/ CommitUpdate \/ AbandonUpdate
           \/ \E c \in BOOLEAN : ClosePartner(c)
  BY <1>5, <1>6 DEF CommitUpdate, AbandonUpdate, ClosePartner
<1>7. CASE \/ \E o \in Orgs, f \in Forms, m \in BOOLEAN : CreateDirectory(o, f, m)
           \/ \E o \in Orgs : Approve(o) \/ Reject(o) \/ SearchReset(o) \/ CollectLeave(o)
           \/ \E f \in DirectoryFiles : ImportDirectory(f) \/ SyncApply(f)
           \/ SyncStart \/ (\E died \in BOOLEAN : SyncFail(died))
           \/ SearchStart \/ (\E f \in Facts, alive \in BOOLEAN : SearchWrite(f, alive))
           \/ SearchMiss \/ SearchEnd
           \/ \E o \in Orgs, c \in {"match", "other"} : CollectSave(o, c)
           \/ CollectEnd \/ Month
  BY <1>5, <1>7 DEF CreateDirectory, Approve, Reject, SearchReset, CollectLeave, ImportDirectory,
       SyncApply, SyncStart, SyncFail, SearchStart, SearchWrite, SearchMiss, SearchEnd,
       CollectSave, CollectEnd, Month
<1> QED BY <1>2, <1>3, <1>4, <1>6, <1>7 DEF DirectoryNext

\* One candidate of a run is done.
LEMMA OneLess ==
  ASSUME NEW A, NEW run \in [on: BOOLEAN, left: SUBSET Orgs, at: A], NEW a \in A,
         NEW rest \in SUBSET Orgs
  PROVE  /\ [run EXCEPT !.at = a, !.left = rest] \in [on: BOOLEAN, left: SUBSET Orgs, at: A]
         /\ [run EXCEPT !.left = rest] \in [on: BOOLEAN, left: SUBSET Orgs, at: A]
OBVIOUS

LEMMA RunsStep ==
  ASSUME RunsTyped, DirectoryNext, DirInv
  PROVE  RunsTyped'
<1>0. DOMAIN directory = Orgs /\ Known \subseteq Orgs
  BY DEF DirInv, RowsTyped, Known
<1> USE DEF RunsTyped
<1>1. CASE \/ \E o \in Orgs, f \in Forms : OpenUpdate(o, f)
           \/ CommitUpdate \/ AbandonUpdate
           \/ \E o \in Orgs : Approve(o) \/ Reject(o)
           \/ \E p \in Partners, o \in Orgs : OpenPartner(p, o)
           \/ \E c \in BOOLEAN : ClosePartner(c)
           \/ Month
  BY <1>1 DEF OpenUpdate, CommitUpdate, AbandonUpdate, Approve, Reject, OpenPartner,
       ClosePartner, Month
<1>6. CASE \E o \in Orgs, f \in Forms, m \in BOOLEAN : CreateDirectory(o, f, m)
  BY <1>6 DEF CreateDirectory
<1>2. ASSUME NEW f \in DirectoryFiles, ImportDirectory(f) \/ SyncApply(f)
      PROVE  RunsTyped'
  <2>1. DOMAIN f \subseteq Orgs
    BY DirectoryAssumption
  <2> QED BY <1>2, <2>1 DEF ImportDirectory, SyncApply, UpsertRows
<1>3. CASE SyncStart \/ \E c \in BOOLEAN : SyncFail(c)
  BY <1>3 DEF SyncStart, SyncFail
<1>4. CASE \/ SearchStart \/ SearchMiss \/ SearchEnd
           \/ \E o \in Orgs : SearchReset(o)
           \/ \E f \in Facts, alive \in BOOLEAN : SearchWrite(f, alive)
  <2>1. search' \in [on: BOOLEAN, left: SUBSET Orgs, at: Orgs \cup {"none"}]
    <3>1. CASE SearchStart
      BY <1>0, <3>1 DEF SearchStart
    <3>2. CASE SearchMiss \/ \E f \in Facts, alive \in BOOLEAN : SearchWrite(f, alive)
      BY <3>2 DEF SearchMiss, SearchWrite
    <3>3. CASE SearchEnd
      BY <3>3 DEF SearchEnd, Idle
    <3>4. CASE \E o \in Orgs : SearchReset(o)
      <4>1. PICK o \in Orgs : SearchReset(o)
        BY <3>4
      <4>2. PICK rest \in SUBSET Orgs : rest = search.left \ {o}
        OBVIOUS
      <4>3. search' = [search EXCEPT !.at = o, !.left = rest]
        BY <4>1, <4>2 DEF SearchReset
      <4> QED BY <4>3, OneLess
    <3> QED BY <1>4, <3>1, <3>2, <3>3, <3>4
  <2>2. UNCHANGED <<syncing, syncRun, collector, author, retyped>>
    BY <1>4 DEF SearchStart, SearchReset, SearchWrite, SearchMiss, SearchEnd
  <2> QED BY <2>1, <2>2
<1>5. CASE \/ CollectStart \/ CollectEnd \/ \E o \in Orgs : CollectLeave(o)
           \/ \E o \in Orgs, c \in {"match", "other"} : CollectSave(o, c)
  <2>1. collector' \in [on: BOOLEAN, left: SUBSET Orgs, at: {"none"}]
    <3>1. CASE CollectStart
      BY <1>0, <3>1 DEF CollectStart
    <3>2. CASE CollectEnd
      BY <3>2 DEF CollectEnd, Idle
    <3>3. CASE \/ \E o \in Orgs : CollectLeave(o)
               \/ \E o \in Orgs, c \in {"match", "other"} : CollectSave(o, c)
      <4>1. PICK o \in Orgs : collector' = [collector EXCEPT !.left = @ \ {o}]
        BY <3>3 DEF CollectLeave, CollectSave
      <4>2. PICK rest \in SUBSET Orgs : rest = collector.left \ {o}
        OBVIOUS
      <4>3. collector' = [collector EXCEPT !.left = rest]
        BY <4>1, <4>2
      <4> QED BY <4>3, OneLess
    <3> QED BY <1>5, <3>1, <3>2, <3>3
  <2>2. author' \in [Orgs -> {"earlier", "reviewer", "collector"}]
    BY <1>5 DEF CollectStart, CollectSave, CollectLeave, CollectEnd
  <2>3. UNCHANGED <<syncing, syncRun, search, retyped>>
    BY <1>5 DEF CollectStart, CollectSave, CollectLeave, CollectEnd
  <2> QED BY <2>1, <2>2, <2>3
<1> QED BY <1>1, <1>2, <1>3, <1>4, <1>5, <1>6 DEF DirectoryNext

LEMMA CompaniesStep ==
  ASSUME CompaniesTypeOK, CompaniesNext
  PROVE  CompaniesTypeOK'
<1>1. ASSUME NEW i \in Inns, NEW o \in Ogrns, NEW t \in 1 .. 2, CreateCompany(i, o, t)
      PROVE  CompaniesTypeOK'
  <2>1. [ogrn |-> o, status |-> "active", date |-> t] \in CompanyRow
    BY DEF CompanyRow, CompanyStatuses
  <2> QED BY <1>1, <2>1, CountedIsTyped DEF CompaniesTypeOK, CreateCompany
<1>2. ASSUME NEW f \in CompanyFiles, ImportCompanies(f)
      PROVE  CompaniesTypeOK'
  <2>1. f \in [DOMAIN f -> CompanyRow]
    BY CompaniesAssumption DEF CompanyFile
  <2> QED BY <1>2, <2>1, CountedIsTyped DEF CompaniesTypeOK, ImportCompanies
<1>3. ASSUME NEW w \in Writers, NEW d \in Deals, NEW m \in MemberLists,
             EditDeal(w, d, m) \/ \E c \in Inns : OpenDeal(w, d, c, m)
      PROVE  CompaniesTypeOK'
  <2>1. m \subseteq Inns /\ {} \subseteq Inns
    BY DEF MemberLists
  <2>2. CASE EditDeal(w, d, m)
    <3>1. deals[d].company \in Inns
      BY <2>2, NoDealIsNotActive DEF CompaniesTypeOK, EditDeal
    <3> QED BY <2>1, <2>2, <3>1, CountedIsTyped DEF CompaniesTypeOK, EditDeal, companyVars
  <2>3. CASE \E c \in Inns : OpenDeal(w, d, c, m)
    BY <2>1, <2>3, CountedIsTyped DEF CompaniesTypeOK, OpenDeal, companyVars
  <2> QED BY <1>3, <2>2, <2>3
<1>4. ASSUME NEW w \in Writers, NEW i \in Inns, TakeMember(w, i)
      PROVE  CompaniesTypeOK'
  <2>1. writing[w] \in DealWrite
    BY <1>4 DEF TakeMember, CompaniesTypeOK, DealWrite
  <2>2. [writing[w] EXCEPT !.left = @ \ {i}, !.taken = @ \cup {i}] \in DealWrite
    BY <2>1 DEF DealWrite
  <2>3. writing' = [writing EXCEPT ![w] = [writing[w] EXCEPT !.left = @ \ {i}, !.taken = @ \cup {i}]]
    BY <1>4 DEF TakeMember
  <2> QED BY <1>4, <2>2, <2>3 DEF TakeMember, CompaniesTypeOK, DealWrite
<1>5. ASSUME NEW w \in Writers, CommitDeal(w) \/ RollBackDeal(w)
      PROVE  CompaniesTypeOK'
  BY <1>5 DEF CommitDeal, RollBackDeal, CompaniesTypeOK
<1>6. ASSUME NEW d \in Deals, TerminateDeal(d)
      PROVE  CompaniesTypeOK'
  <2>1. deals[d] \in DealRow
    BY <1>6, NoDealIsNotActive DEF TerminateDeal, CompaniesTypeOK, DealRow
  <2> QED BY <1>6, <2>1, CountedIsTyped DEF TerminateDeal, CompaniesTypeOK, DealRow
<1> QED BY <1>1, <1>2, <1>3, <1>4, <1>5, <1>6 DEF CompaniesNext

\* The others count their steps and leave the companies alone.
LEMMA StepsAreCounted ==
  ASSUME writes \in 0 .. MaxWrites, DirectoryNext \/ StructureNext
  PROVE  writes' \in 0 .. MaxWrites
<1>1. ASSUME NEW who, Counted(who) PROVE writes' \in 0 .. MaxWrites
  BY <1>1, CountedIsTyped
<1>2. CASE writes' = writes
  BY <1>2
<1>3. CASE DirectoryNext
  BY <1>1, <1>2, <1>3 DEF DirectoryNext, OpenUpdate, CreateDirectory, Approve, Reject,
     ImportDirectory, SyncStart, SearchStart, CollectStart, OpenPartner, Month
<1>4. CASE StructureNext
  <2>1. ASSUME NEW m, NEW u, NEW p, NEW parent, OpenMove(m, u, parent) \/ OpenUnit(m, u, p, parent)
        PROVE  Counted("mover")
    BY <2>1 DEF OpenMove, OpenUnit
  <2>2. ASSUME NEW g, NEW u, NEW l, NEW c, NEW p,
               UpdateAcademicGroup(g, u, l, c) \/ CreateAcademicGroup(g, p, u, l, c)
        PROVE  Counted("dean")
    BY <2>2 DEF UpdateAcademicGroup, CreateAcademicGroup
  <2>3. ASSUME NEW p, NEW t, NEW title, \/ CreateAcademicPeriod(p, t) \/ DeleteAcademicPeriod(p, t)
                                        \/ UpdateAcademicPeriod(p, t, title)
        PROVE  Counted("dean")
    BY <2>3 DEF CreateAcademicPeriod, DeleteAcademicPeriod, UpdateAcademicPeriod
  <2>4. Counted("mover") \/ Counted("dean") \/ writes' = writes
    BY <1>4, <2>1, <2>2, <2>3 DEF StructureNext, DeleteUnit, DeleteAcademicGroup
  <2> QED BY <1>1, <1>2, <2>4
<1> QED BY <1>3, <1>4

LEMMA CataloguesStep ==
  ASSUME CataloguesInv, [Next]_vars
  PROVE  CataloguesInv'
<1>1. DirInv'
  BY DirInvStep DEF CataloguesInv
<1>2. CASE DirectoryNext /\ UNCHANGED <<allCompanyVars, structureVars>>
  <2>1. KnownInHand' /\ RunsTyped'
    BY <1>2, HandsStep, RunsStep DEF CataloguesInv
  <2>2. CompaniesTypeOK'
    BY <1>2, StepsAreCounted DEF CataloguesInv, CompaniesTypeOK, allCompanyVars
  <2> QED BY <1>1, <2>1, <2>2 DEF CataloguesInv
<1>3. CASE UNCHANGED directoryVars
  <2>1. KnownInHand' /\ RunsTyped'
    BY <1>3 DEF CataloguesInv, KnownInHand, RunsTyped, Known, directoryVars
  <2>2. CASE CompaniesNext
    BY <1>1, <2>1, <2>2, CompaniesStep DEF CataloguesInv
  <2>3. CASE StructureNext /\ UNCHANGED <<allCompanyVars, directoryVars>>
    BY <1>1, <2>1, <2>3, StepsAreCounted DEF CataloguesInv, CompaniesTypeOK, allCompanyVars
  <2>4. CASE UNCHANGED vars
    BY <1>1, <2>1, <2>4 DEF CataloguesInv, CompaniesTypeOK, vars, allCompanyVars
  <2>5. \/ CompaniesNext \/ UNCHANGED vars
        \/ StructureNext /\ UNCHANGED <<allCompanyVars, directoryVars>>
        \/ DirectoryNext /\ UNCHANGED <<allCompanyVars, structureVars>>
    BY DEF Next
  <2> QED BY <1>2, <2>2, <2>3, <2>4, <2>5
<1> QED BY <1>2, <1>3 DEF Next, vars

LEMMA CataloguesInitially ==
  ASSUME Init
  PROVE  CataloguesInv
<1>1. DirInv
  BY DirectoryInitially
<1>2. PICK s \in Starts :
        /\ companies = s.companies /\ writes = s.writes
        /\ deals = [d \in Deals |-> NoDeal]
        /\ writing = [w \in Writers |-> NoWrite]
        /\ edit = NoEdit /\ joining = NoJoin /\ syncing = FALSE /\ syncRun = "none"
        /\ search = Idle /\ collector = Idle
        /\ author = [o \in Orgs |-> "earlier"] /\ retyped = {}
  BY DEF Init
<1>3. companies \in [Inns -> CompanyRow \cup {NoCompany}] /\ writes \in 0 .. MaxWrites
  BY <1>2, StartsAssumption
<1>4. CompaniesTypeOK
  BY <1>2, <1>3 DEF CompaniesTypeOK
<1>5. KnownInHand /\ RunsTyped
  BY <1>2 DEF KnownInHand, RunsTyped, Idle
<1> QED BY <1>1, <1>4, <1>5 DEF CataloguesInv

(* The rows of the catalogues and what their writers have in hand keep      *)
(* their shape; an edit and a new partner hold a row that is there          *)
(* (UpdateDirectory, PartnerHandlers.Create).                               *)
THEOREM CataloguesTyped == Spec => []TypeOK
<1>1. Init => CataloguesInv
  BY CataloguesInitially
<1>2. CataloguesInv /\ [Next]_vars => CataloguesInv'
  BY CataloguesStep
<1>3. CataloguesInv /\ TreeInv => TypeOK
  <2> SUFFICES ASSUME CataloguesInv, TreeInv PROVE TypeOK
    OBVIOUS
  <2>1. edit = NoEdit \/ edit \in [org: Known, form: Forms, late: BOOLEAN]
    BY DEF CataloguesInv, DirInv, RowsTyped, KnownInHand
  <2>2. joining = NoJoin \/ joining \in [org: Known, partner: Partners, kind: Kinds]
    BY DEF CataloguesInv, DirInv, RowsTyped, KnownInHand
  <2>3. DirectoryTypeOK
    BY <2>1, <2>2 DEF CataloguesInv, DirInv, RowsTyped, RunsTyped, DirectoryTypeOK
  <2> QED BY <2>3 DEF CataloguesInv, TreeInv, TypeOK
<1> QED BY <1>1, <1>2, <1>3, TreeInvAlways, PTL DEF Spec
==============================================================================
