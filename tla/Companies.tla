------------------------------ MODULE Companies ------------------------------
(***************************************************************************)
(* The register of accredited IT companies (handlers/it_companies.go,      *)
(* handlers/it_companies_import.go) and the agreements by which a company  *)
(* and the legal entities around it act as one group                       *)
(* (handlers/legal_entity_groups.go).                                      *)
(*                                                                         *)
(* Companies are filled from files of the register.  A file is taken in    *)
(* one transaction under an advisory lock, so a step takes a whole file.   *)
(* A group's agreement is written under the lock of its row, and each      *)
(* member under an advisory lock of its INN; "members" are those that are  *)
(* IT organisations, which alone are restricted.                           *)
(***************************************************************************)
EXTENDS Integers, FiniteSets

CONSTANTS
    Inns,           \* the taxpayer numbers: a company is found by its INN
    Ogrns,          \* the registration numbers
    CompanyFiles,   \* the files that pass ReadITCompanies: functions to rows
    Deals,          \* the rows of legal_entity_groups
    Writers,        \* the people who write agreements at the same time
    MaxWrites       \* bound: steps of the people and the files in a behaviour

CompanyStatuses == {"active", "suspended", "revoked"}

(* A row of accredited_it_companies, as normalizeITCompany lets it pass. *)
CompanyRow == [ogrn: Ogrns, status: CompanyStatuses, date: Nat]

(* A file that ReadITCompanies takes: some rows, one for an INN, and no      *)
(* registration number for two of them.                                     *)
CompanyFile(f) ==
    /\ DOMAIN f # {} /\ DOMAIN f \subseteq Inns
    /\ f \in [DOMAIN f -> CompanyRow]
    /\ \A i, j \in DOMAIN f : f[i].ogrn = f[j].ogrn => i = j

(* The IT members of an agreement: normalizeLegalEntityGroup asks for one. *)
MemberLists == SUBSET Inns \ {{}}

ASSUME CompaniesAssumption ==
    /\ MaxWrites \in Nat
    /\ \A f \in CompanyFiles : CompanyFile(f)

VARIABLES
    companies,      \* accredited_it_companies, by INN
    deals,          \* legal_entity_groups with their IT members
    writing,        \* the open transactions that write an agreement
    busy,           \* who takes part: chosen at the start, bounds the model
    writes          \* the number of bounded steps so far

companyVars == <<companies, deals>>
allCompanyVars == <<companies, deals, writing>>

NoCompany == [ogrn |-> "none", status |-> "none", date |-> 0]
NoDeal == [company |-> "none", state |-> "none", members |-> {}]
NoWrite == [deal |-> "none", company |-> "none", left |-> {}, taken |-> {}]

Registered == {i \in Inns : companies[i] # NoCompany}

CompaniesTypeOK ==
    /\ companies \in [Inns -> CompanyRow \cup {NoCompany}]
    /\ deals \in [Deals -> [company: Inns, state: {"active", "terminated"},
                            members: SUBSET Inns] \cup {NoDeal}]
    /\ writing \in [Writers -> [deal: Deals, company: Inns, left: SUBSET Inns,
                                taken: SUBSET Inns] \cup {NoWrite}]
    /\ writes \in 0 .. MaxWrites

Counted(who) ==
    /\ who \in busy
    /\ writes < MaxWrites
    /\ writes' = writes + 1
    /\ UNCHANGED busy

------------------------------------------------------------------------------
(* ITCompanyHandlers.Create: the INN and the OGRN are unique. *)
CreateCompany(i, ogrn, date) ==
    /\ Counted("registrar")
    /\ i \notin Registered
    /\ \A j \in Registered : companies[j].ogrn # ogrn
    /\ companies' = [companies EXCEPT ![i] = [ogrn |-> ogrn, status |-> "active", date |-> date]]
    /\ UNCHANGED <<deals, writing>>

(* The row of the file may be put over the stored one: it is of the same    *)
(* legal entity and is not older.                                           *)
MayReplace(old, new) == old = NoCompany \/ (old.ogrn = new.ogrn /\ old.date <= new.date)

(* ImportITCompanies: one row that may not be put rolls the file back. *)
ImportCompanies(f) ==
    /\ Counted("registrar")
    /\ \A i \in DOMAIN f : MayReplace(companies[i], f[i])
    /\ companies' = [i \in Inns |-> IF i \in DOMAIN f THEN f[i] ELSE companies[i]]
    /\ \A i, j \in Inns : companies'[i] # NoCompany /\ companies'[i].ogrn = companies'[j].ogrn => i = j
    /\ UNCHANGED <<deals, writing>>

InForce(c) == {d \in Deals : deals[d].company = c /\ deals[d].state = "active"}
Writing == {w \in Writers : writing[w] # NoWrite}
RowIsFree(d) == \A w \in Writing : writing[w].deal # d

(* LegalEntityGroupHandlers.write with no id, to the row of the agreement:  *)
(* one agreement of a company is in force, by a unique index.               *)
OpenDeal(w, d, c, members) ==
    /\ Counted("preparer")
    /\ writing[w] = NoWrite
    /\ deals[d] = NoDeal /\ RowIsFree(d)
    /\ c \in Registered
    /\ InForce(c) = {} /\ \A v \in Writing : writing[v].company # c
    /\ writing' = [writing EXCEPT ![w] =
          [deal |-> d, company |-> c, left |-> members, taken |-> {}]]
    /\ UNCHANGED companyVars

(* write with an id: only an agreement in force is edited, under the lock   *)
(* of its row; its members are deleted and inserted anew.                   *)
EditDeal(w, d, members) ==
    /\ Counted("preparer")
    /\ writing[w] = NoWrite
    /\ deals[d].state = "active" /\ RowIsFree(d)
    /\ writing' = [writing EXCEPT ![w] =
          [deal |-> d, company |-> deals[d].company, left |-> members, taken |-> {}]]
    /\ UNCHANGED companyVars

(* Mutant: the lock of the INN is left out. *)
HoldersUnlocked(i) == {}

(* The advisory lock of a member's INN is held by these transactions. *)
Holders(i) == {w \in Writing : i \in writing[w].taken}

(* legal_entity_member_single_active_group, for one inserted member: under  *)
(* the lock, no other agreement in force has it.                            *)
TakeMember(w, i) ==
    /\ writing[w] # NoWrite /\ i \in writing[w].left
    /\ Holders(i) = {}
    /\ \A d \in Deals : i \in deals[d].members /\ deals[d].state = "active" => d = writing[w].deal
    /\ writing' = [writing EXCEPT ![w].left = @ \ {i}, ![w].taken = @ \cup {i}]
    /\ UNCHANGED <<companies, deals, busy, writes>>

CommitDeal(w) ==
    /\ writing[w] # NoWrite /\ writing[w].left = {}
    /\ deals' = [deals EXCEPT ![writing[w].deal] =
          [company |-> writing[w].company, state |-> "active", members |-> writing[w].taken]]
    /\ writing' = [writing EXCEPT ![w] = NoWrite]
    /\ UNCHANGED <<companies, busy, writes>>

(* The member belongs to another group, or the database broke a deadlock of *)
(* two transactions that wait for each other's members.                     *)
RollBackDeal(w) ==
    /\ writing[w] # NoWrite
    /\ writing' = [writing EXCEPT ![w] = NoWrite]
    /\ UNCHANGED <<companies, deals, busy, writes>>

(* Terminate: the row stays in the history, a new agreement may be made. *)
TerminateDeal(d) ==
    /\ Counted("administration")
    /\ deals[d].state = "active" /\ RowIsFree(d)
    /\ deals' = [deals EXCEPT ![d].state = "terminated"]
    /\ UNCHANGED <<companies, writing>>

CompaniesNext ==
    \/ \E i \in Inns, o \in Ogrns, t \in 1 .. 2 : CreateCompany(i, o, t)
    \/ \E f \in CompanyFiles : ImportCompanies(f)
    \/ \E w \in Writers, d \in Deals, m \in MemberLists :
          EditDeal(w, d, m) \/ \E c \in Inns : OpenDeal(w, d, c, m)
    \/ \E w \in Writers, i \in Inns : TakeMember(w, i)
    \/ \E w \in Writers : CommitDeal(w) \/ RollBackDeal(w)
    \/ \E d \in Deals : TerminateDeal(d)

------------------------------------------------------------------------------
(* An IT organisation belongs to one agreement in force, also when two      *)
(* agreements are written at the same time and share their members          *)
(* (legal_entity_member_single_active_group: "an IT organisation is in one  *)
(* group only").                                                            *)
OneGroupAtATime ==
    \A d, e \in Deals :
       d # e /\ deals[d].state = "active" /\ deals[e].state = "active"
          => /\ deals[d].members \cap deals[e].members = {}
             /\ deals[d].company # deals[e].company

==============================================================================
