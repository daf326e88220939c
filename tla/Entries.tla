------------------------------ MODULE Entries ------------------------------
(***************************************************************************)
(* Entries of plan and fact (handlers/entries.go, entries_copy_plan.go,    *)
(* imports.go, migrations/0004, 0019, 0301, 0400, 0701, 0812), composed    *)
(* with the agreements, the rates and the people they cite.                *)
(*                                                                         *)
(* A request checks its context, finds the person, takes the rates and     *)
(* writes.  Every one of those reads asks the pool of connections for a    *)
(* snapshot of its own, so other requests commit in between; only the last *)
(* step is a transaction, which the constraints of the database guard.  An *)
(* edit locks the row of its entry first.  An amount is a quantity times a *)
(* price; the fields of a form are one slot: the course and the semester   *)
(* of a teacher, the student and the dates of a mentor.                    *)
(***************************************************************************)
EXTENDS Tariffs, People

CONSTANTS Requests,       \* requests to the entries, one each
          Starts,         \* scenarios: what requests and publications ask,
                          \* and which directories are written meanwhile
          RateOf,         \* category -> its rate, or NoRate for confirmed costs
          NoRate,
          Teaching, Mentored,    \* categories that cite an employee, a mentor
          NoOne,          \* no person cited
          Founding, Hired, Enrolled  \* the first agreement, the people on file

(* The part of a form that decides what becomes of it.                     *)
Draft ==
  [category : Categories, partner : Partners, agreement : AgreementIds,
   year : Years, period : {"plan", "fact"}, slot : STRING, units : Nat \ {0},
   person : Members \cup Mentors \cup {NoOne}, method : {"average", "actual"},
   actual : Nat, payout : STRING, origin : Nat]

(* What a request asks for: a form, a file of forms, a copy of what the    *)
(* plan of a form's agreement and year holds.                              *)
Ask ==
  [kind : {"create", "import", "copy", "update", "finance"}, target : Nat, by : STRING,
   rows : Seq(Draft) \ {<<>>}]

ASSUME EntriesAssumption ==
  /\ RateOf \in [Categories -> Rates \cup {NoRate}] /\ NoRate \notin Rates
  /\ Teaching \subseteq Categories /\ Mentored \subseteq Categories
  /\ Teaching \cap Mentored = {}
  /\ NoOne \notin Members \cup Mentors
  /\ \A start \in Starts : /\ start.publications \in [Publishers -> Transaction]
                            /\ start.asks \in [Requests -> Ask]
  /\ DOMAIN Founding \subseteq AgreementIds /\ \A a \in DOMAIN Founding : Founding[a] \in Edits
  /\ DOMAIN Hired \subseteq Members /\ \A m \in DOMAIN Hired : Hired[m] \in Employee
  /\ DOMAIN Enrolled \subseteq Mentors /\ \A m \in DOMAIN Enrolled : Enrolled[m] \in MentorCard

VARIABLES entries,        \* the entries in the order of their creation
          costs,          \* entry -> revisions of its confirmed cost
          payouts,        \* the quarterly payouts of teaching entries
          imported,       \* what has been imported: user, section and file
          asked,          \* request -> what it asks
          others,         \* the directories that are written in this scenario
          req             \* request -> how far it is

vars == <<tariffVars, agreementVars, peopleVars, entries, costs, payouts, imported, asked, others, req>>

worldVars == <<tariffVars, agreementVars, peopleVars, payouts, asked, others>>

NoCard == [r \in Rates |-> 0]
Minc(c) == RateOf[c] = NoRate

(* The formula of a category, with the versions the card has taken.        *)
Formula(d, card) ==
  IF Minc(d.category) THEN d.units ELSE d.units * versions[RateOf[d.category]][card[RateOf[d.category]]].price

(* Actual costs belong to the fact and are positive.                       *)
AmountIsValid(d) ==
  IF d.method = "average" THEN d.actual = 0 ELSE d.actual > 0 /\ d.period = "fact"

Amount(d, card) == IF d.method = "actual" THEN d.actual ELSE Formula(d, card)

(* The form that would write a row as it is.                               *)
Form(e) ==
  [category |-> e.category, partner |-> e.partner, agreement |-> e.agreement, year |-> e.year,
   period |-> e.period, slot |-> e.slot, units |-> e.units, person |-> e.person,
   method |-> e.method, actual |-> e.actual, payout |-> e.payout, origin |-> e.origin]

(* The row a draft becomes: cites is the person of the column, snap is   *)
(* what the payload keeps of the card of that person.                      *)
RowOn(d, cites, snap, card, version) ==
  [category |-> d.category, partner |-> d.partner, agreement |-> d.agreement, year |-> d.year,
   period |-> d.period, slot |-> d.slot, units |-> d.units, person |-> d.person,
   method |-> d.method, actual |-> d.actual, payout |-> d.payout, origin |-> d.origin,
   cites |-> cites, snap |-> snap, formula |-> Formula(d, card), amount |-> Amount(d, card),
   basis |-> IF Minc(d.category) THEN 0 ELSE version]

RowOfLatest(d, cites, snap, card) == RowOn(d, cites, snap, card, Len(versions[RateOf[d.category]]))
Row(d, cites, snap, card) == RowOn(d, cites, snap, card, card[RateOf[d.category]])

HeldByNobody(i) == FALSE

Held(i) == \E q \in Requests : req[q].target = i

EntriesInit ==
  /\ \E start \in Starts :
       /\ asked = start.asks /\ others = start.others
       /\ TariffsInit(start.publications)
  /\ agreements = [a \in DOMAIN Founding |-> Written(Founding[a], Nobody)]
  /\ revisions = [a \in AgreementIds |-> IF a \in DOMAIN Founding THEN <<agreements[a]>> ELSE <<>>]
  /\ authority = TRUE
  /\ staff = Hired /\ mentors = Enrolled /\ writes = 0
  /\ entries = <<>> /\ costs = <<>> /\ payouts = <<>> /\ imported = {}
  /\ req = [q \in Requests |->
       [at |-> "new", rows |-> asked[q].rows, todo |-> {}, snap |-> "", cites |-> NoOne,
        card |-> NoCard, target |-> 0, was |-> 0]]

(* A refusal ends the request; a copy goes on with the next plan.          *)
End(q) ==
  [req[q] EXCEPT !.at = IF asked[q].kind = "copy" THEN "copying" ELSE "done",
                 !.target = 0, !.snap = "", !.cites = NoOne, !.card = NoCard, !.was = 0]

Go(q, r) == req' = [req EXCEPT ![q] = r]

(* validateEntryContext and validateAgreementContext, for all rows.        *)
Check(q) ==
  /\ \/ req[q].at = "new" /\ asked[q].kind \in {"create", "import"}
     \/ req[q].at \in {"item", "locked"}
  /\ LET d == req[q].rows[1]
     IN  Go(q, IF Carries(d.agreement, d.partner, d.category, d.year)
               THEN [req[q] EXCEPT !.at = "checked"] ELSE End(q))
  /\ UNCHANGED <<worldVars, entries, costs, imported>>

(* The same student with the same mentor, in the other entries of a period.*)
Overlapping(d, self) ==
  \E i \in DOMAIN entries \ {self} :
    /\ entries[i].category \in Mentored
    /\ entries[i].person = d.person /\ entries[i].slot = d.slot /\ entries[i].period = d.period

(* An employee's card is copied into the payload of a form, never of an    *)
(* imported row, whose reference is taken as it is; an archived card will  *)
(* do.  A mentor is looked for in the directory of the partner.            *)
PersonIsFit(d, self) ==
  CASE d.category \in Teaching -> d.person # NoOne => d.person \in DOMAIN staff
    [] d.category \in Mentored -> /\ d.person \in DOMAIN mentors
                                  /\ mentors[d.person].partner = d.partner
                                  /\ ~Overlapping(d, self)
    [] OTHER -> TRUE

Resolve(q) ==
  /\ req[q].at = IF asked[q].kind = "import" THEN "priced" ELSE "checked"
  /\ LET d       == req[q].rows[1]
         import  == asked[q].kind = "import"
         teacher == d.category \in Teaching /\ ~import /\ d.person # NoOne
         Fits(x) == (import /\ x.category \in Teaching) \/ PersonIsFit(x, req[q].target)
     IN  Go(q, IF \A i \in DOMAIN req[q].rows : Fits(req[q].rows[i])
               THEN [req[q] EXCEPT
                       !.at = IF import THEN "ready" ELSE "resolved",
                       !.cites = IF teacher \/ d.category \in Mentored THEN d.person ELSE NoOne,
                       !.snap = CASE teacher -> staff[d.person].status
                                  [] d.category \in Mentored -> mentors[d.person].name
                                  [] OTHER -> ""]
               ELSE End(q))
  /\ UNCHANGED <<worldVars, entries, costs, imported>>

(* tariffs.Load: one statement, hence one card; then the amounts.          *)
LoadCard(q) ==
  /\ req[q].at = IF asked[q].kind = "import" THEN "checked" ELSE "resolved"
  /\ LET y == req[q].rows[1].year
     IN  Go(q, IF CardIsWhole(y) /\ \A i \in DOMAIN req[q].rows : AmountIsValid(req[q].rows[i])
               THEN [req[q] EXCEPT
                       !.at = IF asked[q].kind = "import" THEN "priced" ELSE "ready",
                       !.card = [r \in Rates |-> Effective(r, y)]]
               ELSE End(q))
  /\ UNCHANGED <<worldVars, entries, costs, imported>>

(* The keys of the database: the composite reference to the agreement and  *)
(* the partner, the person, one load, one assignment, one copy.            *)
SameLoad(x, y) ==
  /\ x.category \in Teaching /\ y.category \in Teaching /\ x.person # NoOne
  /\ <<x.partner, x.year, x.period, x.person, x.slot>> = <<y.partner, y.year, y.period, y.person, y.slot>>

SameAssignment(x, y) ==
  /\ x.category \in Mentored /\ y.category \in Mentored
  /\ <<x.person, x.slot, x.period>> = <<y.person, y.slot, y.period>>

Clash(x, y) ==
  SameLoad(x, y) \/ SameAssignment(x, y) \/ (x.origin # 0 /\ x.origin = y.origin)

ReferencesHold(x) ==
  /\ x.agreement \in DOMAIN agreements /\ x.partner \in agreements[x.agreement].partners
  /\ x.cites # NoOne => x.cites \in DOMAIN staff \cup DOMAIN mentors

AcceptedByReferences(list) == \A i \in DOMAIN list : ReferencesHold(list[i])

Accepted(list) ==
  /\ \A i \in DOMAIN list : ReferencesHold(list[i])
  /\ \A i, j \in DOMAIN list : i # j => ~Clash(list[i], list[j])

Rows(q) ==
  [i \in DOMAIN req[q].rows |-> Row(req[q].rows[i], req[q].cites, req[q].snap, req[q].card)]

FirstCost(x) == IF Minc(x.category) THEN <<[before |-> 0, now |-> x.amount]>> ELSE <<>>

(* All rows or none; a file is imported once into a section.               *)
Insert(q) ==
  /\ req[q].at = "ready" /\ asked[q].kind \in {"create", "copy", "import"}
  /\ LET new  == Rows(q)
         file == <<asked[q].by, req[q].rows>>
     IN  IF Accepted(entries \o new) /\ (asked[q].kind = "import" => file \notin imported)
         THEN /\ entries' = entries \o new
              /\ costs' = costs \o [i \in DOMAIN new |-> FirstCost(new[i])]
              /\ imported' = IF asked[q].kind = "import" THEN imported \cup {file} ELSE imported
         ELSE UNCHANGED <<entries, costs, imported>>
  /\ Go(q, End(q))
  /\ UNCHANGED worldVars

(* The edit reads and locks the row, and keeps what an edit may not move.  *)
(* The financial role sends the row as it is but for the payout.           *)
Lock(q) ==
  /\ req[q].at = "new" /\ asked[q].kind \in {"update", "finance"}
  /\ ~Held(asked[q].target)
  /\ asked[q].target \in DOMAIN entries
  /\ LET e == entries[asked[q].target]
         d == req[q].rows[1]
     IN  Go(q, IF asked[q].kind = "finance"
               THEN IF e.category \in Teaching
                    THEN [req[q] EXCEPT !.at = "locked", !.target = asked[q].target, !.was = e.amount,
                                        !.rows = <<[Form(e) EXCEPT !.payout = d.payout]>>]
                    ELSE End(q)
               ELSE IF d.partner = e.partner
                    THEN [req[q] EXCEPT !.at = "locked", !.target = asked[q].target, !.was = e.amount,
                            !.rows = <<[d EXCEPT !.category = e.category, !.year = e.year,
                                                 !.period = e.period, !.origin = e.origin]>>]
                    ELSE End(q))
  /\ UNCHANGED <<worldVars, entries, costs, imported>>

(* The column of the employee is kept when the form cites none.            *)
Write(q) ==
  /\ req[q].at = "ready" /\ asked[q].kind \in {"update", "finance"}
  /\ LET t     == req[q].target
         old   == entries[t]
         new   == [Rows(q)[1] EXCEPT !.cites = IF @ = NoOne THEN old.cites ELSE @]
         after == [entries EXCEPT ![t] = new]
     IN  IF Accepted(after)
         THEN /\ entries' = after
              /\ costs' = IF Minc(new.category) /\ new.amount # req[q].was
                          THEN [costs EXCEPT ![t] = Append(@, [before |-> req[q].was, now |-> new.amount])]
                          ELSE costs
         ELSE UNCHANGED <<entries, costs>>
  /\ Go(q, End(q))
  /\ UNCHANGED <<worldVars, imported>>

(* CopyPlanToFact reads the plan of an agreement and a year once, with     *)
(* the mark of what has been copied.                                       *)
ReadPlans(q) ==
  /\ req[q].at = "new" /\ asked[q].kind = "copy"
  /\ LET d == asked[q].rows[1]
         Chosen(i) == /\ entries[i].period = "plan"
                      /\ entries[i].agreement = d.agreement /\ entries[i].year = d.year
         Plan(i) == [id |-> i, row |-> entries[i],
                     copied |-> \E j \in DOMAIN entries : entries[j].origin = i]
     IN  Go(q, [req[q] EXCEPT !.at = "copying",
                  !.todo = {Plan(i) : i \in {j \in DOMAIN entries : Chosen(j)}}])
  /\ UNCHANGED <<worldVars, entries, costs, imported>>

SamePayload(x, y) == <<x.slot, x.units, x.person, x.snap, x.payout>> = <<y.slot, y.units, y.person, y.snap, y.payout>>

(* The next plan of the list: skipped when it has been copied or when the  *)
(* fact has the same record, else created like any fact.                   *)
NextPlan(q) ==
  /\ req[q].at = "copying"
  /\ \E p \in req[q].todo :
       /\ \A other \in req[q].todo : p.id <= other.id
       /\ LET exists == \E i \in DOMAIN entries :
                          /\ entries[i].period = "fact" /\ SamePayload(entries[i], p.row)
                          /\ \A f \in {"agreement", "year", "category", "partner"} : entries[i][f] = p.row[f]
              fact   == [Form(p.row) EXCEPT
                           !.period = "fact", !.method = "average", !.actual = 0, !.origin = p.id]
          IN  Go(q, IF p.copied \/ exists THEN [req[q] EXCEPT !.todo = @ \ {p}]
                    ELSE [req[q] EXCEPT !.todo = @ \ {p}, !.rows = <<fact>>, !.at = "item"])
  /\ UNCHANGED <<worldVars, entries, costs, imported>>

CopyEnds(q) ==
  /\ req[q].at = "copying" /\ req[q].todo = {}
  /\ Go(q, [req[q] EXCEPT !.at = "done"])
  /\ UNCHANGED <<worldVars, entries, costs, imported>>

----------------------------------------------------------------------------
(* Publication, and the writes to agreements and directories, which look   *)
(* at the entries.                                                         *)

Publish == TariffsNext /\ UNCHANGED <<agreementVars, peopleVars, entries, costs, payouts, imported, asked, others, req>>

Pairs(a) ==
  {<<entries[i].partner, entries[i].category>> : i \in {j \in DOMAIN entries : entries[j].agreement = a}}

Cited(m) == \E i \in DOMAIN entries : entries[i].cites = m
MentorIsUsed(m) == \E i \in DOMAIN entries : m \in {entries[i].cites, entries[i].person}

EditAgreement(a) ==
  /\ "agreements" \in others
  /\ \/ \E e \in Edits : CreateAgreement(a, e) \/ UpdateAgreement(a, e, Pairs(a))
     \/ \E c \in Curators \cup {Nobody} : SetCurator(a, c)
  /\ UNCHANGED <<tariffVars, peopleVars, entries, costs, payouts, imported, asked, others, req>>

EditAuthority ==
  /\ "authority" \in others
  /\ ChangeAuthority /\ Counted
  /\ UNCHANGED <<tariffVars, staff, mentors, entries, costs, payouts, imported, asked, others, req>>

EditPeople ==
  /\ "people" \in others
  /\ \/ \E m \in Members :
          \/ \E by \in {"admin", "hr"}, f \in Profiles, s \in Status, ps \in SUBSET Partners :
               CreateStaffMember(m, by, f, s, ps) \/ UpdateStaffMember(m, by, f, s, ps)
          \/ DeleteStaffMember(m, Cited(m))
     \/ \E m \in Mentors :
          \/ \E n \in Names : UpdateMentor(m, n) \/ \E p \in Partners : CreateMentor(m, p, n)
          \/ DeleteMentor(m, MentorIsUsed(m))
  /\ UNCHANGED <<tariffVars, agreementVars, entries, costs, payouts, imported, asked, others, req>>

(* A payout belongs to a teaching entry, one for a quarter; one that is    *)
(* paid names the officer, one that is unpaid again names none.            *)
Payout(i, quarter, paid) ==
  [entry |-> i, quarter |-> quarter, officer |-> IF paid THEN "officer" ELSE ""]

PayoutIsFree(i, quarter, self) ==
  \A k \in DOMAIN payouts \ {self} : <<payouts[k].entry, payouts[k].quarter>> # <<i, quarter>>

EditPayouts ==
  /\ "payouts" \in others /\ Counted
  /\ \E i \in DOMAIN entries, quarter \in {"Q1", "Q2"}, paid \in BOOLEAN :
       /\ entries[i].category \in Teaching
       /\ \/ /\ PayoutIsFree(i, quarter, 0)
             /\ payouts' = Append(payouts, Payout(i, quarter, paid))
          \/ \E k \in DOMAIN payouts :
               /\ PayoutIsFree(i, quarter, k)
               /\ payouts' = [payouts EXCEPT ![k] = Payout(i, quarter, paid)]
  /\ UNCHANGED <<tariffVars, agreementVars, staff, mentors, entries, costs, imported, asked, others, req>>

Serve(q) ==
  \/ Check(q) \/ Resolve(q) \/ LoadCard(q) \/ Insert(q)
  \/ Lock(q) \/ Write(q)
  \/ ReadPlans(q) \/ NextPlan(q) \/ CopyEnds(q)

Next ==
  \/ \E q \in Requests : Serve(q)
  \/ Publish
  \/ \E a \in AgreementIds : EditAgreement(a)
  \/ EditAuthority
  \/ EditPeople
  \/ EditPayouts

Spec == EntriesInit /\ [][Next]_vars

----------------------------------------------------------------------------

RowType ==
  [category : Categories, partner : Partners, agreement : AgreementIds,
   year : Years, period : {"plan", "fact"}, slot : STRING, units : Nat \ {0},
   person : Members \cup Mentors \cup {NoOne}, method : {"average", "actual"},
   actual : Nat, payout : STRING, origin : Nat, cites : Members \cup Mentors \cup {NoOne},
   snap : Status \cup Names \cup {""}, formula : Nat, amount : Nat, basis : Nat]

(* Rows, histories and requests have their types; an active version exists.*)
TypeOK ==
  /\ versions \in [Rates -> Seq(Version)]
  /\ publish \in [Publishers -> Transaction]
  /\ \A a \in DOMAIN agreements : a \in AgreementIds /\ agreements[a] \in Agreement
  /\ authority \in BOOLEAN
  /\ DOMAIN staff \subseteq Members /\ \A m \in DOMAIN staff : staff[m] \in Employee
  /\ DOMAIN mentors \subseteq Mentors /\ \A m \in DOMAIN mentors : mentors[m] \in MentorCard
  /\ entries \in Seq(RowType) /\ Len(costs) = Len(entries)
  /\ \A i \in DOMAIN entries : ReferencesHold(entries[i])
  /\ \A k \in DOMAIN payouts : payouts[k].entry \in DOMAIN entries
  /\ \A q, p \in Requests : req[q].target # 0 /\ req[q].target = req[p].target => q = p

(* The versions of a rate tile the report years: whatever publications run *)
(* together, each year has exactly one version in force, so the card of    *)
(* tariffs.Load is whole and has one reading.                              *)
TariffsTile ==
  \A r \in Rates : \A y \in Years : Cardinality(InForce(r, y)) = 1

(* The amount of an entry can be recomputed from the row itself: from its  *)
(* quantity and the version it cites, or from the actual sum, whatever has *)
(* been published since and however many requests have written the row.    *)
AmountsHaveABasis ==
  \A i \in DOMAIN entries :
    LET e == entries[i]
    IN  /\ e.formula = IF Minc(e.category) THEN e.units
                       ELSE e.units * versions[RateOf[e.category]][e.basis].price
        /\ e.amount = IF e.method = "actual" THEN e.actual ELSE e.formula
        /\ e.method = "actual" => e.period = "fact" /\ e.actual > 0

(* The revisions of a confirmed cost form one chain from the first amount  *)
(* to the one of the row, without a gap and without an idle revision.      *)
CostHistoryIsWhole ==
  \A i \in DOMAIN entries : Minc(entries[i].category) =>
    /\ costs[i] # <<>> /\ costs[i][Len(costs[i])].now = entries[i].amount
    /\ \A k \in 2 .. Len(costs[i]) :
         costs[i][k].before = costs[i][k - 1].now /\ costs[i][k].now # costs[i][k].before

\* Every amount can be accounted for: from a version of a rate, from the units of
\* the Ministry, or from the corrections made to it.
AmountsAreExplained == AmountsHaveABasis /\ CostHistoryIsWhole

(* Nothing is counted twice: one load of an employee, one assignment of a  *)
(* mentor to a student, one fact per plan, also when forms, a copy and a   *)
(* file are served at once.                                                *)
NothingTwice == \A i, j \in DOMAIN entries : i # j => ~Clash(entries[i], entries[j])

(* The revisions of an agreement end with its row, and each differs from   *)
(* the one before, whoever wrote: an edit or the choice of a curator.      *)
AgreementHistory ==
  \A a \in DOMAIN agreements :
    /\ revisions[a] # <<>> /\ revisions[a][Len(revisions[a])] = agreements[a]
    /\ \A k \in 2 .. Len(revisions[a]) : revisions[a][k] # revisions[a][k - 1]

(* What the refusal of an edit says (entries.go): the financial role may   *)
(* change only the fields of the compensation payout.                      *)
FinanceKeepsTheRest ==
  [][\A q \in Requests :
       req[q].at = "ready" /\ asked[q].kind = "finance" =>
         \A i \in DOMAIN entries :
           entries'[i] = entries[i] \/ [entries'[i] EXCEPT !.payout = entries[i].payout] = entries[i]]_vars
=============================================================================
