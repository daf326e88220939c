-------------------------------- MODULE Forms --------------------------------
(***************************************************************************)
(* The printed forms of Order 270 (regulatory_reports.go, annex4.go,       *)
(* reports.go).  A form is written twice: a builder groups the entries and *)
(* prints the sums; then, for a workbook, a formulizer groups them again,  *)
(* copies each entry to the sheet of calculations with the number of its   *)
(* form row (report_calc.go), and replaces the sums, by the position of    *)
(* the row, with formulas over that sheet.  Both leave groups out, each by *)
(* itself.  Texts, units and volumes of a row are left out.                *)
(***************************************************************************)
EXTENDS Analytics

CONSTANTS
    RankOf,         \* partner, category, program or mentor -> its place in the order of texts
    Internships,    \* categories of Annex 2
    ProgramOf,      \* entry -> the program of its internship
    MentorOf        \* entry -> its mentor, or ""

ASSUME FormsAssumption ==
    /\ DOMAIN ProgramOf = Ids /\ DOMAIN MentorOf = Ids
    /\ \A t, u \in DOMAIN RankOf : RankOf[t] \in Nat /\ (RankOf[t] = RankOf[u] => t = u)
    /\ \A i \in Ids : {CardOf[i].partner, Category(i), ProgramOf[i], MentorOf[i], ""} \subseteq DOMAIN RankOf

-----------------------------------------------------------------------------
(* Groups of entries by a key of two texts, in the order of the keys.      *)

Groups(cs, key) == [k \in {key[c.id] : c \in cs} |-> {c \in cs : key[c.id] = k}]
Precedes(k, l) ==
    \/ RankOf[k[1]] < RankOf[l[1]]
    \/ RankOf[k[1]] = RankOf[l[1]] /\ RankOf[k[2]] < RankOf[l[2]]

ByPartner == [i \in Ids |-> <<CardOf[i].partner, "">>]
ByCategory == [i \in Ids |-> <<CardOf[i].partner, Category(i)>>]
ByProgram == [i \in Ids |-> <<CardOf[i].partner, ProgramOf[i]>>]
ByMentor == [i \in Ids |-> <<CardOf[i].partner, MentorOf[i]>>]

HasFact(g) == TotalOf(g, "fact") # 0
HasSum(g) == HasFact(g) \/ TotalOf(g, "plan") # 0

(* A form: the groups of its entries and the keys of those it prints.      *)
Whole(groups) == [groups |-> groups, shown |-> DOMAIN groups]
WithFact(groups) == [groups |-> groups, shown |-> {k \in DOMAIN groups : HasFact(groups[k])}]
WithSum(groups) == [groups |-> groups, shown |-> {k \in DOMAIN groups : HasSum(groups[k])}]

Nonzero(cs) == {c \in cs : Amount(c) # 0}

Annex1(all) == Whole(Groups(Nonzero(OfPeriod(all, "fact")), ByPartner))
Annex2(all) == Whole(Groups(Nonzero({c \in all : c.category \in Internships}), ByProgram))
Mentors(all) == Whole(Groups({c \in all : c.category \in Internships /\ MentorOf[c.id] # ""}, ByMentor))
Annex5(all) == WithFact(Groups(all, ByPartner))
PlanFact(all) == WithSum(Groups(all, ByCategory))

(* The report for the ministry (Export): a sheet for everybody and one for *)
(* each partner.  Its total is called approved unless a row is still       *)
(* preliminary.                                                            *)
Sheets(all, p) == Whole(Groups(OfPeriod(all, p), ByPartner))
Preliminary(cs) == \E c \in cs : ~Approved(c.id) \/ ~c.eligible

(* Annex 4 takes the plan as it is now, and the fact from the sealed       *)
(* picture alone: what was admitted and complete on the first of May.      *)
SealedFacts(y) ==
    IF snapshots[y] = NoPicture THEN {}
    ELSE LET s == snapshots[y] IN
         {i \in DOMAIN s.entries :
             /\ s.entries[i].eligible
             /\ Readiness(i, s.entries[i].row,
                          [d \in Docs |-> IF d \in DOMAIN s.docs
                                          THEN [at |-> "kept", status |-> s.docs[d]] ELSE NoDoc]) = "green"}

Annex4(all) ==
    LET plan == Groups({c \in OfPeriod(all, "plan") : c.eligible}, ByCategory)
        keys == DOMAIN plan \cup {ByCategory[i] : i \in SealedFacts(Year)}
    IN  Whole([k \in keys |-> IF k \in DOMAIN plan THEN plan[k] ELSE {}])

(* Annex 3 is the statement for a partner without any fact of the year.    *)
AbsenceStatements(all) ==
    {CardOf[i].partner : i \in Ids} \ {c.partner : c \in OfPeriod(all, "fact")}

-----------------------------------------------------------------------------
(* The builders: the printed rows, in order, with their sums.              *)

Sorted(S) ==
    CHOOSE order \in [1..Cardinality(S) -> S] : \A m, n \in DOMAIN order : m < n => Precedes(order[m], order[n])

Printed(form) ==
    LET order == Sorted(form.shown)
    IN  [n \in DOMAIN order |-> [key |-> order[n], plan |-> TotalOf(form.groups[order[n]], "plan"),
                                 fact |-> TotalOf(form.groups[order[n]], "fact")]]

Column(rows, name) == Total(DOMAIN rows, [n \in DOMAIN rows |-> rows[n][name]])

(* The plan and the fact by the projection instead (buildPlanFactProjectionRows). *)
PlanFactProjection(all) ==
    LET sums == [k \in {ByCategory[c.id] : c \in all} |-> Summary({c \in all : ByCategory[c.id] = k})]
    IN  {[key |-> k, plan |-> sums[k].plan, fact |-> sums[k].fact] :
            k \in {l \in DOMAIN sums : sums[l].plan # 0 \/ sums[l].fact # 0}}

(* The formulizers: a running number for each group that is printed and 0  *)
(* for the others; the sheet of calculations; the sums over it.            *)

\* A fault: groups that are not printed are numbered too.
NumbersOfAll(form) ==
    [k \in DOMAIN form.groups |-> Cardinality({l \in DOMAIN form.groups : l = k \/ Precedes(l, k)})]

Numbers(form) ==
    [k \in DOMAIN form.groups |->
        IF k \in form.shown THEN Cardinality({l \in form.shown : l = k \/ Precedes(l, k)}) ELSE 0]

Book(form) ==
    LET number == Numbers(form)
    IN  UNION {{[entry |-> c, row |-> number[k]] : c \in form.groups[k]} : k \in DOMAIN form.groups}

Sum(rows) == Total(rows, [b \in rows |-> Amount(b.entry)])
SumForm(book, n, periods) == Sum({b \in book : b.row = n /\ b.entry.period \in periods})
SumPeriod(book, p) == Sum({b \in book : b.entry.period = p})
AllForms(book) == Sum({b \in book : b.row > 0})

-----------------------------------------------------------------------------
(* Properties.                                                             *)

(* Every formula shows what was printed in its cell: the n-th row of the   *)
(* builder and the n-th row of the formulizer are the same group           *)
(* (regulatory_formulas.go).                                               *)
FormulasFit(form) ==
    LET rows == Printed(form)
        book == Book(form)
    IN  /\ \A n \in DOMAIN rows :
            SumForm(book, n, {"plan"}) = rows[n].plan /\ SumForm(book, n, {"fact"}) = rows[n].fact
        /\ AllForms(book) = Column(rows, "plan") + Column(rows, "fact")

(* The forms add up, row by row and in their totals, among themselves and  *)
(* with the dashboard; a total that is called approved is admitted to the  *)
(* count to the kopeck; and nobody is at once in the list of what was done *)
(* and in the statement that nothing was (regulatory_reports.go,           *)
(* annex4.go, reports.go).                                                 *)
FormsAddUp ==
    LET all == Contributions(Year)
        totals == Dashboard(all, NoSlice).totals
        planFact == Printed(PlanFact(all))
    IN  /\ \A form \in {Annex1(all), Annex2(all), Mentors(all), Annex4(all), Annex5(all), PlanFact(all)} :
            FormulasFit(form)
        /\ Column(Printed(Annex5(all)), "fact") = SumPeriod(Book(Annex5(all)), "fact")
        /\ Column(Printed(Annex1(all)), "fact") = totals.fact
        /\ Column(Printed(Annex5(all)), "fact") = totals.fact
        /\ Column(planFact, "fact") = totals.fact /\ Column(planFact, "plan") = totals.plan
        /\ {planFact[n] : n \in DOMAIN planFact} = PlanFactProjection(all)
        /\ Column(Printed(Annex4(all)), "plan") = Summary(OfPeriod(all, "plan")).eligible
        /\ Column(Printed(Sheets(all, "plan")), "plan") = totals.plan
        /\ Column(Printed(Sheets(all, "fact")), "fact") = totals.fact
        /\ \A p \in {"plan", "fact"} : LET cs == OfPeriod(all, p) IN
            ~Preliminary(cs) => Summary(cs).eligible = totals[p]
        /\ {<<p, "">> : p \in AbsenceStatements(all)} \cap Annex1(all).shown = {}

\* One answer of the dashboard, gathered by five functions, tells the same sums,
\* and so do the forms.
SumsAgree == SlicesAddUp /\ GuaranteedIsCounted /\ FormsAddUp
=============================================================================
