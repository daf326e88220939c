----------------------------- MODULE MCCatalogues -----------------------------
EXTENDS PartnerStructure

CONSTANTS o1, o2, p1, p2, u1, u2, u3, u4, i1, i2

OneCompany == [i \in Inns |-> IF i = i1 THEN [ogrn |-> "a", status |-> "active", date |-> 1]
                                        ELSE NoCompany]
TwoCompanies == [i \in Inns |-> [ogrn |-> IF i = i1 THEN "a" ELSE "b", status |-> "active", date |-> 1]]
College == [NoOrg EXCEPT !.kind = "kolledj", !.facts = "f1", !.licence = TRUE,
                         !.institution = TRUE, !.source = "registry", !.fresh = TRUE,
                         !.status = "verified"]
University == [NoOrg EXCEPT !.kind = "vuz", !.licence = TRUE, !.institution = TRUE,
                            !.source = "ministry", !.listed = TRUE]
NobodyJoined == [p \in Partners |-> NoPartner]
CollegeJoined == [p \in Partners |-> IF p = p1 THEN [org |-> o1, kind |-> "kolledj"] ELSE NoPartner]
NoUnits == [u \in Units |-> NoUnit]
Unit(parent) == [partner |-> p1, parent |-> parent]

Start(d, p, u, who, n) ==
    [companies |-> OneCompany, directory |-> d, partners |-> p, units |-> u,
     busy |-> who, writes |-> n]
Only(d) == [o \in Orgs |-> IF o = o1 THEN d ELSE NoOrg]

MCStarts ==
    {Start(Only(College), NobodyJoined, NoUnits, {"registrar", "preparer"}, 1),
     [Start(Only(College), NobodyJoined, NoUnits, {"preparer", "administration"}, 0)
        EXCEPT !.companies = TwoCompanies],
     Start(Only(University), NobodyJoined, NoUnits, {"reviewer", "search", "staff"}, 0),
     Start(Only(University), NobodyJoined, NoUnits, {"reviewer", "collector"}, 0),
     Start(Only(University), NobodyJoined, NoUnits, {"moderator", "reviewer", "sync"}, 1),
     Start(Only(College), NobodyJoined, NoUnits, {"reviewer", "staff", "sync"}, 0),
     Start(Only(College), CollegeJoined, NoUnits, {"mover"}, 0),
     Start(Only(College), CollegeJoined, [NoUnits EXCEPT ![u1] = Unit("root"), ![u2] = Unit(u1)],
           {"mover", "dean"}, 1),
     Start(Only([College EXCEPT !.codes = "match", !.checked = "before"]), CollegeJoined,
           NoUnits, {"month", "collector", "reviewer"}, 1)}

F(kind, facts, codes, confirm) ==
    [kind |-> kind, facts |-> facts, licence |-> TRUE, institution |-> TRUE,
     source |-> "ministry", fresh |-> TRUE, codes |-> codes, confirm |-> confirm]
MCForms ==
    {F("vuz", "f1", "match", TRUE), F("vuz", "none", "match", FALSE), F("vuz", "f1", "other", FALSE),
     F("kolledj", "f2", "keep", TRUE), F("school", "f2", "keep", FALSE),
     [F("kolledj", "f1", "none", FALSE) EXCEPT !.licence = FALSE, !.source = "none"]}

Row(kind, codes, alive) ==
    [kind |-> kind, facts |-> "f2", licence |-> TRUE, institution |-> alive, codes |-> codes]
MCDirectoryFiles ==
    {[o \in {o1} |-> Row("vuz", "other", TRUE)], [o \in {o1} |-> Row("school", "keep", TRUE)],
     [o \in {o1, o2} |-> Row("kolledj", "keep", o = o1)]}

C(ogrn, status, date) == [ogrn |-> ogrn, status |-> status, date |-> date]
MCCompanyFiles ==
    {[i \in {i1} |-> C("a", "suspended", 2)], [i \in {i1} |-> C("b", "active", 3)],
     [i \in {i1, i2} |-> IF i = i1 THEN C("a", "active", 1) ELSE C("b", "revoked", 2)]}
==============================================================================
