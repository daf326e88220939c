SPECIFICATION Spec
CONSTANTS
    o1 = o1  o2 = o2  p1 = p1  p2 = p2
    u1 = u1  u2 = u2  u3 = u3  u4 = u4  i1 = i1  i2 = i2
    Orgs = {o1, o2}
    Partners = {p1}
    Units = {u1, u2, u3, u4}
    Movers = {"m1", "m2"}
    Groups = {"g1"}
    Titles = {"autumn", "spring"}
    Inns = {i1, i2}
    Ogrns = {"a", "b"}
    Deals = {"d1", "d2"}
    Writers = {"w1", "w2"}
    Facts = {"f1", "f2"}
    MaxLevels = 3
    MaxWrites = 4
    Starts <- MCStarts
    Forms <- MCForms
    DirectoryFiles <- MCDirectoryFiles
    CompanyFiles <- MCCompanyFiles
INVARIANTS
    TypeOK
    VerifiedIsAsConfirmed
    PartnersFollowTheirRecord
    HierarchyIsExplained
    OneGroupAtATime
CHECK_DEADLOCK FALSE
