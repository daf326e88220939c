CONSTANTS
  Rates = {"hour"}
  Years = {1, 2, 3}
  Prices = {1, 2}
  Seed = 1
  Publishers = {"p", "q"}
  AgreementIds = {"a", "b"}
  Partners = {"u", "s"}
  KindOf <- MCKindOf
  Categories = {"teachers", "ood_rpd", "internship", "minc", "clubs"}
  Audiences <- MCAudiences
  Statuses = {"active", "draft"}
  Terms <- MCTerms
  Curators = {k}
  Nobody = nobody
  Edits <- MCEdits
  MaxRevisions = 2
  Members = {"m"}
  Mentors = {"n"}
  Names = {"x", "y"}
  Profiles = {"junior", "senior"}
  Qualified = {"senior"}
  MaxWrites = 2
  Requests = {1, 2, 3}
  Starts <- MCStarts
  RateOf <- MCRateOf
  NoRate = "none"
  Teaching = {"teachers"}
  Mentored = {"internship"}
  NoOne = "o"
  Founding <- MCFounding
  Hired <- MCHired
  Enrolled <- MCEnrolled
SPECIFICATION Spec
INVARIANTS
  TypeOK
  TariffsTile
  AmountsAreExplained
  NothingTwice
  AgreementHistory
CHECK_DEADLOCK FALSE
