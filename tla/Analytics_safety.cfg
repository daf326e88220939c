CONSTANTS
  Ids = {"a", "b", "c", "d"}
  CardOf <- MCCardOf
  Amounts = {0, 2}
  Docs = {"contract", "letter"}
  EntryOf <- MCEntryOf
  TypeOf <- MCTypeOf
  Details = {0, 1}
  SignedDetails = {1}
  Matrix <- MCMatrix
  TopCategory = "top_it"
  Items = {"k"}
  Reviewers = {"r"}
  Starts <- MCStarts
  MaxWrites = 2
  Year = 1
  Workers = {"v", "w"}
  Sealers = {"p", "q"}
  Bases = {33, 90}
  Slices <- MCSlices
  RankOf <- MCRankOf
  Internships = {"internship"}
  ProgramOf <- MCProgramOf
  MentorOf <- MCMentorOf
SPECIFICATION Spec
INVARIANTS
  TypeOK
  SumsAgree
  VerifiedIsDescribed
PROPERTIES
  ReportFollowsItsBasis
  CacheCatchesUp
CHECK_DEADLOCK FALSE
