SPECIFICATION LoadSpec
CONSTANTS
  MaxRank = 2
  Jobs <- AllJobs
  MaxBranches = 2
  NoAgency = NoAgency
INVARIANTS LoadIsSound LoadedFromTheDoor
PROPERTY NeverWorseThanTheSeed
CHECK_DEADLOCK FALSE
