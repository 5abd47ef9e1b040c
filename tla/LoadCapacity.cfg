SPECIFICATION LoadSpec
CONSTANTS
  MaxRank = 2
  Jobs <- AllJobs
  MaxBranches = 2
  NoAgency = NoAgency
INVARIANT WithinCapacity
CHECK_DEADLOCK FALSE
