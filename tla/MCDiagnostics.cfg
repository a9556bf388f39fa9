\* The three commands, one at a time.
CONSTANTS
  Host = {"h1", "h2", "long"}
  LongHost = {"long"}
  BadHost = "bad"
  HostLists <- MCHostLists
  MaxRetries = 1
  ProbeTimeout = 1
  ListenTimeout = 1
  ValidateTimeout = 1
  Cookie = {"c1"}
  Absent = "absent"
  Empty = "empty"
  PipeSize = 1
  MaxLines = 3
SPECIFICATION FairSpec
INVARIANTS TestTellsTruth TestBounded DoctorTellsTruth NoProgramLeft LogsComplete
PROPERTIES CommandEnds
