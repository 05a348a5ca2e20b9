CONSTANTS
  Box = {"n1", "n2"}
  Public = "public"
  IP = {"a", "b", "w", "ext1", "ext2"}
  ExtIP <- MCExtIP
  HostIP <- MCHostIP
  Rules <- MCRules
  Call <- MCUnmatchedCalls
  Listening <- MCListening
  LastPort = 3
  ReportPorts <- MCReportPorts
SPECIFICATION FairSpec
PROPERTIES FailuresReported
CHECK_DEADLOCK FALSE
