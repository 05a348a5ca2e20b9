CONSTANTS
  Box = {"n1", "n2"}
  Public = "public"
  IP = {"a", "b", "w", "ext1", "ext2"}
  ExtIP <- MCExtIP
  HostIP <- MCHostIP
  Rules <- MCRules
  Call <- MCCalls
  Listening <- MCListening
  LastPort = 3
  ReportPorts <- MCReportPorts
SPECIFICATION FairSpec
INVARIANTS TypeOK AnswersComeBack CallersApart OneFlowPerAddress RefusesOnlyUnmatched
PROPERTIES CallsAnswered
CHECK_DEADLOCK FALSE
