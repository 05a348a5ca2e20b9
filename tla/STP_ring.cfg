CONSTANTS
  Switch = {1, 2, 3, 4}
  Peer <- MCRing
  Dist <- MCDist
  NoPort = noPort
  NoConfig = noConfig
  MaxHello <- NotTwo
SPECIFICATION FairSpec
INVARIANTS TypeOK NeverTooClose OnlyRootsSayHello ViewFollowsRootPort
PROPERTIES BeliefsImprove TreeForms
CHECK_DEADLOCK FALSE
