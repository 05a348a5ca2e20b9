CONSTANTS
  Router = {1, 2, 3}
  Net <- MCNet
  Attached <- MCAttached
  NoNet = noNet
  NEIGHBOUR_TIMEOUT = 3
  LSUINT = 6
  DATABASE_TIMEOUT = 8
  LSU_TTL_INIT = 64
  UINT16 = 65536
  AfterDown = 3
  AfterSplit = 8
  AfterUp = 7
  AfterRestart = 13
  DownAt = {8, 11, 12}
  UpAt = {12}
  RestartAt = {8}
  Horizon <- MCHorizon
SPECIFICATION Spec
INVARIANTS TypeOK LinksExist LatestKept DatabasesAgree GoneForgotten RoutesDeliver
CHECK_DEADLOCK FALSE
