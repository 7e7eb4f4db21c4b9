SPECIFICATION FairSpec
CONSTANTS
  ann = ann
  bob = bob
  r1 = r1
  i1 = i1
  i2 = i2
  w1 = w1
  w2 = w2
  NoMessage = NoMessage
  Users = {ann}
  Requests = {r1}
  Instances = {i1, i2}
  Workers = {w1, w2}
  ReplyStatuses = {"approved", "maybe"}
  MaxClock = 2
  MaxCrashes = 1
  At <- TwoInstances
  Owner <- AllAnn
  Home <- AllHome
  HandlerOf <- Secrets
  Timeout <- NoTime
  Grace <- OneTick
  HasHook <- WithHook
PROPERTIES
  HookIsCalled
  CallbackIsRun
