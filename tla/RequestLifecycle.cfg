SPECIFICATION Spec
CONSTANTS
  ann = ann
  bob = bob
  r1 = r1
  i1 = i1
  i2 = i2
  w1 = w1
  w2 = w2
  NoMessage = NoMessage
  Users = {ann, bob}
  Requests = {r1}
  Instances = {i1}
  Workers = {w1, w2}
  ReplyStatuses = {"approved", "denied"}
  MaxClock = 2
  MaxCrashes = 1
  At <- OneInstance
  Owner <- AllAnn
  Home <- AllHome
  HandlerOf <- Authz
  Timeout <- NoTime
  Grace <- OneTick
  HasHook <- WithHook
SYMMETRY WorkerSymmetry
INVARIANTS
  TypeOK
  AtMostOneNotification
  OnTimeOrGrace
  AcceptedIsGenuine
  NoEarlyLoss
  ReportedVerdictStands
PROPERTIES
  DecisionIsFinal
  RefinesPromise
