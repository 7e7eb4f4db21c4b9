SPECIFICATION Spec
CONSTANTS
  ann = ann
  c1 = c1
  c2 = c2
  a1 = a1
  a2 = a2
  r1 = r1
  p1 = p1
  p2 = p2
  NoContract = NoContract
  NoAmendment = NoAmendment
  Contracts = {c1}
  Amendments = {a1}
  Replacing = {}
  Extending = {}
  Replicas = {r1}
  Callers = {p1, p2}
  MaxKeys = 1
  Owner <- AllAnn
  CreatedAt <- C2IsNewer
PROPERTIES
  CancelledStaysCancelled
CHECK_DEADLOCK FALSE
