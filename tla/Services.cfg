SPECIFICATION MCSpec
CONSTANTS
  Components = {"payments", "notifications", "dispatcher", "startup", "limiter",
                "routing", "api"}
  Kinds = {"memory", "file", "kms"}
  Payables = {"p1", "p2"}
  Users = {"ann", "bob"}
  Payer <- AnnPays
  Price <- PriceTwo
  Refunds = {1}
  Old = {"p2"}
  Settlers = {"c1", "c2"}
  Lifetime = 0
  MaxHistory = 1
  MaxReturned = 3
  MaxTime = 1
  Readers = {"ann", "bob"}
  Notes = {"n1", "n2", "n3"}
  Addressee <- AllToAnn
  MayExpire = {"n1"}
  MaxSent = 1
  Events = {"e1", "e2"}
  Deliveries = {"d1", "d2", "d3"}
  EventOf <- TwoOfOne
  Senders = {"w1"}
  QueueSize = 1
  MaxRetries = 2
  MaxKept = 1
  MaxIdentities = 3
  MaxRuns = 4
  Callers = {"r1", "r2"}
  Buckets = {"b1", "b2"}
  Token = 2
  Burst = 4
  Stale = 4
  MaxTick = 7
  Nodes = {"i1", "i2"}
  Members = {"ann", "bob"}
  Letters = {"reply", "ping", "noise"}
  Sender <- ReplyOfAnn
  TypeTokens <- Replies
  Form <- OneNoise
  Followed <- FollowAnn
  Registered <- TwoTypes
  Requests = {"ask", "cancel", "pay"}
  Clients = {"ann"}
  Client <- AnnAsked
  RouteOf <- Routes
  Wired = {"auth", "engine", "negotiator"}
  Development = FALSE
  ApiKeys = {"k"}
  MaxChanges = 2
INVARIANTS
  TypeOK
  NoticesAreTrue
  HistoryKeepsYoungest
  OutcomeIsEarned
  StopIsQuiet
  IdentityIsKept
  GrantsAreBounded
  StatusTellsEffect
PROPERTIES
  AcknowledgementStands
  MoneyIsDue
  PaymentsPromise
  EveryDeliveryEnds
  ProcessEnds
CHECK_DEADLOCK FALSE
