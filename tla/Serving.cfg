SPECIFICATION MCSpec
CONSTANTS
  None = None
  Requests = {"r1", "r2", "r3"}  Limit = 2  BodyLimit = 1  Threads = 1  Pool = 1
  Resolved = 2  QueryTimeout = 3  MaxQueries = 3  Parts = 2
  Clients = {"c1", "c2", "c3"}  ServerSlots = 2  Backlog = 2  MaxFailures = 1
  Colours = {"blue", "green"}  ServingColours = {"blue"}  Bundles = {"b1", "b2"}
  Addresses = {"x1", "x2"}  MaxFaults = 1
  Connections = {"c1", "c2", "c3"}  Workers = {"w1", "w2"}  QueueLimit = 1  MaxRequests = 1
  Shards = {"s1", "s2", "s3"}  MaxRuns = 3
  Users = {0, 1, 2, 3, 4, 5}  Empty = 5  Hash <- MCHash  MinCapacity = 4  MaxCalls = 5
INVARIANTS RequestsAccounted RetrievalHonest ConnectionsExact DeploymentGrounded
  EachShardOnce MapFaithful
PROPERTIES EverythingEnds
CHECK_DEADLOCK FALSE
