SPECIFICATION MCSpec
CONSTANTS
  None = None
  Browsers = {"b1", "b2"}  MaxRequests = 4  MaxTime = 3  Opened = 2
  LoginLimit = 1  MutationLimit = 1  FlowLife = 1  KeyLife = 1  IdleLife = 2
  SessionLife = 3  KeptWindows = 2
  Space <- MCSpace  Starts <- MCStarts  Budgets <- MCBudgets  Repeats = 1
  Sources = {"sA", "sB"}  MaxRuns = 3  MaxStarts = 2  Commands = 2  MaxEdits = 2
  StageOrder <- MCOrder  Scripted = {"skew"}  Hosts = {"h1", "h2"}  MaxCampaigns = 3  MaxMoves = 2
  MaxBroken = 2
  MaxProbes = 5  MaxNoise = 1
  StreamEvents <- MCStreamEvents  MaxEvents = 2  MaxFaults = 1  Width = 2
  LogEvents <- MCLogEvents  Catalogue = {1, 2}  MaxLog = 3  Wanted = 3  Interval = 2  MaxClock = 4  Buckets = 2
INVARIANTS AccessControlled AgentHonest EvidenceIsCurrent ResultsKept DrillsHonest
  AggregatesAgree
PROPERTIES OthersSpared
CHECK_DEADLOCK FALSE
