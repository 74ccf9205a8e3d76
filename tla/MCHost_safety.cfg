SPECIFICATION HostSpec
CONSTANTS
  N = 1
  Burst = "serialize"
  Overlap = "queue"
  HasTarget = TRUE
  MaxAttempts = 1
  MaxDispatch = 3
  MaxSession = 2
  MaxHands = 1
  MaxSuspend = 1
  MaxCrash = 1
  Origin = {1, 2}
  MaxDepth = 2
  Ttl = {1}
  MaxHuman = 2
  MaxRows = 4
  MaxTime = 2
  MaxEpoch = 1
  MaxCreated = 2
  Request = {1, 2}
  MaxRotations = 1
  MaxDeaths = 1
  MaxFailures = 2
  MaxFaults = 2
  MaxRestarts = 1
  MaxFrames = 1
  Req = {1, 2}
  MaxTurn = 2
  GiveUp = 2
  MaxStreams = 3
  MaxOutput = 1
  ContextThreshold = 2
  ProtocolThreshold = 3
  BusyThreshold = 2
  PriorThreshold = 2
  MaxRolls = 2
  MaxCount = 3
  MaxResume = 2
  Actor = {1, 2, 3}
  Cap = 1
  MaxMsg = 1
  MaxNew = 1
  MaxPoolFaults = 1
  MaxBox = 2
  Caller = {1, 2, 3, 4}
  Parked = {4}
  Slots = 2
  MaxAttach = 2
  MaxMessages = 3
  MaxNow = 2
  MaxEpochs = 2
  Relevance = 1
  Retention = 1
  Limit = 1
  Late = 0
  MayEmpty = FALSE
  MaxDiscordMsg = 4
  DiscordQuiet = {2}
  Oversize = {1}
  PageLimit = 2
  MaxPages = 2
  MaxDiscordAttempts = 2
  Uniform = 2
  MaxDiscordCrash = 1
  MaxDiscordFaults = 2
  MaxSlackMsg = 4
  Root = 1
  Engaging = {2}
  Poison = {3}
  MaxSlackAttempts = 2
  Slice = 1
  MaxSlackCrash = 1
  MaxSlackFaults = 1
INVARIANTS AnsweredOnce PromptBudget NothingSkipped   RelayHonest CutOffProved TalkEnds LedgerKept 
PROPERTIES LeaseRespected DeadNeverArms 
CHECK_DEADLOCK FALSE
