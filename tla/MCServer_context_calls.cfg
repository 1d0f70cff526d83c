SPECIFICATION MCServerSpec
CONSTANTS
  Scenes = {"context"}
  \* the channel
  Messages = {m1}
  Clicks = {c1, c2}
  Turns = {t1}
  Window = 2
  QueueRoom = 1
  MaxAccepted = 4
  MaxChannelFaults = 2
  MaxChannelCrashes = 1
  \* memory
  Runs = {r1, r2}
  Calls = {k1, k2}
  Contents = {short, long}
  LongContents = {long}
  LongTermLimit = 2
  TurnLimit = 1
  ToolLimit = 1
  RecallLimit = 1
  MaxUpdates = 4
  MaxMemoryFaults = 1
  MaxMemoryCrashes = 1
  \* the monitor
  Watched = {w1, w2}
  Fetches = {f1, f2}
  Capacity = 1
  MaxEvents = 3
  MaxMonitorFaults = 1
  \* the context of the model
  UserSizes = {1, 13}
  ResultSizes = {1, 5}
  MaxInput = 12
  ConversationBudget = 12
  SummaryThreshold = 12
  MaxConversation = 6
  SnipHead = 3
  KeepRecent = 2
  ToolResultBudget = 9
  PersistThreshold = 3
  Preview = 1
  ReactiveTail = 2
  MaxCalls = 2
  MaxHistory = 7
  \* what the agent may say
  GroundTools = {"bash", "cron", "web_search"}
  GroundCalls = 2
  JobIds = {j1, j2}
  Jobs = {j1}
  Replies <- MCReplies
  MaxGroundCalls = 4
  Nothing = Nothing
  \* what the agent may call
  Users = {u1}
  SkillFiles <- MCSkillFiles
  ScanLimit = 2
  AgentFiles <- MCAgentFiles
  Servers <- MCServers
  ApprovalMode = "dangerous"
  Wanted <- MCWanted
  ToolCalls = {x1, x2}
  MaxToolsetFaults = 1
  Absent = Absent
  \* what the agent is told
  Intents = {"chat", "strong", "due"}
  SkillTexts = {5000}
  SummaryTexts = {0, 900}
  MemoryTexts = {1200}
  PayloadTexts = {4000}
  EntryText = 1500
  MaxEntries = 4
  MaxBlockCalls = 4
  Unread = Unread
INVARIANT CallsAnswered
CHECK_DEADLOCK FALSE
