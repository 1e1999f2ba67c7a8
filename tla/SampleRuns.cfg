\* What happens to a sample, one part per behaviour.
SPECIFICATION SampleSpec
CONSTANTS
  Profiles <- AllProfiles
  MaxTaps = 2
  MaxFails = 2
  Prompts = 2
  Attempts = 2
  MaxLaunch = 2
  Tasks = 2
  AgentAttempts = 1
  MaxSteps = 3
  StableSec = 2
  Deadline = 6
  LastPage = 3
  Threshold = 3
  Slack = 1
  Lengths = {10, 45}
  Gaps = {20, 120, 200, 2600}
  MaxTexts = 4
  Tall = 3200
  Asks = {0, 5, 90}
  MaxRetryAfter = 30
  MaxWarmups = 2
  MaxQueue = 3
  MaxCleanUp = 2
  MaxNotice = 8
  MaxCallback = 22
  Clients = {"tree", "shot", "html", "entry", "button", "page", "alert", "webhook", "check", "agent", "api"}
  Calls = {s1, s2}
  Fresh = {s1}
  Viewers = {v1, v2}
  Inputs = {i1, i2}
  Bodies <- SomeBodies
INVARIANTS
  TurnIsOwn
  ReplyIsGenuine
  SendsAreTold
  SessionIsOwn
  ScreenIsTidy
  LeavesOnlyDelayed
PROPERTIES
  ReadWhenStill
  AgentSees
\* Every part ends with its sample.
CHECK_DEADLOCK FALSE
