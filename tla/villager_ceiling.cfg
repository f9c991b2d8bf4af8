CONSTANTS
  Interval = 4
  Cooldown = 2
  Imminent = 1
  Window = 8
  MaxReactive = 2
  iron = iron
  coal = coal
  idle = idle
  Intent = {iron, coal, idle}
  ActionOf <- MCActionOf
  Idle = idle
  QueueCap = 2
  PerceptsMax = 1
  AbandonAfter = 2
  StreakTTL = 2
  MaxRefusals = 2
  MaxUncommitted = 1
  v1 = v1
  v2 = v2
  v3 = v3
  Caller = {v1, v2, v3}
  Budget = 3
  MaxTokens = 2
  MaxFlying = 2
  MaxDays = 2
  MaxSlips = 1
  Election = {1, 2}
  ansel = ansel
  mara = mara
  nobody = nobody
  Citizen = {ansel, mara}
  Nobody = nobody
  MaxNews = 3
  MaxReread = 1
  job = job
  rest = rest
  Pass = {job, rest}
  Job = job
  Threshold = 1
  RecentLimit = 1
  HourlyCap = 2
  MaxInsights = 1
  MaxMemories = 4
  t1 = t1
  t2 = t2
  high = high
  low = low
  tree = tree
  camp = camp
  ledge = ledge
  nospot = nospot
  noblock = noblock
  notrip = notrip
  other = other
  h1 = h1
  h2 = h2
  cow = cow
  nohunt = nohunt
  noprey = noprey
  logs = logs
  planks = planks
  punch = punch
  axe = axe
  s1 = s1
  s2 = s2
  s3 = s3
  noone = noone
  Trip = {t1, t2}
  Block = {high, low}
  ClusterOf <- MCClusterOf
  Spot = {camp, ledge}
  Below <- MCBelow
  NoSpot = nospot
  InReach <- MCInReach
  Rank <- MCRank
  TripBlocks = 2
  ScanCap = 2
  MarkLife = 1
  NoBlock = noblock
  NoTrip = notrip
  OtherVerb = other
  Hunt = {h1, h2}
  Prey = {cow}
  AvoidLife = 2
  MaxMeat = 1
  NoHunt = nohunt
  NoPrey = noprey
  Packs <- MCPacks
  MaxIron = 2
  Body = {ansel, mara}
  Goods = {logs, planks}
  MaxAsk = 2
  PackRoom = 3
  ChestRoom = 3
  Stock = 2
  Skill = {punch, axe}
  GoalPath = {axe}
  WindowSize = 2
  MaxRecords = 4
  GateRate = 60
  Session = {s1, s2, s3}
  NoOne = noone
  Species = 2
  MaxWant = 2
  PoolMax = 2
  RoomFor = 2
  Scenes = {"wallet"}
SPECIFICATION Spec
INVARIANT
  HardCeiling
CHECK_DEADLOCK FALSE
