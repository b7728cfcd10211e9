SPECIFICATION HostSpec
CONSTANTS
  StoreCap = 2
  MaxItems = 3
  Workers = {u1, u2}
  FactKeys = {fk1, fk2}
  FactValues = {fv1}
  NoFact = NoFact
  Free = Free
  MaxPurges = 2
  Matters = {y1, y2}
  Severities = {"low", "urgent"}
  FeedTurns = {h1}
  FeedRounds = {r1, r2}
  Situations = {low}
  Calm = Calm
  SlaHours = 1
  BucketHours = 2
  RepeatHours = 2
  MaxNamed = 1
  MaxQuiet = 2
  A2ATaskIds = {x1, x2}
  MaxTasks = 1
  MaxTurns = 2
  Turns = {t1, t2}
  Nothing = Nothing
  PoolTickets = {p1, p2}
  Own = Own
  PoolCalls = {d1, d2}
  MaxClients = 3
  ApiCalls = {e1, e2}
  MaxExpiries = 2
  MaxRetries = 1
  Pieces = {n1}
  Arrivals = {1}
  MaxRestock = 1
  MaxOnHand = 2
  MaxActions = 2
  Approvals = {j1, j2}
  NoAction = NoAction
  LogTurns = {k1, k2}
  Chats = {ch1}
  Console = Console
  NoTrace = NoTrace
  LogCap = 3
  EnforceEvery = 2
  MaxActs = 5
  MaxStops = 1
  Addresses = {n2}
  Talkers = {z1, z2, z3}
  PerMinute = 2
  Minute = 2
  PerDay = 2
  GlobalPerDay = 3
  MaxLives = 2
  Customers = {g1, g2}
  MaxOpen = 2
  TaskCap = 2
  MaxErrands = 3
  MaxHalts = 1
INVARIANTS
  HostTypeOK
   WorkingIsReal
   ForgottenStays
  ClientsSound 
CHECK_DEADLOCK FALSE
