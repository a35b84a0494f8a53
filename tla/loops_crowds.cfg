SPECIFICATION FairSpec
CONSTANTS
  h1 = h1
  h2 = h2
  loop = loop
  button = button
  alice = alice
  bob = bob
  pollA = pollA
  pollB = pollB
  peekA = peekA
  Crowds <- TheCrowds
  Datagrams <- TheDatagrams
  MaxRestarts = 1
  Hosts = {h1, h2}
  BUFFER_HARD_CAP = 3
  CHUNK = 2
  ALERTED_MAX = 1
  COOLDOWN = 3
  MAX_SEVERITY = 4
  MaxSend = 1
  MaxReceived = 4
  Addresses = {"a", "b"}
  Nets = {{"a", "b"}}
  MAX_HOSTS = 2
  Sweepers = {loop, button}
  Loop = loop
  Deciders = {alice}
  Polls = {pollA, pollB, peekA}
  Peeks = {peekA}
  WideWrap = 4
  NarrowWrap = 2
  MaxOctets = 1
  Nothing = Nothing
  Checks = {loop, button}
  LoopChecks = {loop}
  Outcomes = {"ok", "timeout", "error"}
  Unknown = Unknown
  Tables <- TheTables
  Agents <- TheAgents
  Statuses = {"online", "offline"}
  Writers = {loop, button}
  Browsers = {alice, bob}
  Silence = Silence
  MaxInbox = 1
  Links = {h1, h2}
  NoLink = NoLink
  LOSS_COOLDOWN = 3
  CHECK_INTERVAL = 1
  MaxCycle = 2
  WATCHDOG_INTERVAL = 2
  WATCHDOG_FAILURES = 3
  HTTP_TIMEOUT = 1
  HEALTHY_LIMIT = 2
  MaxAlert = 2
INVARIANTS
  TypeOK
  Accounted
  ProposalsExplained
  StatusIsNewest
  InventoryComplete
  AlarmInTime
  DegradedInTime
PROPERTIES
  AlarmsPaced
  IgnoredStays
  RatesTrue
  DropsReported
  AliveProposed
  NewestShown
CHECK_DEADLOCK FALSE
