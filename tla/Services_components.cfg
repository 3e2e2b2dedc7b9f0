SPECIFICATION ServicesSpec
CHECK_DEADLOCK FALSE
CONSTANTS
  \* photo intake
  Photos = {1, 2}
  Users = {rob, ann}
  Bypass = {rob}
  Rob = rob
  NoRow = NoRow
  TotalCap = 3
  MonthCap = 4
  UserCap = 2
  VisionCap = 1
  MaxCost = 1
  MaxDays = 1
  MaxFaults = 1
  \* chat
  Chats = {1, 2, 3, 4}
  Inside = {4}
  Given = {v}
  NoThread = NoThread
  NoSession = NoSession
  Limits <- ChatLimits
  Stale = 1
  MaxRestarts = 1
  MaxNow = 5
  \* voice
  MaxExchanges = 2
  MaxSentences = 2
  \* keys
  Calls = {1, 2, 3}
  MaxGen = 3
  NoKeys = NoKeys
  \* mails
  Mails = {1, 2, 3}
  Top = 2
  MaxPending = 2
  MailFaults = 1
  \* usage
  Sweeps = {1, 2}
  MaxPeriods = 1
  \* memory
  Docs = {d1, d2}
  Seeds = {d1}
  Proposals = {q1}
  Deciders = {a1, a2}
  NoDoc = NoDoc
  MemoryFaults = 1
  \* registry
  Agents = {RA}
  Declared = 2
  Tries = 2
  Lives = 2
  BusStops = 1
  \* workbench
  BE = BE
  Frontend = FE
  Engineers = {FE, BE}
  Drafts = {1, 2}
  NoDraft = 0
  Author <- DraftAuthor
  Paths = {html, css}
  \* scheduler
  Jobs = {j1, j2}
  Defaults = {j1}
  MaxStarts = 3
  MaxAsks = 3
  \* live feed
  Tabs = {t1, t2}
  Links = {1, 2, 3}
  NoLink = NoLink
  Writer = Writer
  Pushes = {u1, u2}
  FeedFaults = 1
INVARIANTS
  ServicesTypeOK
  OvershootBounded
  RememberedIsKept
  
  RateHolds
  NewThreadsAreNew
  SpokenInOrder
  StoppedStaysSilent
  NewKeyAccepted
  UrgentIsSurfaced
  AlertedOnce
  RecordIsTrue
  CapabilitiesWhole
  ReportsAreTrue
  LiveIsFed
