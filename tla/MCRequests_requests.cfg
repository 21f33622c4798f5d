CONSTANTS
  w1 = w1
  w2 = w2
  Instances = {i1, i2}
  Wallets = {w1, w2}
  h1 = h1
  h2 = h2
  Blocks <- MCBlocks
  TTL = 1
  Slots = {s1}
  Signals = {x1, x2}
  PostKeys = {"p1", "p2", "p3"}
  Amounts = {1}
  Histories <- MCHistories
  MaxMoves = 2
  MaxTime = 1
  Log <- MCLog
  Left <- MCLeft
  Day = 1
  Week = 1
  VelocityWindow = 0
  VelocityThreshold = 2
  MinPosts = 3
  ZMax = 1
  MinEngagement = 80
  CandidatePages = 1
  MaxFeedSize = 3
  MaxListSize = 2
  DefaultListSize = 1
  AskedSizes = {2, 5}
  Spans = {"none", "today"}
  Items <- MCItems
  Ballots <- MCBallots
  DayLength = 2
  MaxClock = 2
  ResultCount = 1
  Replies <- MCReplies
  Parent <- MCParent
  Author <- MCAuthor
  Mine = {1, 3}
  MaxDepth = 2
SPECIFICATION MCSpec
INVARIANTS
  RequestsTypeOK
  GrantsWereChallenged
  ServedByItsHandler
  FailuresAreTold
  
  PagesFollowMoves
  AnswersFit
PROPERTIES
  ServesUntilClosed
  PagesAreFull
  VerdictsAreKept
