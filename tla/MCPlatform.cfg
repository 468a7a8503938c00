CONSTANTS
  None = None
  r1 = r1
  r2 = r2
  ana = ana
  ben = ben
  m = m
  s = s
  e = e
  w1 = w1
  w2 = w2
  gone = gone
  disk = disk
  free = free
  legacy = legacy
  twin = twin
  custom = custom
  carousel = carousel
  plain = plain
  drama = drama
  comedy = comedy
  CachedWorkers = {w1, w2}
  CachedReaders = {r1, r2}
  CachedEditors = {ben}
  CachedTtl = 1
  CachedLag = 1
  CachedTime = 5
  CachedVersions = 1
  PoolRequests = {r1, r2}
  PoolSize = 2
  PoolWait = 1
  PoolCommand = 0
  PoolAttempts = 2
  PoolCooldown = 2
  PoolPing = 1
  PoolTime = 3
  ForumRequests = {r1, r2}
  ForumPeople <- People3
  ForumComments <- Comments3
  ForumDepth = 1
  ForumValues <- Values3
  ForumKinds <- Kinds3
  ForumEdits <- Edits3
  CuratedLists <- Lists4
  CuratedTypes <- Types
  CuratedCaps <- Caps4
  CuratedLimits <- Limits4
  CuratedGenres <- Genres4
  CuratedTitles <- Titles4
  CuratedRequests <- Requests4
  AlarmConditions = {disk}
  AlarmNeeded <- Needed1
  AlarmErrors = {e}
  AlarmDedup = 2
  AlarmMinute = 1
  AlarmPerMinute = 1
  AlarmThrottle = 1
  AlarmQueue = 1
  AlarmTime = 2
  AlarmReports = 4
  NoticeRequests <- Requests2
  NoticeIntents <- Intents2
  NoticeCallers <- Callers2
  NoticeAlarms <- Alarms2
  NoticeDays <- Days2
  ChecksCodes <- Codes1
  ChecksIntents <- Intents1
  ChecksBuyers = {r1}
  ChecksSweeper = ben
  ChecksUnpaid = 1
  ChecksUnknown = 2
  ChecksPaid = 2
  ChecksQuota = 2
  ChecksBrief = 1
  ChecksLag = 1
  ChecksMax <- Max1
  ChecksWindow = 2
  ChecksRedis <- Redis1
  ChecksTime <- Time1
  ChecksResets = 1
  UploadTitles <- Titles5
  UploadKinds <- Kinds5
  UploadFiles <- Files5
  UploadRequests <- Requests5
SPECIFICATION Spec
SYMMETRY Symmetric
INVARIANTS
  OneLoop
  AlertsArrive
  DatabaseAnswers
  UploadsWhole
  StalenessBounded
  DeletionErases
  NothingBelowHidden
  AverageShown
  RailIsFree
PROPERTIES
  PosterKept
  ReleasedOnTime
  QuotaHeard
  ChangesAreWhole
CHECK_DEADLOCK FALSE
