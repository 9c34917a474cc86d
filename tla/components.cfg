CONSTANTS
  Components <- All
  PoolThreads = {t, u}
  Callers = {owner, other}
  Nobody = nobody
  MaxPosts = 1
  Ports = {1, 2}
  BusyPorts = {1}
  kMaxRangeAboveDefaultPort = 1
  MaxStops = 1
  MaxIncoming = 2
  MaxErrors = 1
  Connections = {c, d}
  NoConnection = none
  kAttempts = 2
  MaxRows = 3
  Manifests <- MCManifests
  MaxUpdates = 4
  Threads = {t, u}
  PageSize = 2
  MemorySize = 6
  MaxSize = 3
  Immutables = {i, j}
  Mutables = {m}
  Values = {a, b}
  CacheKeys = {"x", "y", "z"}
  CacheValues = {a}
  CacheLimits <- MCCacheLimits
  MaxTime = 2
  MaxUses = 5
  GroupNames = {"x", "y", "z", "x y"}
  FirstWord <- MCFirstWord
  NoWord = "no word"
  Totals = {2, 3}
  MaxKeys = 1
  MaxSharings = 1
  ListPaths = {"p"}
  ListEntries <- MCListEntries
  Unreadable = {"x"}
  MaxEndpoints = 2
  ItemNames = {"a", "b", ""}
  Throwing = {"b"}
  MaxItems = 4
  MaxChoices = 3
  Ints <- MCInts
  Strings = {"key", "hash", "text"}
  minOf <- MCMinOf
  maxOf <- MCMaxOf
  MaxString = 3
  KeyOwners = {"x", "y"}
  Levels = {9, 10}
  Sharings <- MCSharings
  MaxMade = 9
SPECIFICATION FairSpec
CHECK_DEADLOCK FALSE
INVARIANTS
  LogsAgree
  ProfilesArePrinted
  QuietAfterStop
  ListenerStaysAlive
  CommittedOrNothing
  BadGroupsAreSeparate
  GivenUpOnlyIfSaved
  GroupHoldsItsKey
  ErrorsTravel
  CutsDoNotMatter
  SecretsAreLocked
  WhatIsShownIsChosen
  StringsAreKeys
  DecodedIsWhatWasEncoded
  
PROPERTIES
  EvictsByUse
  EditsKeepTheText
  NothingIsForgotten
  UpdatesAreOneVersion
  SpoiltOnlyByAnError
