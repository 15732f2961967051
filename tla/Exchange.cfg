CONSTANTS
  None = None
  Sentinel = Sentinel
  Frames <- MCFrames
  MaxFrames = 3
  MaxCandidates = 2
  MaxToolCalls = 2
  Tools <- MCTools
  Names <- MCNames
  Rules <- MCRules
  Settings <- MCSettings
  Offers <- MCOffers
  SignatureLimit <- MCLimit
  ResponseLimit <- MCLimit
  MaxReadBack = 2
  MaxOthers = 2
SPECIFICATION ExchangeSpec
INVARIANTS
  EventsAreInOrder
  TextIsKept
  CallsAreOnce
  SignaturesAreKept
  EndIsHonest
  HistoryIsKept
  CallsAreAuthentic
  ThinkingIsAsAsked
  CachesAreExact
