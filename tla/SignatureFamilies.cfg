CONSTANTS
  None = None
  Sentinel = Sentinel
  Frames <- MCFrames
  MaxFrames = 3
  MaxCandidates = 2
  MaxToolCalls = 2
  Tools <- MCTools
  Names <- MCNames
  Rules <- CrossingRules
  Settings <- FewSettings
  Offers <- MCOffers
  SignatureLimit <- MCLimit
  ResponseLimit <- MCLimit
  MaxReadBack = 2
  MaxOthers = 0
SPECIFICATION ExchangeSpec
INVARIANTS
  SignaturesStayInFamily
