\* Two tries on a feed with a fallback, three trades, two messages.
CONSTANTS
  MaxMessages = 2
  Attempts = 2
  SdkResends = 1
  CryptoFeed = TRUE
  MaxTrades = 3
SPECIFICATION FairSpec
INVARIANTS
  CaptureIsGapless
  StreamInMarketOrder
  PublishedOnDisk
PROPERTY TaskEnds
