CONSTANTS
  Urls <- AllUrls
  Serve <- Web
  MaxHops = 6
  Discoveries <- Both
  Hosts <- AllHosts
  Host <- HostOf
  Site <- SiteName
  Rejected <- OnlyStore
  Homepages <- HomePaths
  FeaturePaths <- Feature
  PricePaths <- Price
  TypicalPaths <- Typical
  OffTopic <- NoUrl
  Editorial <- NoUrl
  Matches <- Keywords
  Topical <- Topics
  Branded <- AllBranded
  Verbatim <- SpeltOut
  BrandHosts <- AtlasHosts
  Preference <- PathOrder
  Links <- AllLinks
  Normal <- NormalOf
  Intents <- TwoIntents
  Respond <- Responses
  FoundOnSite <- OnSite
  Limits <- LimitsOf
SPECIFICATION Spec
INVARIANTS TypeOK RowsAreOfficial ProfileIsBacked
PROPERTIES DiscoveriesEnd
CHECK_DEADLOCK FALSE
