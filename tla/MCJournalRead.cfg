SPECIFICATION FairSpec
CONSTANTS
  r1 = r1
  r2 = r2
  NotFound = NotFound
  Resp = {r1, r2}
  BrokerErr = {NotFound}
  Window = 2
  MaxSent = 3
INVARIANTS ClientReadsPrefix OKMeansComplete BrokerErrorFaithful NoTokenNoCall Inv
PROPERTIES UpstreamReleased ImplementsResponseStream EndReachesClient
