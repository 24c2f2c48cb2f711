CONSTANTS
  c1 = c1
  c2 = c2
  k1 = k1
  k2 = k2
  a = a
  b = b
  p1 = p1
  p2 = p2
  p3 = p3
  poster = poster
  e1 = e1
  NoClient = NoClient
  NoClaim = NoClaim
  Collector = Collector
  Claims <- TwoClaims
  Clients <- TwoClients
  Terms <- TwoTerms
  Payloads <- ThreePayloads
  ClaimOf <- MCClaimOf
  TermsOf <- MCTermsOf
  Profiles <- OneTermEach
  Fetches <- OneFetch
  Posts <- OnePost
  Posters <- OnePoster
  Editors <- OneEditor
SPECIFICATION Spec
CONSTRAINT Bounded
INVARIANT TypeOK
INVARIANT NoOrphans
INVARIANT NoMatchIsForgotten
PROPERTY ReviewedMatchIsKept
