CONSTANTS
  c1 = c1
  c2 = c2
  k1 = k1
  k2 = k2
  a = a
  b = b
  p1 = p1
  p2 = p2
  p3 = p3
  poster = poster
  e1 = e1
  NoClient = NoClient
  NoClaim = NoClaim
  Collector = Collector
  Claims <- OneClaim
  Clients <- OneClient
  Terms <- TwoTerms
  Payloads <- TwoCopies
  ClaimOf <- MCClaimOf
  TermsOf <- MCTermsOf
  Profiles <- OneTermEach
  Fetches <- OneCopyEach
  Posts <- NoPosts
  Posters <- NoPosters
  Editors <- OneEditor
SPECIFICATION Spec
CONSTRAINT Untriaged
PROPERTY OnlyStaleAlertsGo
