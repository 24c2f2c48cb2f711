CONSTANTS
  c1 = c1
  c2 = c2
  r1 = r1
  Claims <- TwoClaims
  Requests <- OneRequest
  MaxJobs = 2
  MaxStops = 1
SPECIFICATION FairSpec
CONSTRAINT Bounded
INVARIANT TypeOK
INVARIANT ResultsAreStored
INVARIANT NewsIsMailed
INVARIANT MailedTwiceOnlyBeside
 
PROPERTY QueueSpec
PROPERTY JobsEnd
