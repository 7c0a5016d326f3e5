CONSTANTS
  qa = qa  qb = qb
  Workers = {k1, k2, k3}
  ByName <- MCByName
  Known = {qa}
SPECIFICATION FairSpec
INVARIANTS KnownExclusion ReleasesAll
PROPERTIES EveryoneEnters ExclusiveInTheEnd
