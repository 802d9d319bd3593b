SPECIFICATION Spec
CONSTANTS
  s1 = s1
  w1 = w1
  w2 = w2
  d1 = d1
  None = None
  Conns <- ServerAndWorkers
  OfServer <- ServerConns
  Docs <- OneDoc
  Migrations <- FourMigrations
  Build <- OldAndNew
  MaxFaults = 2
  MaxTools = 2
INVARIANT NoDocumentLost
