SPECIFICATION FairSpec
CONSTANTS
  m1 = m1
  m2 = m2
  t1 = t1
  t2 = t2
  c1 = c1
  c2 = c2
  w1 = w1
  k1 = k1
  j1 = j1
  j2 = j2
  NoText = NoText
  NoKey = NoKey
  NoJob = NoJob
  Mems <- TwoMems
  Texts <- TwoTexts
  Clients <- TwoClients
  Workers <- OneWorker
  Keys <- OneKey
  Jobs <- TwoJobs
  MaxRequests = 2
  MaxFaults = 1
  CrashPoints = {"claim", "read", "write", "finish"}
  BulkItems <- Bulks
INVARIANTS
  TypeOK
  HistoryExplainsRow
  AtMostOnce
PROPERTY IndexCatchesUp
CHECK_DEADLOCK FALSE
