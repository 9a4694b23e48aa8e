SPECIFICATION PartsSpec
CONSTANTS
  Budget <- MCBudget
  MaxAsk = 3
  MaxTaken = 3
  LengthOf <- MCLengthOf
  Requests <- MCRequests
  MaxSent = 2
  MaxLine = 6
  MaxHeaderBytes = 7
  MaxHeaders = 2
  MaxBody = 4
  RecvBuf = 18
  Keys = {"a", "b", "c", "d", "e"}
  NoKey = NoKey
  NoValue = NoValue
  Values = {v1, v2}
  Deleted = Deleted
  Hash <- MCHash
  InitialBuckets = 4
  MaxBuckets = 8
  Workers = {w1, w2}
  Letters = {"i", "a", "k", "m", "x", "u", "0", "1", "{", "}", "[", "]", ":", ","}
  Names <- MCNames
  Payloads <- MCPayloads
  Existing <- MCExisting
  Wanted <- MCWanted
  MaxRows = 3
  MaxQueries = 4
  InitialCap = 38
  Reserve = 23
  FixedCap = 22
  Procs = {p1, p2, p3}
  NoProc = NoProc
  Count = 2
  Once = {1}
  SeedRows = 2
  MaxBoots = 4
INVARIANTS
  OneAnswer NoLeaseAcrossReset
  HttpInv FramedAsSent AnsweredByLimits
  MapInv
  DbInv RowsWhole TrueIffChanged PayloadFound
  BootInv RunOnce ServesMigrated
PROPERTIES ImplementsMap MapCallsEnd
CHECK_DEADLOCK FALSE
