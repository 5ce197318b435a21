CONSTANTS
  None = None
  Invoices <- Small
  MaxLines = 4
  Threshold = 500
  Thread = {t1, t2}
  Seed = {s1}
  Token = {k1}
  Row = {"own"}
  File = {"pfx"}
  SeedLife = 2
  TokenLife = 1
  CacheLife = 2
  Absent = Absent
  Environment = {"cert", "prod"}
  Configured = "cert"
  Rnc = {"a", "b"}
  Handler = {t1, t2}
  Chosen = {1}
  MaxRetries = 1
  LastNumber = 2
  MaxCalls = 3
  Probe <- Base
SPECIFICATION CompanySpec
INVARIANTS TypeOK LinesAreBilled ItemsAddUp RetentionIsShared ItemsMatchTotals RfceRepeatsEcf RequiredIsWritten
  PeerTypeOK OneTokenPerSeed WithdrawnSoonForgotten
  DirectTypeOK OneNumberPerRfce AcceptedOnlyByDgii
SYMMETRY Threads
CHECK_DEADLOCK FALSE
