SPECIFICATION Spec
CONSTANTS
  OctetBits = 2
  Addrs = {"a", "b", "c"}
  RawConfigs <- MCRawConfigs
  CliBackends <- MCCliBackends
  Batches <- MCBatches
  TableNames <- MCTableNames
  KeyTexts <- MCKeyTexts
  DefaultCalls <- MCDefaultCalls
  Arrivals <- MCArrivals
  MaxEntries = 2
INVARIANTS
  TypeOK
  GroupsOrdered
  TableFaithful
  SameFunction
  BatchExact
  AnswersSame
  DumpFaithful
  ConfigVerdict
PROPERTY
  PerEntryAtomic
