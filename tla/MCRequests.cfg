SPECIFICATION RequestsSpec
CONSTANTS
  Items = {1, 2, 3}
  Chains <- MCChains
  Inner <- MCInner
  MaxRetries = 1
  MaxInt8 = 127
  Codes = {200, 302, 404, 429, 500}
  Requests = {r1, r2}
  Names = {n1, n2}
  Rows = 3
  BatchSize = 2
  Bodies <- MCBodies
  Limits <- MCLimits
  Texts <- MCTexts
  TextValues <- MCTextValues
  DefaultSize = 4
  Pagings <- MCPagings
  Null = Null
  NilList = NilList
  Nothing = Nothing
  Dbs = {d1, d2}
  MaxFrames = 3
  MaxWrites = 2
  Callers = {c1, c2, c3}
  Calls = {"QueryOnly", "QueryAndUpdate", "SaveIgnore", "SaveUpdate", "Insert", "Update", "Delete"}
  r1 = r1
  r2 = r2
  r3 = r3
  i1 = i1
  i2 = i2
  Insts = {i1, i2}
  Readers = {r1, r2, r3}
  Inst <- MCInst
  Home = i1
  MaxVersion = 2
  None = None
INVARIANTS
  TypesOK BatchHolds ChainHolds NodeIsJudgedByReply DownloadIsWhole LogIsReadable
   DatabaseIsAsTold
PROPERTIES  RequestsReturn
CHECK_DEADLOCK FALSE
