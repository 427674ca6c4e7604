\* See MCStores.  Four submissions and two additions to the local store with one
\* fault; clients that call each other's store and lose an answer; three
\* downloads; three fetches; three requests.
CONSTANTS
  Setups = {"s1"}
  Dates = {1}
  Sources = {"src"}
  ThirdParties = {"tp"}
  Components = {"comp"}
  Contents = {"k1"}
  Shapes <- MCShapes
  Queries <- MCQueries
  ChunkSize = 1
  MaxWrites = 4
  MaxAdds = 2
  MaxFaults = 1
  Parts = {"store", "clients", "download", "cache", "http"}
  ClientSetups = {"s", "thirdparties"}
  ClientDates = {1, 2}
  Uploaders = {1, 2}
  Packages = {"p"}
  Payloads = {"x", "y"}
  AttachmentKeys = {"k"}
  Attempts = 2
  Timeout = 2
  RetryDelay = 2
  MaxClientCalls = 4
  MaxClock = 6
  f1 = f1
  f2 = f2
  Files <- MCFiles
  Resource <- MCResource
  Dirs = {"u", "v"}
  MaxCalls = 3
  Clients = {1, 2}
  CachedResources = {"r", "s"}
  Filename <- MCFilename
  Destinations = {"d"}
  MaxFetches = 3
  MaxEvents = 2
  BaseURLs <- MCBaseURLs
  Filenames = {"f"}
  MaxRequests = 3
SPECIFICATION StoresSpec
INVARIANTS
  StoreRight
  ClientsRight
  DownloadRight
  ReturnedIsVerified
  SessionRight
