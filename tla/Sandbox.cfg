\* See MCSandbox.  Two or three walks; two runs of electrolyt; two calls of mv,
\* cp or unpack_archive with one fault; two calls of sync_tree with two edits,
\* or an edit and a failure; three updates of a checkout with two changes or
\* mishaps; two closures; an event sent twice.
CONSTANTS
  Parts = {"walk", "electrolyt", "files", "sync", "checkouts", "pypi", "events"}
  a = a
  b = b
  c = c
  Vertex <- MCVertex
  NumQueues = 1
  JobQueue <- MCQueue
  JobTokens <- MCTokens
  QueueTokens <- MCQueueTokens
  Campaigns <- MCCampaigns
  Version = {0, 1}
  Outcomes = {"success", "failure", "notready"}
  Actions <- MCActions
  ActionKind <- MCActionKind
  ActionsBefore <- MCActionsBefore
  DryRun = FALSE
  Revisions = {1, 2}
  SpaceDirs = {"tmp", "src", "log"}
  KeptDirs = {"log"}
  MaxRuns = 2
  MaxRaised = 2
  FilePaths <- MCFilePaths
  InitialFiles <- MCInitialFiles
  Links = {"link"}
  Hidden = {".b"}
  Meaning <- MCMeaning
  MoveCalls <- MCMoveCalls
  UnpackCalls <- MCUnpackCalls
  MaxFileCalls = 2
  MaxFaults = 1
  Paths <- MCPaths
  Calls <- MCCalls
  MaxEvents = 2
  MaxSyncs = 2
  Urls <- MCUrls
  Vcs <- MCVcs
  MaxUpdates = 3
  MaxChanges = 2
  Projects = {"a", "b", "c"}
  Extras = {"", "x"}
  Versions <- MCVersions
  Kind <- MCKind
  Requires <- MCRequires
  Required <- MCRequired
  LocalWheels = {}
  AllowedYanked = {}
  AllowedPrerelease = {"b"}
  Platforms <- MCPlatforms
  Works <- MCWorks
  MaxClosures = 2
  MaxNetworkFailures = 1
  Handlers <- MCHandlers
  SmtpServers <- MCServers
  EventFiles = {"log", "out"}
  Recipients = {"a", "b"}
  MaxSends = 2
  MaxWrites = 1
  MaxTroubles = 2
SPECIFICATION SandboxSpec
INVARIANTS
  DoneIsUpToDate
  IncrementalRight
  FailureSourceExact
  ExecutedOnItsInputs
  FilesRight
  CheckoutRight
  LockRight
  SentIsDelivered
