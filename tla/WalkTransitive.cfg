\* The first job of a chain is not tracked.
CONSTANTS
  Parts = {"walk"}
  a = a
  b = b
  c = c
  Vertex <- MCVertex
  NumQueues = 1
  JobQueue <- MCQueue
  JobTokens <- MCTokens
  QueueTokens <- MCQueueTokens
  Campaigns <- UntrackedFirst
  Version = {0, 1}
  Outcomes = {"success", "failure", "notready"}
  Actions <- MCActions
  ActionKind <- MCActionKind
  ActionsBefore <- MCActionsBefore
  DryRun = FALSE
  Revisions = {1, 2}
  SpaceDirs = {"tmp", "src", "log"}
  KeptDirs = {"log"}
  MaxRuns = 2
  MaxRaised = 2
  FilePaths <- MCFilePaths
  InitialFiles <- MCInitialFiles
  Links = {"link"}
  Hidden = {".b"}
  Meaning <- MCMeaning
  MoveCalls <- MCMoveCalls
  UnpackCalls <- MCUnpackCalls
  MaxFileCalls = 2
  MaxFaults = 1
  Paths <- MCPaths
  Calls <- MCCalls
  MaxEvents = 2
  MaxSyncs = 2
  Urls <- MCUrls
  Vcs <- MCVcs
  MaxUpdates = 3
  MaxChanges = 2
  Projects = {"a", "b", "c"}
  Extras = {"", "x"}
  Versions <- MCVersions
  Kind <- MCKind
  Requires <- MCRequires
  Required <- MCRequired
  LocalWheels = {}
  AllowedYanked = {}
  AllowedPrerelease = {"b"}
  Platforms <- MCPlatforms
  Works <- MCWorks
  MaxClosures = 2
  MaxNetworkFailures = 1
  Handlers <- MCHandlers
  SmtpServers <- MCServers
  EventFiles = {"log", "out"}
  Recipients = {"a", "b"}
  MaxSends = 2
  MaxWrites = 1
  MaxTroubles = 2
SPECIFICATION SandboxSpec
INVARIANT DoneIsUpToDate
