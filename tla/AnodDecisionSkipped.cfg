\* Two lines about lib and its users, and one that loads src.
CONSTANTS
  Spec = {"lib", "tree", "user", "fetch", "src", "blob"}
  Source = {"code", "data"}
  Repo = {"git"}
  NoSpec = "-"
  NoItem = "-"
  NoLine = NoLine
  NoResolver = "none"
  Resolvers = {"download", "create"}
  Def <- MCDef
  Checkouts <- MCCheckouts
  Unmanaged = {"data"}
  Lines <- TreeAndSources
  MaxLines = 3
  Orders <- AnyOrder
  RejectDuplicates = TRUE
  Parts = {"context"}
  Platforms <- MCPlatforms
  CanadianExceptions <- MCCanadianExceptions
  Servers <- MCServers
  HostPlatforms <- MCHostPlatforms
  EnvFiles = {"saved"}
  Directories = {"home", "work"}
  MaxEnvCalls = 4
  LocalPlatform <- MCLocalPlatform
  BlockArgs <- MCBlockArgs
  ActionArgs <- MCActionArgs
  EntryPoints = {"main"}
  IgnoreDisabled = TRUE
  MaxBlocks = 2
  MaxCalls = 1
  MaxExecutions = 2
  Specs = {"x", "y"}
  Codes <- MCCodes
  Prologs <- MCPrologs
  ClassRank <- MCClassRank
  MaxDepth = 4
  MaxAsked = 2
  MaxEdits = 1
  QualifierDecls <- MCQualifierDecls
  SpaceDecls <- MCSpaceDecls
  Given <- MCGiven
  Rank <- MCRank
  BaseName <- MCBaseName
  TargetWords <- MCTargetWords
  MaxDecls = 2
  MaxParsed = 2
SPECIFICATION AnodSpec
INVARIANT DecisionsTaken
