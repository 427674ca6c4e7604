\* See MCAnod.  Plans of three lines; one action in two blocks, in two
\* executions; two loads of a specification, with one edit of a file; two
\* declarations and two arguments parsed; four calls of the environment.
CONSTANTS
  Spec = {"lib", "tree", "user", "fetch", "src", "blob"}
  Source = {"code", "data"}
  Repo = {"git"}
  NoSpec = "-"
  NoItem = "-"
  NoLine = NoLine
  NoResolver = "none"
  Resolvers = {"download", "create"}
  Def <- MCDef
  Checkouts <- MCCheckouts
  Unmanaged = {"data"}
  Lines <- MCLines
  MaxLines = 3
  Orders <- AnyOrder
  RejectDuplicates = TRUE
  Parts = {"context", "environment", "plans", "loader", "qualifiers"}
  Platforms <- MCPlatforms
  CanadianExceptions <- MCCanadianExceptions
  Servers <- MCServers
  HostPlatforms <- MCHostPlatforms
  EnvFiles = {"saved"}
  Directories = {"home", "work"}
  MaxEnvCalls = 4
  LocalPlatform <- MCLocalPlatform
  BlockArgs <- MCBlockArgs
  ActionArgs <- MCActionArgs
  EntryPoints = {"main"}
  IgnoreDisabled = TRUE
  MaxBlocks = 2
  MaxCalls = 1
  MaxExecutions = 2
  Specs = {"x", "y"}
  Codes <- MCCodes
  Prologs <- MCPrologs
  ClassRank <- MCClassRank
  MaxDepth = 4
  MaxAsked = 2
  MaxEdits = 1
  QualifierDecls <- MCQualifierDecls
  SpaceDecls <- MCSpaceDecls
  Given <- MCGiven
  Rank <- MCRank
  BaseName <- MCBaseName
  TargetWords <- MCTargetWords
  MaxDecls = 2
  MaxParsed = 2
SPECIFICATION AnodSpec
INVARIANTS
  ScheduleIsExact
  NeedsScheduled
  ErrorIsExplained
  DependenciesHonoured
  EnvironmentsRight
  LoadedRight
  NamesRight
