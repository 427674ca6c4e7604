\* Jobs that run up to twice.
CONSTANTS
  Parts = {"timeout"}
  j1 = j1
  j2 = j2
  Job <- MCJob
  Hanging <- MCHanging
  MaxRuns = 2
  Free = Free
  Main = Main
  TimedJob <- MCTimedJob
  JobTimeoutValue = 4
  MaxLaunches = 2
  MaxTime = 24
  root = root
  p1 = p1
  p2 = p2
  p3 = p3
  Pid <- MCPid
  Root = root
  Init1 = Init1
  Immune <- MCImmune
  NumProcesses = 3
  NumOthers = 2
  Pipelines <- MCPipelines
  Inputs = {"none", "text"}
  Outputs = {"pipe", "file"}
  Errors = {"stdout", "pipe", "file"}
  InputSize = 3
  Capacity = 2
  MaxCommands = 2
SPECIFICATION JobsSpec
INVARIANT TimeoutRespected
