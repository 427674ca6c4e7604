\* Any edits of a graph of three vertices.  Every graph of three jobs, cyclic or
\* not; skipped jobs, requeues, jobs that may hang until the timeout interrupts
\* them, one Ctrl-C.
CONSTANTS
  Parts = {"dag", "scheduler"}
  Merged <- MCMerged
  ReverseOpen = FALSE
  j1 = j1
  j2 = j2
  j3 = j3
  Vertex <- MCVertex
  NoJob = NoJob
  NumQueues = 2
  JobQueue <- TwoQueues
  JobTokens <- J1Big
  JobPriority <- J2First
  QueueTokens <- TwoQueueTokens
  Graphs <- AllGraphs
  Skippable = {j2}
  Hanging <- MCVertex
  MaxRequeue = 1
  AllowInterrupt = TRUE
SPECIFICATION GraphsSpec
INVARIANTS
  CachesSound
  Precedence
  ResourcesExact
  Bookkeeping
  WorkConserving
  InterruptedAll
PROPERTIES
  RefusalsRight
  RunReturns
  Implements
