SPECIFICATION Spec
CONSTANTS
  SubKinds = {"fast", "serial", "concurrent", "ordered", "switch", "exhaust"}
  NItems = 3
  Concurrency = 2
  Widths = {2}
  OutCap = 1
  Retryable = {1}
  Batch = 2
  Runs = 2
  Ops <- MCOps
  Pipelines <- MCPipelines
  Endings <- MCEndings
  Factories = {1, 2}
  NPerRun = 2
  FactCap = 1
INVARIANTS
  OutputsWhole
  OutcomesTold
PROPERTIES
  InnerEnds
